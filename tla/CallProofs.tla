----------------------------- MODULE CallProofs -----------------------------
(***************************************************************************)
(* Proofs about the calls, for every set of agents, every scenario the     *)
(* loader accepts, every combination of the options and every number of    *)
(* retransmissions and calls.                                              *)
(***************************************************************************)
EXTENDS Call, TdmMap, FiniteSetTheorems, TLAPS

(* Every set of naturals has a least element.                              *)
LEMMA Least ==
    ASSUME NEW S \in SUBSET Nat, S # {}
    PROVE  \E m \in S : \A k \in S : m <= k
<1> DEFINE R == {p \in Nat \X Nat : p[1] < p[2]}
<1>1. IsWellFoundedOn(R, Nat)
  BY NatLessThanWellFounded DEF OpToRel
<1>2. PICK m \in S : \A k \in S : <<k, m>> \notin R
  <2> HIDE DEF R
  <2> QED
    BY <1>1, WFMin
<1>3. \A k \in S : ~(k < m)
  BY <1>2
<1> QED
  BY <1>3

(* Min of module FiniteSetsExt is the least element.                       *)
LEMMA MinIsLeast ==
    ASSUME NEW S \in SUBSET Nat, S # {}
    PROVE  Min(S) \in S /\ \A k \in S : Min(S) <= k
BY Least DEF Min

(* The call object of a live call that walks scenario s: what it indexes   *)
(* the scenario with is inside it.                                         *)
Good(s, c) ==
    /\ c \in CallType /\ c.live
    /\ c.msg_index \in DOMAIN s
    /\ c.last_send_index \in DOMAIN s
    /\ c.recv_retrans_recv_index >= 0 => c.recv_retrans_send_index \in DOMAIN s

Counted(a) == succeeded[a] + failed[a] + (IF call[a].live THEN 1 ELSE 0) = created[a]

(* The counters of the messages received.                                  *)
CountersOK == /\ nb_recv = [a \in Agent |-> nb_recv[a]]
              /\ \A a \in Agent : nb_recv[a] \in [DOMAIN Scenario[a] -> Nat]

(* An object that does not live is NoCall: nothing of an earlier call      *)
(* is left in it.                                                          *)
CallsOK == /\ call \in [Agent -> CallType]
           /\ \A a \in Agent : call[a] = NoCall \/ Good(Scenario[a], call[a])
           /\ control \in Agent \cup {NoAgent}
           /\ control \in Agent => call[control].live

CountsOK == /\ created \in [Agent -> 0..MaxCalls]
            /\ succeeded \in [Agent -> Nat] /\ failed \in [Agent -> Nat]
            /\ ~undefined => \A a \in Agent : Counted(a)

IInv == /\ config \in Configurations
        /\ CallsOK /\ CountsOK /\ CountersOK
        /\ dead \in [Agent -> BOOLEAN]
        /\ sent \in [Agent -> SUBSET Messages]
        /\ undefined \in BOOLEAN

-----------------------------------------------------------------------------
(***************************************************************************)
(* Scenarios and call objects.                                             *)
(***************************************************************************)
(* A scenario is an array of its size, indexed from 0.                     *)
LEMMA ScenarioIsArray ==
    ASSUME config \in Configurations, NEW a \in Agent
    PROVE  /\ Size(a) \in Nat \ {0}
           /\ DOMAIN Scenario[a] = 0..Size(a)-1
           /\ DOMAIN Scenario[a] \subseteq Nat /\ 0 \in DOMAIN Scenario[a]
           /\ \A i \in DOMAIN Scenario[a] : Scenario[a][i] \in Elements
<1> DEFINE s == Scenario[a]
           n == Cardinality(DOMAIN s)
<1>1. n \in Nat \ {0} /\ s \in [0..n-1 -> Elements]
  BY CallAssumption DEF Loaded, Scenario
<1>2. Size(a) = n
  BY DEF Size
<1> HIDE DEF n
<1>3. DOMAIN s = 0..n-1 /\ \A i \in DOMAIN s : s[i] \in Elements
  BY <1>1
<1> QED
  BY <1>1, <1>2, <1>3

(* What a scenario names is a message, and so is what calls send without   *)
(* being told to.                                                          *)
LEMMA MessagesOf ==
    /\ {NoMsg, ACK, BYE, CANCEL, Msg(200, "BYE"), Msg(200, "CANCEL")} \subseteq Messages
    /\ config \in Configurations =>
         \A a \in Agent : \A i \in DOMAIN Scenario[a] : Scenario[a][i].msg \in Messages
<1>1. ASSUME NEW c \in Configurations, NEW a \in Agent, NEW i \in DOMAIN c.scenario[a]
      PROVE  c.scenario[a][i].msg \in Scripted
  <2>1. c.scenario[a][i].msg \in Names(c.scenario[a])
    BY DEF Names
  <2> QED
    BY <2>1 DEF Scripted
<1> QED
  BY <1>1 DEF Messages, Scenario

(* A new call is at the beginning of its scenario; no call is an object    *)
(* too.                                                                    *)
LEMMA NewCallIsGood ==
    /\ NewCall \in CallType /\ NoCall \in CallType /\ ~NoCall.live
    /\ \A s : 0 \in DOMAIN s => Good(s, NewCall)
<1>1. NoMsg \in Messages
  BY MessagesOf
<1>2. /\ NewCall.live /\ NewCall.running
      /\ NewCall.msg_index = 0 /\ NewCall.last_send_index = 0
      /\ NewCall.recv_retrans_recv_index = -1
  BY DEF NewCall
<1>3. NewCall \in CallType
  BY <1>1 DEF NewCall, CallType, Timer
<1>4. NoCall \in CallType /\ ~NoCall.live
  BY <1>3 DEF NoCall, CallType
<1> QED
  BY <1>2, <1>3, <1>4 DEF Good

(* The fields that a step may set at any time.                             *)
LEMMA RunningIsGood ==
    ASSUME NEW s, NEW c, Good(s, c), NEW b \in BOOLEAN
    PROVE  Good(s, [c EXCEPT !.running = b])
BY DEF Good, CallType

(* The timers, and the count of retransmissions.                           *)
LEMMA TimersAreGood ==
    ASSUME NEW s, NEW c, Good(s, c), NEW t \in Timer
    PROVE  /\ Good(s, [c EXCEPT !.recv_timeout = t])
           /\ Good(s, [c EXCEPT !.send_timeout = t])
           /\ Good(s, [c EXCEPT !.next_retrans = t])
           /\ Good(s, [c EXCEPT !.paused_until = t])
           /\ Good(s, [c EXCEPT !.next_retrans = t, !.nb_retrans = @ + 1])
           /\ \A b \in BOOLEAN : Good(s, [c EXCEPT !.paused_until = t, !.running = b])
<1>1. c.nb_retrans \in Nat /\ c.nb_retrans + 1 \in Nat
  BY DEF Good, CallType
<1> QED
  BY ZenonT(60), <1>1 DEF Good, CallType

(* Moving to another message of the scenario.                              *)
LEMMA IndexIsGood ==
    ASSUME NEW s, NEW c, Good(s, c), NEW i \in DOMAIN s, DOMAIN s \subseteq Nat
    PROVE  /\ Good(s, [c EXCEPT !.msg_index = i])
           /\ Good(s, [c EXCEPT !.msg_index = i, !.recv_timeout = "off"])
           /\ Good(s, [c EXCEPT !.paused_until = "off", !.msg_index = i])
           /\ Good(s, [c EXCEPT !.msg_index = i, !.next_retrans = "off",
                                !.recv_timeout = "off"])
BY ZenonT(60), SMTT(40) DEF Good, CallType, Timer

(* Sending message i.                                                      *)
LEMMA SendsIsGood ==
    ASSUME NEW s, NEW c, Good(s, c), NEW m
    PROVE  Good(s, Sends(c, m)) /\ Good(s, Established(c, m))
BY DEF Good, CallType, Sends, Established

(* Remembering what the message that is sent answers.                      *)
LEMMA AnswerIsGood ==
    ASSUME NEW s, NEW c, Good(s, c), NEW i \in DOMAIN s, DOMAIN s \subseteq Nat
    PROVE  Good(s, AnswerTo(c, i))
<1>1. i \in Int /\ NoMsg \in Messages
  BY MessagesOf
<1> QED
  BY <1>1 DEF Good, CallType, AnswerTo

(* What executeMessage() notes of the message it sent.                     *)
LEMMA SentIsGood ==
    ASSUME NEW s, NEW c, Good(s, c), NEW i \in DOMAIN s, DOMAIN s \subseteq Nat,
           NEW m \in Messages, NEW t \in Timer, NEW n \in Nat
    PROVE  Good(s, [c EXCEPT !.send_timeout = "off",
                             !.last_send_index = i,
                             !.last_send_msg = m,
                             !.next_retrans = t,
                             !.nb_retrans = n])
BY DEF Good, CallType, Timer

(* Receiving message i.                                                    *)
LEMMA AcceptedIsGood ==
    ASSUME NEW s, NEW c, Good(s, c), NEW i \in DOMAIN s, DOMAIN s \subseteq Nat,
           NEW m \in Messages, NEW t \in Timer
    PROVE  Good(s, [c EXCEPT !.recvhash_msgindex_pairs = @ \cup {<<m, i>>},
                             !.next_retrans = t,
                             !.ack_is_pending = @ \/ m.code \in 200..298])
<1>1. (c.ack_is_pending \/ m.code \in 200..298) \in BOOLEAN
  OBVIOUS
<1>2. c.recvhash_msgindex_pairs \cup {<<m, i>>} \in SUBSET (Messages \X Nat)
  BY DEF Good, CallType
<1> QED
  BY ZenonT(60), <1>1, <1>2 DEF Good, CallType

(* The message accepted is the last one received.                          *)
LEMMA LastReceivedIsGood ==
    ASSUME NEW s, NEW c, Good(s, c), NEW i \in DOMAIN s, DOMAIN s \subseteq Nat,
           NEW m \in Messages
    PROVE  Good(s, [c EXCEPT !.last_recv_index = i,
                             !.last_recv_hash = m,
                             !.last_recv_msg = m])
<1>1. i \in Int
  OBVIOUS
<1> QED
  BY <1>1 DEF Good, CallType

-----------------------------------------------------------------------------
(***************************************************************************)
(* What a handler of one agent changes besides the call, and how it leaves *)
(* the call.                                                               *)
(***************************************************************************)
Creates(a) == IF call[a].live THEN UNCHANGED created
              ELSE created[a] < MaxCalls /\ created' = [created EXCEPT ![a] = @ + 1]

Frame(a) == /\ config' = config /\ ~undefined
            /\ CountersOK'
            /\ Creates(a)

(* The call that exists or is created is counted once more when it ends.   *)
LEMMA CreatesKeeps ==
    ASSUME IInv, NEW a \in Agent, Frame(a)
    PROVE  /\ created' \in [Agent -> 0..MaxCalls]
           /\ created'[a] = succeeded[a] + failed[a] + 1
           /\ \A b \in Agent \ {a} : created'[b] = created[b]
<1>1. /\ created \in [Agent -> 0..MaxCalls] /\ MaxCalls \in Nat
      /\ created[a] = succeeded[a] + failed[a] + (IF call[a].live THEN 1 ELSE 0)
      /\ succeeded[a] \in Nat /\ failed[a] \in Nat
  BY CallAssumption DEF IInv, CountsOK, Frame, Counted
<1>2. CASE call[a].live
  BY <1>1, <1>2 DEF Frame, Creates
<1>3. CASE ~call[a].live
  <2>1. created[a] < MaxCalls /\ created' = [created EXCEPT ![a] = @ + 1]
    BY <1>3 DEF Frame, Creates
  <2>2. created[a] + 1 \in 0..MaxCalls /\ created[a] = succeeded[a] + failed[a]
    BY <1>1, <1>3, <2>1
  <2> QED
    BY <1>1, <2>1, <2>2
<1> QED
  BY <1>2, <1>3

(* The call goes on.                                                       *)
LEMMA CallLives ==
    ASSUME IInv, NEW a \in Agent, Frame(a), NEW c, Good(Scenario[a], c),
           call' = [call EXCEPT ![a] = c], control' \in {a, NoAgent},
           UNCHANGED <<dead, succeeded, failed>>,
           sent' \in [Agent -> SUBSET Messages], undefined' \in BOOLEAN
    PROVE  IInv'
<1>1. Scenario' = Scenario /\ config' \in Configurations
  BY DEF IInv, Frame, Scenario
<1>2. c \in CallType /\ c.live
  BY DEF Good
<1>3. /\ call' \in [Agent -> CallType] /\ call'[a] = c
      /\ \A b \in Agent \ {a} : call'[b] = call[b]
  BY <1>2 DEF IInv, CallsOK
<1>4. CallsOK'
  <2>1. \A b \in Agent : call'[b] = NoCall \/ Good(Scenario[b], call'[b])
    BY <1>3 DEF IInv, CallsOK
  <2>2. control' \in Agent => call'[control'].live
    BY <1>2, <1>3, CallAssumption
  <2> QED
    BY <1>1, <1>3, <2>1, <2>2 DEF CallsOK
<1>5. CountsOK'
  <2>1. \A b \in Agent : Counted(b)'
    <3> SUFFICES ASSUME NEW b \in Agent PROVE Counted(b)'
      OBVIOUS
    <3>1. CASE b = a
      <4>1. succeeded[a] \in Nat /\ failed[a] \in Nat
        BY DEF IInv, CountsOK
      <4> QED
        BY <1>2, <1>3, <3>1, <4>1, CreatesKeeps DEF Counted
    <3>2. CASE b # a
      <4>1. Counted(b)
        BY DEF IInv, CountsOK, Frame
      <4> QED
        BY <1>3, <3>2, <4>1, CreatesKeeps DEF Counted
    <3> QED
      BY <3>1, <3>2
  <2> QED
    BY <2>1, CreatesKeeps DEF IInv, CountsOK
<1> QED
  BY <1>1, <1>4, <1>5 DEF IInv, Frame

(* The call is deleted, and counted.                                       *)
LEMMA CallEnds ==
    ASSUME IInv, NEW a \in Agent, Frame(a), NEW b \in BOOLEAN, Delete(a, b),
           \/ succeeded' = [succeeded EXCEPT ![a] = @ + 1] /\ UNCHANGED failed
           \/ failed' = [failed EXCEPT ![a] = @ + 1] /\ UNCHANGED succeeded,
           sent' \in [Agent -> SUBSET Messages], undefined' \in BOOLEAN
    PROVE  IInv'
<1>1. Scenario' = Scenario /\ config' \in Configurations
  BY DEF IInv, Frame, Scenario
<1>2. dead' \in [Agent -> BOOLEAN]
  BY DEF IInv, Delete
<1>3. /\ call' \in [Agent -> CallType] /\ call'[a] = NoCall
      /\ \A d \in Agent \ {a} : call'[d] = call[d]
  BY NewCallIsGood DEF IInv, CallsOK, Delete
<1>4. CallsOK'
  <2>1. \A d \in Agent : call'[d] = NoCall \/ Good(Scenario[d], call'[d])
    BY <1>3 DEF IInv, CallsOK
  <2> QED
    BY <1>1, <1>3, <2>1, CallAssumption DEF CallsOK, Delete
<1>5. CountsOK'
  <2>1. /\ succeeded \in [Agent -> Nat] /\ failed \in [Agent -> Nat]
        /\ succeeded[a] \in Nat /\ failed[a] \in Nat
    BY DEF IInv, CountsOK
  <2>2. /\ succeeded' \in [Agent -> Nat] /\ failed' \in [Agent -> Nat]
        /\ succeeded'[a] + failed'[a] = succeeded[a] + failed[a] + 1
    BY <2>1
  <2>3. \A d \in Agent \ {a} : succeeded'[d] = succeeded[d] /\ failed'[d] = failed[d]
    BY <2>1
  <2>4. \A d \in Agent : Counted(d)'
    <3> SUFFICES ASSUME NEW d \in Agent PROVE Counted(d)'
      OBVIOUS
    <3>1. CASE d = a
      <4>1. ~call'[d].live
        BY <1>3, <3>1, NewCallIsGood
      <4>2. succeeded'[a] \in Nat /\ failed'[a] \in Nat
        BY <2>2
      <4> QED
        BY <2>1, <2>2, <3>1, <4>1, <4>2, CreatesKeeps DEF Counted
    <3>2. CASE d # a
      <4>1. Counted(d)
        BY DEF IInv, CountsOK, Frame
      <4> QED
        BY <1>3, <2>3, <3>2, <4>1, CreatesKeeps DEF Counted
    <3> QED
      BY <3>1, <3>2
  <2> QED
    BY <2>2, <2>4, CreatesKeeps DEF CountsOK
<1> QED
  BY <1>1, <1>2, <1>4, <1>5 DEF IInv, Frame

(* terminate(), next() and abortCall().                                    *)
LEMMA NextKeeps ==
    ASSUME IInv, NEW a \in Agent, Frame(a), NEW c, Good(Scenario[a], c), next(a, c),
           sent' \in [Agent -> SUBSET Messages], undefined' \in BOOLEAN
    PROVE  IInv'
<1> DEFINE i == NextIndex(Scenario[a][c.msg_index], c.msg_index)
<1>1. config \in Configurations
  BY DEF IInv
<1>2. /\ c.msg_index \in Nat /\ Scenario[a][c.msg_index] \in Elements
      /\ Size(a) \in Nat /\ DOMAIN Scenario[a] = 0..Size(a)-1
      /\ DOMAIN Scenario[a] \subseteq Nat
  BY <1>1, ScenarioIsArray DEF Good
<1>3. i \in Nat
  BY <1>2 DEF NextIndex, Elements
<1> HIDE DEF i
<1>4. CASE i >= Size(a)
  <2>1. terminate(a) /\ DeadcallWait \in BOOLEAN
    BY <1>4 DEF next, i, DeadcallWait
  <2> QED
    BY <2>1, CallEnds DEF terminate
<1>5. CASE ~(i >= Size(a))
  <2>1. i \in DOMAIN Scenario[a]
    BY <1>2, <1>3, <1>5
  <2>2. RunsOn(a, [c EXCEPT !.msg_index = i, !.recv_timeout = "off"])
    BY <1>5 DEF next, i
  <2>3. Good(Scenario[a], [c EXCEPT !.msg_index = i, !.recv_timeout = "off"])
    BY <1>2, <2>1, IndexIsGood
  <2> QED
    BY <2>2, <2>3, CallLives DEF RunsOn
<1> QED
  BY <1>4, <1>5

(* A failure deletes the call and counts it.                               *)
LEMMA FailsKeeps ==
    ASSUME IInv, NEW a \in Agent, Frame(a), NEW b \in BOOLEAN, Fails(a, b),
           sent' \in [Agent -> SUBSET Messages], undefined' \in BOOLEAN
    PROVE  IInv'
BY CallEnds DEF Fails

(* abortCall() sends only messages, and fails the call.                    *)
LEMMA AbortKeeps ==
    ASSUME IInv, NEW a \in Agent, Frame(a), NEW c, abortCall(a, c)
    PROVE  IInv'
<1>1. AbortMessages(a, c) \subseteq Messages
  BY MessagesOf DEF AbortMessages
<1>2. sent' \in [Agent -> SUBSET Messages] /\ undefined' \in BOOLEAN
  BY <1>1 DEF abortCall, FailsSending, IInv
<1>3. Fails(a, DeadcallWait) /\ DeadcallWait \in BOOLEAN
  BY DEF abortCall, FailsSending, DeadcallWait
<1> QED
  BY <1>2, <1>3, FailsKeeps

-----------------------------------------------------------------------------
(***************************************************************************)
(* run().                                                                  *)
(***************************************************************************)
LEMMA LiveIsGood ==
    ASSUME IInv, NEW a \in Agent, call[a].live
    PROVE  Good(Scenario[a], call[a])
BY NewCallIsGood DEF IInv, CallsOK

(* Nothing that run() does is a reception.                                 *)
LEMMA RunFrame ==
    ASSUME IInv, ~undefined, NEW a \in Agent, call[a].live, config' = config,
           UNCHANGED <<nb_recv, created>>
    PROVE  Frame(a)
<1>1. Scenario' = Scenario
  BY DEF Scenario
<1>2. CountersOK'
  BY <1>1 DEF IInv, CountersOK
<1> QED
  BY <1>2 DEF Frame, Creates

(* What needs no message to be sent.                                       *)
LEMMA ReturnsKeeps ==
    ASSUME IInv, NEW a \in Agent, Frame(a), NEW c, Good(Scenario[a], c),
           Returns(a, c) \/ RunsOn(a, c),
           UNCHANGED sent, undefined' \in BOOLEAN
    PROVE  IInv'
BY CallLives DEF Returns, RunsOn, IInv

(* Every step of run() keeps the invariant.                                *)
LEMMA RunKeeps ==
    ASSUME IInv, ~undefined, NEW a \in Agent, Step(a)
    PROVE  IInv'
<1> DEFINE c == call[a]
           s == Scenario[a]
<1>1. /\ Good(s, c) /\ c.live /\ config \in Configurations /\ config' = config
      /\ sent \in [Agent -> SUBSET Messages] /\ undefined \in BOOLEAN
  BY LiveIsGood DEF Step, run, Retransmit, GiveUp, StaysPaused, PauseEnds,
     ExecutePause, SendWaits, SendIsCongested, SendTimesOut, SendFails,
     ExecuteSend, ExecuteRecv, RecvTimesOut, Executes, Steps, Runs, IInv
<1>2. Frame(a)
  BY <1>1, RunFrame DEF Step, run, Retransmit, GiveUp, StaysPaused, PauseEnds,
     ExecutePause, SendWaits, SendIsCongested, SendTimesOut, SendFails,
     ExecuteSend, ExecuteRecv, RecvTimesOut
<1>3. DOMAIN s \subseteq Nat /\ "off" \in Timer /\ "armed" \in Timer
  BY <1>1, ScenarioIsArray DEF Timer
<1> HIDE DEF c, s
<1>4. CASE Retransmit(a)
  <2>1. CASE RunsOn(a, [c EXCEPT !.next_retrans = "armed", !.nb_retrans = @ + 1])
             /\ UNCHANGED undefined
    <3>1. Good(s, [c EXCEPT !.next_retrans = "armed", !.nb_retrans = @ + 1])
      BY <1>1, <1>3, TimersAreGood
    <3> QED
      BY <1>1, <1>2, <1>4, <2>1, <3>1, ReturnsKeeps DEF Retransmit, s
  <2>2. CASE SendErrors /\ Fails(a, FALSE) /\ undefined' = TRUE
    BY <1>1, <1>2, <1>4, <2>2, FailsKeeps DEF Retransmit
  <2> QED
    BY <1>4, <2>1, <2>2 DEF Retransmit, c
<1>5. CASE GiveUp(a)
  <2> DEFINE d == [c EXCEPT !.nb_retrans = @ + 1]
             label == s[c.last_send_index].on_timeout
  <2>1. CASE label \in DOMAIN s
    <3>1. Good(s, d)
      BY <1>1 DEF Good, CallType
    <3>2. Good(s, [d EXCEPT !.msg_index = label, !.next_retrans = "off",
                            !.recv_timeout = "off"])
      BY <1>3, <2>1, <3>1, IndexIsGood
    <3>3. /\ Returns(a, [d EXCEPT !.msg_index = label, !.next_retrans = "off",
                                  !.recv_timeout = "off"])
          /\ UNCHANGED <<sent, undefined>>
      BY <1>5, <2>1 DEF GiveUp, s, c
    <3> QED
      BY <1>1, <1>2, <3>2, <3>3, ReturnsKeeps DEF s
  <2>2. CASE label \notin DOMAIN s
    <3>1. abortCall(a, d)
      BY <1>5, <2>2 DEF GiveUp, s, c
    <3> QED
      BY <1>2, <3>1, AbortKeeps
  <2> QED
    BY <2>1, <2>2
<1>6. CASE StaysPaused(a)
  <2>1. Good(s, [c EXCEPT !.running = FALSE])
    BY <1>1, RunningIsGood
  <2> QED
    BY <1>1, <1>2, <1>6, <2>1, ReturnsKeeps DEF StaysPaused, c, s
<1>7. CASE PauseEnds(a)
  <2>1. Good(s, [c EXCEPT !.paused_until = "off"])
    BY <1>1, <1>3, TimersAreGood
  <2> QED
    BY <1>1, <1>2, <1>7, <2>1, NextKeeps DEF PauseEnds, c, s
<1>8. CASE ExecutePause(a)
  <2>1. Good(s, [c EXCEPT !.paused_until = "armed", !.running = FALSE])
    BY <1>1, <1>3, TimersAreGood
  <2> QED
    BY <1>1, <1>2, <1>8, <2>1, ReturnsKeeps DEF ExecutePause, c, s
<1>9. CASE SendWaits(a)
  <2>1. Good(s, [c EXCEPT !.running = FALSE])
    BY <1>1, RunningIsGood
  <2> QED
    BY <1>1, <1>2, <1>9, <2>1, ReturnsKeeps DEF SendWaits, c, s
<1>10. CASE SendIsCongested(a)
  <2>1. Good(s, [c EXCEPT !.send_timeout = "armed"])
    BY <1>1, <1>3, TimersAreGood
  <2>2. Returns(a, c) \/ Returns(a, [c EXCEPT !.send_timeout = "armed"])
    BY <1>10 DEF SendIsCongested, c
  <2>3. UNCHANGED <<sent, undefined>>
    BY <1>10 DEF SendIsCongested
  <2> QED
    BY <1>1, <1>2, <2>1, <2>2, <2>3, ReturnsKeeps DEF s
<1>11. CASE SendTimesOut(a)
  BY <1>2, <1>11, AbortKeeps DEF SendTimesOut
<1>12. CASE SendFails(a)
  BY <1>1, <1>2, <1>12, FailsKeeps DEF SendFails
<1>13. CASE ExecuteSend(a)
  <2> DEFINE e == s[c.msg_index]
             d == AnswerTo(Sends(c, e.msg), c.msg_index)
             t == IF e.retrans THEN "armed" ELSE "off"
             n == IF e.retrans THEN 0 ELSE d.nb_retrans
  <2>1. c.msg_index \in DOMAIN s /\ e.msg \in Messages
    BY <1>1, MessagesOf DEF Good, s
  <2>2. Good(s, d)
    BY <1>1, <1>3, <2>1, SendsIsGood, AnswerIsGood
  <2>3. t \in Timer /\ n \in Nat
    BY <1>3, <2>2 DEF Good, CallType
  <2>4. /\ sent' = [sent EXCEPT ![a] = @ \cup {e.msg}]
        /\ next(a, [d EXCEPT !.send_timeout = "off",
                             !.last_send_index = c.msg_index,
                             !.last_send_msg = e.msg,
                             !.next_retrans = t,
                             !.nb_retrans = n])
        /\ UNCHANGED undefined
    BY <1>13 DEF ExecuteSend, c, s
  <2>5. sent' \in [Agent -> SUBSET Messages]
    BY <1>1, <2>1, <2>4
  <2> HIDE DEF d, t, n, e
  <2>6. Good(s, [d EXCEPT !.send_timeout = "off",
                          !.last_send_index = c.msg_index,
                          !.last_send_msg = e.msg,
                          !.next_retrans = t,
                          !.nb_retrans = n])
    BY <1>3, <2>1, <2>2, <2>3, SentIsGood
  <2> QED
    BY <1>1, <1>2, <2>4, <2>5, <2>6, NextKeeps DEF s
<1>14. CASE ExecuteRecv(a)
  <2>1. Good(s, [c EXCEPT !.recv_timeout = "armed"])
        /\ Good(s, [c EXCEPT !.running = FALSE])
    BY <1>1, <1>3, TimersAreGood, RunningIsGood
  <2>2. \/ Returns(a, [c EXCEPT !.recv_timeout = "armed"])
        \/ Returns(a, [c EXCEPT !.running = FALSE])
    BY <1>14 DEF ExecuteRecv, c
  <2>3. UNCHANGED <<sent, undefined>>
    BY <1>14 DEF ExecuteRecv
  <2> QED
    BY <1>1, <1>2, <2>1, <2>2, <2>3, ReturnsKeeps DEF s
<1>15. CASE RecvTimesOut(a)
  <2> DEFINE d == [c EXCEPT !.recv_timeout = "off"]
             label == s[c.msg_index].on_timeout
  <2>1. d.msg_index = c.msg_index
    BY <1>1 DEF Good, CallType
  <2>2. CASE label \in DOMAIN s
    <3>1. Good(s, d)
      BY <1>1, <1>3, TimersAreGood
    <3>2. Good(s, [d EXCEPT !.msg_index = label])
      BY <1>3, <2>2, <3>1, IndexIsGood
    <3>3. Returns(a, [d EXCEPT !.msg_index = label]) /\ UNCHANGED <<sent, undefined>>
      BY <1>15, <2>1, <2>2 DEF RecvTimesOut, s, c
    <3> QED
      BY <1>1, <1>2, <3>2, <3>3, ReturnsKeeps DEF s
  <2>3. CASE label \notin DOMAIN s
    <3>1. abortCall(a, d)
      BY <1>15, <2>1, <2>3 DEF RecvTimesOut, s, c
    <3> QED
      BY <1>2, <3>1, AbortKeeps
  <2> QED
    BY <2>2, <2>3
<1> QED
  BY <1>4, <1>5, <1>6, <1>7, <1>8, <1>9, <1>10, <1>11, <1>12, <1>13, <1>14, <1>15
  DEF Step, run

-----------------------------------------------------------------------------
(***************************************************************************)
(* process_incoming().                                                     *)
(***************************************************************************)
LEMMA HandlerIsGood ==
    ASSUME IInv, NEW a \in Agent
    PROVE  Good(Scenario[a], Handler(a))
<1>1. CASE call[a].live
  BY <1>1, LiveIsGood, RunningIsGood DEF Handler
<1>2. CASE ~call[a].live
  <2>1. config \in Configurations
    BY DEF IInv
  <2> QED
    BY <1>2, <2>1, ScenarioIsArray, NewCallIsGood DEF Handler
<1> QED
  BY <1>1, <1>2

(* A message comes to the call that listens, or creates one.               *)
LEMMA ArrivalFrame ==
    ASSUME IInv, ~undefined, NEW a \in Agent, NEW m, Arrives(a, m), config' = config,
           CountersOK'
    PROVE  Frame(a)
BY DEF Arrives, Frame, Creates

(* A step that counts no message leaves the counters right.                *)
LEMMA CountersUnchanged ==
    ASSUME IInv, config' = config, UNCHANGED nb_recv
    PROVE  CountersOK'
<1>1. Scenario' = Scenario
  BY DEF Scenario
<1> QED
  BY <1>1 DEF IInv, CountersOK

(* Where the search ends there is a recv, and it has skipped nothing       *)
(* mandatory but what the same message matches.                            *)
LEMMA FoundIsThere ==
    ASSUME config \in Configurations, NEW a \in Agent, NEW c, Good(Scenario[a], c),
           NEW m, Found(a, c, m) # {}
    PROVE  LET i == Min(Found(a, c, m))
           IN  /\ i \in DOMAIN Scenario[a] /\ i >= c.msg_index
               /\ matches_scenario(Scenario[a], i, m)
               /\ \A j \in c.msg_index..i : Scenario[a][j].type = "recv"
               /\ \A j \in c.msg_index..i : \/ Scenario[a][j].optional
                                            \/ matches_scenario(Scenario[a], j, m)
<1> DEFINE F == Found(a, c, m)
           s == Scenario[a]
<1>1. DOMAIN s = 0..Size(a)-1 /\ Size(a) \in Nat /\ c.msg_index \in Nat
  BY ScenarioIsArray DEF Good
<1>2. F \in SUBSET Nat /\ F # {} /\ F \subseteq DOMAIN s
  BY <1>1 DEF Found
<1> HIDE DEF F
<1>3. Min(F) \in F
  BY <1>2, MinIsLeast
<1>4. PICK i \in F : i = Min(F)
  BY <1>3
<1>5. /\ i \in c.msg_index..Size(a)-1 /\ matches_scenario(s, i, m)
      /\ \A j \in c.msg_index..i-1 : s[j].optional \/ matches_scenario(s, j, m)
  BY <1>4 DEF F, Found
<1>6. ASSUME NEW j \in c.msg_index..i PROVE s[j].type = "recv"
  <2>1. j \in DOMAIN s
    BY <1>1, <1>5
  <2>2. j = i \/ j \in c.msg_index..i-1
    BY <1>1, <1>5
  <2>3. s[j].optional => s[j].type = "recv"
    BY <2>1, CallAssumption DEF Loaded, Scenario, checkOptionalRecv
  <2> QED
    BY <1>5, <2>2, <2>3 DEF matches_scenario
<1>7. i >= c.msg_index /\ i \in DOMAIN s
  BY <1>1, <1>5
<1>8. ASSUME NEW j \in c.msg_index..i PROVE s[j].optional \/ matches_scenario(s, j, m)
  <2>1. j = i \/ j \in c.msg_index..i-1
    BY <1>1, <1>5
  <2> QED
    BY <1>5, <2>1
<1> QED
  BY <1>4, <1>5, <1>6, <1>7, <1>8 DEF F

(* Every step of process_incoming() keeps the invariant.                   *)
LEMMA IncomingKeeps ==
    ASSUME IInv, ~undefined, NEW a \in Agent, NEW m \in Messages, process_incoming(a, m)
    PROVE  IInv'
<1> DEFINE h == Handler(a)
           s == Scenario[a]
<1>1. /\ Good(s, h) /\ config \in Configurations /\ config' = config
      /\ sent \in [Agent -> SUBSET Messages] /\ undefined \in BOOLEAN
      /\ Arrives(a, m)
  BY HandlerIsGood DEF process_incoming, IInv, ReceiveRetransmission, ReceiveDuplicate,
     ReceiveExpected, ReceiveUnexpected
<1>2. DOMAIN s \subseteq Nat /\ "off" \in Timer /\ "armed" \in Timer /\ Scenario' = Scenario
  BY <1>1, ScenarioIsArray DEF Timer, Scenario
<1> HIDE DEF h, s
<1>3. CASE ReceiveRetransmission(a, m)
  <2> DEFINE answer == s[h.recv_retrans_send_index].msg
  <2>1. UNCHANGED nb_recv /\ undefined' \in BOOLEAN
    BY <1>1, <1>3 DEF ReceiveRetransmission
  <2>2. Frame(a)
    BY <1>1, <2>1, CountersUnchanged, ArrivalFrame
  <2>3. answer \in Messages
    <3>1. h.recv_retrans_send_index \in DOMAIN s
      BY <1>1, <1>3 DEF ReceiveRetransmission, IsRetransmission, Good, h
    <3> QED
      BY <1>1, <3>1, MessagesOf DEF s
  <2>4. CASE sent' = [sent EXCEPT ![a] = @ \cup {answer}] /\ Returns(a, Sends(h, answer))
    <3>1. sent' \in [Agent -> SUBSET Messages]
      BY <1>1, <2>3, <2>4
    <3>2. Good(s, Sends(h, answer))
      BY <1>1, SendsIsGood
    <3> QED
      BY <2>1, <2>2, <2>4, <3>1, <3>2, CallLives DEF Returns, s
  <2>5. CASE Returns(a, h) /\ UNCHANGED sent
    BY <1>1, <2>1, <2>2, <2>5, ReturnsKeeps DEF s
  <2>6. CASE Fails(a, FALSE) /\ UNCHANGED sent
    BY <1>1, <2>1, <2>2, <2>6, FailsKeeps
  <2> QED
    BY <1>3, <2>4, <2>5, <2>6 DEF ReceiveRetransmission, h, s
<1>4. CASE ReceiveDuplicate(a, m)
  <2>1. UNCHANGED <<sent, nb_recv, undefined>> /\ Returns(a, h)
    BY <1>4 DEF ReceiveDuplicate, h
  <2>2. Frame(a)
    BY <1>1, <2>1, CountersUnchanged, ArrivalFrame
  <2> QED
    BY <1>1, <2>1, <2>2, ReturnsKeeps DEF s
<1>5. CASE ReceiveExpected(a, m)
  <2> DEFINE c == Established(h, m)
             i == Min(Found(a, c, m))
             e == s[i]
             t == next_retrans(c, m, i)
             c2 == [c EXCEPT !.recvhash_msgindex_pairs = @ \cup {<<m, i>>},
                             !.next_retrans = t,
                             !.ack_is_pending = @ \/ m.code \in 200..298]
             c3 == [c2 EXCEPT !.last_recv_index = i,
                              !.last_recv_hash = m,
                              !.last_recv_msg = m]
  <2>1. Good(s, c)
    BY <1>1, SendsIsGood
  <2>2. i \in DOMAIN s
    BY <1>1, <1>5, <2>1, FoundIsThere DEF ReceiveExpected, h, s
  <2>3. t \in Timer
    BY <1>2, <2>1 DEF next_retrans, Good, CallType
  <2>4. /\ nb_recv' = [nb_recv EXCEPT ![a][i] = Min({@ + 1, MaxCalls})]
        /\ UNCHANGED <<sent, undefined>>
        /\ \/ Returns(a, c2)
           \/ next(a, [c3 EXCEPT !.paused_until = "off", !.msg_index = i])
           \/ Returns(a, [c3 EXCEPT !.running = FALSE])
    BY <1>5 DEF ReceiveExpected, h, s
  <2> HIDE DEF i, t, c
  <2>5. CountersOK'
    <3>1. nb_recv[a] \in [DOMAIN s -> Nat] /\ nb_recv = [b \in Agent |-> nb_recv[b]]
          /\ \A b \in Agent : nb_recv[b] \in [DOMAIN Scenario[b] -> Nat]
      BY DEF IInv, CountersOK, s
    <3>2. nb_recv[a][i] + 1 \in Nat /\ MaxCalls \in Nat
      BY <2>2, <3>1, CallAssumption
    <3> DEFINE n == Min({nb_recv[a][i] + 1, MaxCalls})
    <3>3. n \in Nat
      <4> DEFINE S == {nb_recv[a][i] + 1, MaxCalls}
      <4>1. S \in SUBSET Nat /\ S # {}
        BY <3>2
      <4> HIDE DEF S
      <4>2. Min(S) \in Nat
        BY <4>1, MinIsLeast
      <4> QED
        BY <4>2 DEF S
    <3>4. nb_recv' = [nb_recv EXCEPT ![a] = [@ EXCEPT ![i] = n]]
      BY <2>4, <3>1
    <3> HIDE DEF n
    <3>5. [nb_recv[a] EXCEPT ![i] = n] \in [DOMAIN s -> Nat]
      BY <2>2, <3>1, <3>3
    <3>6. nb_recv' = [b \in Agent |-> nb_recv'[b]]
          /\ \A b \in Agent : nb_recv'[b] \in [DOMAIN Scenario[b] -> Nat]
      BY <3>1, <3>4, <3>5 DEF s
    <3> QED
      BY <1>2, <3>6 DEF CountersOK
  <2>6. Frame(a)
    BY <1>1, <2>5, ArrivalFrame
  <2>7. Good(s, c2)
    BY ZenonT(60), <1>2, <2>1, <2>2, <2>3, AcceptedIsGood
  <2> HIDE DEF c2
  <2>8. Good(s, c3)
    BY <1>2, <2>2, <2>7, LastReceivedIsGood
  <2> HIDE DEF c3
  <2>9. Good(s, [c3 EXCEPT !.paused_until = "off", !.msg_index = i])
        /\ Good(s, [c3 EXCEPT !.running = FALSE])
    BY <1>2, <2>2, <2>8, IndexIsGood, RunningIsGood
  <2>10. CASE Returns(a, c2)
    BY <1>1, <2>4, <2>6, <2>7, <2>10, ReturnsKeeps DEF s
  <2>11. CASE next(a, [c3 EXCEPT !.paused_until = "off", !.msg_index = i])
    BY <1>1, <2>4, <2>6, <2>9, <2>11, NextKeeps DEF s
  <2>12. CASE Returns(a, [c3 EXCEPT !.running = FALSE])
    BY <1>1, <2>4, <2>6, <2>9, <2>12, ReturnsKeeps DEF s
  <2> QED
    BY <2>4, <2>10, <2>11, <2>12
<1>6. CASE ReceiveUnexpected(a, m)
  <2> DEFINE c == Established(h, m)
  <2>1. UNCHANGED nb_recv
    BY <1>6 DEF ReceiveUnexpected
  <2>2. Frame(a)
    BY <1>1, <2>1, CountersUnchanged, ArrivalFrame
  <2>3. CASE Returns(a, c) /\ UNCHANGED <<sent, undefined>>
    <3>1. Good(s, c)
      BY <1>1, SendsIsGood
    <3> QED
      BY <1>1, <2>2, <2>3, <3>1, ReturnsKeeps DEF s
  <2>4. CASE checkAutomaticResponseMode(m) /\ automaticResponseMode(a, m)
    <3>1. Msg(200, m.method) \in Messages
      BY <2>4, MessagesOf DEF checkAutomaticResponseMode, BYE, CANCEL, Msg
    <3>2. sent' \in [Agent -> SUBSET Messages] /\ undefined' \in BOOLEAN
          /\ Fails(a, FALSE)
      BY ZenonT(60), <1>1, <2>4, <3>1 DEF automaticResponseMode, FailsSending
    <3> QED
      BY <2>2, <3>2, FailsKeeps
  <2>5. CASE process_unexpected(a, c, m)
    BY <2>2, <2>5, AbortKeeps DEF process_unexpected
  <2> QED
    BY <1>6, <2>3, <2>4, <2>5 DEF ReceiveUnexpected, h
<1> QED
  BY <1>3, <1>4, <1>5, <1>6 DEF process_incoming

-----------------------------------------------------------------------------
(***************************************************************************)
(* The other steps, and the type invariant.                                *)
(***************************************************************************)
LEMMA OriginateKeeps ==
    ASSUME IInv, ~undefined, NEW a \in Agent, Originate(a)
    PROVE  IInv'
<1>1. config \in Configurations /\ config' = config /\ UNCHANGED <<sent, undefined>>
  BY DEF Originate, IInv
<1>2. CountersOK'
  BY <1>1, CountersUnchanged DEF Originate
<1>3. Good(Scenario[a], NewCall)
  BY <1>1, ScenarioIsArray, NewCallIsGood
<1>4. ~call[a].live
  <2>1. created[a] = 0 /\ succeeded[a] \in Nat /\ failed[a] \in Nat /\ Counted(a)
    BY DEF Originate, IInv, CountsOK
  <2> QED
    BY <2>1 DEF Counted
<1>5. Creates(a)
  <2>1. created[a] = 0 /\ MaxCalls > 0 /\ created' = [created EXCEPT ![a] = 1]
    BY DEF Originate
  <2> QED
    BY <1>4, <2>1 DEF Creates
<1>6. Frame(a)
  BY <1>1, <1>2, <1>5 DEF Frame
<1> QED
  BY <1>1, <1>3, <1>6, CallLives DEF Originate, IInv

(* A live call changes and stays what it was to the main loop.             *)
LEMMA CallAlone ==
    ASSUME IInv, ~undefined, NEW a \in Agent, call[a].live, NEW c, Good(Scenario[a], c),
           call' = [call EXCEPT ![a] = c],
           UNCHANGED <<config, dead, sent, nb_recv, created, succeeded, failed, control,
                       undefined>>
    PROVE  IInv'
<1>1. Scenario' = Scenario
  BY DEF Scenario
<1>2. CountersOK'
  BY CountersUnchanged
<1>3. c \in CallType /\ c.live
  BY DEF Good
<1>4. /\ call' \in [Agent -> CallType] /\ call'[a] = c
      /\ \A b \in Agent \ {a} : call'[b] = call[b]
  BY <1>3 DEF IInv, CallsOK
<1>5. CallsOK'
  <2>1. \A b \in Agent : call'[b] = NoCall \/ Good(Scenario[b], call'[b])
    BY <1>4 DEF IInv, CallsOK
  <2>2. control' \in Agent => call'[control'].live
    BY <1>3, <1>4 DEF IInv, CallsOK
  <2> QED
    BY <1>1, <1>4, <2>1, <2>2 DEF IInv, CallsOK
<1>6. CountsOK'
  <2>1. ASSUME NEW b \in Agent PROVE Counted(b)'
    <3>1. Counted(b)
      BY DEF IInv, CountsOK
    <3>2. call'[b].live <=> call[b].live
      BY <1>3, <1>4
    <3> QED
      BY <3>1, <3>2 DEF Counted
  <2> QED
    BY <2>1 DEF IInv, CountsOK
<1> QED
  BY <1>2, <1>5, <1>6 DEF IInv

(* A timer that becomes due keeps it,                                      *)
LEMMA ElapseKeeps ==
    ASSUME IInv, ~undefined, NEW a \in Agent, NEW timer \in Timers, Elapse(a, timer)
    PROVE  IInv'
<1> DEFINE c == [call[a] EXCEPT ![timer] = "due"]
<1>1. Good(Scenario[a], c)
  <2>1. Good(Scenario[a], call[a]) /\ "due" \in Timer
    BY LiveIsGood DEF Elapse, Timer
  <2>2. CASE timer = "next_retrans"
    BY <2>1, <2>2, TimersAreGood
  <2>3. CASE timer = "paused_until"
    BY <2>1, <2>3, TimersAreGood
  <2>4. CASE timer = "recv_timeout"
    BY <2>1, <2>4, TimersAreGood
  <2>5. CASE timer = "send_timeout"
    BY <2>1, <2>5, TimersAreGood
  <2> QED
    BY <2>2, <2>3, <2>4, <2>5 DEF Timers
<1>2. call' = [call EXCEPT ![a] = c]
  BY DEF Elapse
<1> QED
  BY <1>1, <1>2, CallAlone DEF Elapse

(* so does a call that is put on the run queue for it,                     *)
LEMMA WakeUpKeeps ==
    ASSUME IInv, ~undefined, NEW a \in Agent, WakeUp(a)
    PROVE  IInv'
<1>1. Good(Scenario[a], [call[a] EXCEPT !.running = TRUE])
  BY LiveIsGood, RunningIsGood DEF WakeUp
<1>2. call' = [call EXCEPT ![a] = [call[a] EXCEPT !.running = TRUE]]
  BY DEF WakeUp
<1> QED
  BY <1>1, <1>2, CallAlone DEF WakeUp

(* and a step in which nothing happens.                                    *)
LEMMA StutterKeeps ==
    ASSUME IInv, UNCHANGED <<config, call, sent, nb_recv, created, succeeded, failed,
                             control, undefined>>,
           dead' \in [Agent -> BOOLEAN]
    PROVE  IInv'
<1>1. Scenario' = Scenario
  BY DEF Scenario
<1>2. CountersOK'
  BY CountersUnchanged
<1>3. CallsOK'
  BY <1>1 DEF IInv, CallsOK
<1>4. CountsOK'
  BY DEF IInv, CountsOK, Counted
<1> QED
  BY <1>2, <1>3, <1>4 DEF IInv

(* Every step keeps the invariant.                                         *)
LEMMA NextKeepsIInv == IInv /\ [Next]_vars => IInv'
<1> SUFFICES ASSUME IInv, [Next]_vars PROVE IInv'
  OBVIOUS
<1>1. CASE UNCHANGED vars
  BY <1>1, StutterKeeps DEF vars, IInv
<1>2. CASE Next
  <2> PICK a \in Agent :
        \/ Step(a)
        \/ \E m \in Messages : process_incoming(a, m)
        \/ Originate(a)
        \/ \E timer \in Timers : Elapse(a, timer)
        \/ WakeUp(a)
        \/ DeadcallExpires(a)
    BY <1>2 DEF Next
  <2> ~undefined
    BY <1>2 DEF Next
  <2>1. CASE DeadcallExpires(a)
    <3>1. dead' \in [Agent -> BOOLEAN]
      BY <2>1 DEF DeadcallExpires, IInv
    <3> QED
      BY <2>1, <3>1, StutterKeeps DEF DeadcallExpires
  <2> QED
    BY <2>1, RunKeeps, IncomingKeeps, OriginateKeeps, ElapseKeeps, WakeUpKeeps
<1> QED
  BY <1>1, <1>2

(* There is no call at the start.                                          *)
LEMMA InitIInv == Init => IInv
<1> SUFFICES ASSUME Init PROVE IInv
  OBVIOUS
<1>1. /\ config \in Configurations
      /\ call = [a \in Agent |-> NoCall] /\ dead = [a \in Agent |-> FALSE]
      /\ sent = [a \in Agent |-> {}] /\ created = [a \in Agent |-> 0]
      /\ succeeded = [a \in Agent |-> 0] /\ failed = [a \in Agent |-> 0]
      /\ control = NoAgent /\ undefined = FALSE
      /\ nb_recv = [a \in Agent |-> [i \in DOMAIN Scenario[a] |-> 0]]
  BY DEF Init
<1>2. CallsOK
  BY <1>1, NewCallIsGood, CallAssumption DEF CallsOK
<1>3. CountsOK
  <2>1. 0 \in 0..MaxCalls
    BY CallAssumption
  <2>2. \A a \in Agent : Counted(a)
    BY <1>1, NewCallIsGood DEF Counted
  <2> QED
    BY <1>1, <2>1, <2>2 DEF CountsOK
<1>4. CountersOK
  BY <1>1 DEF CountersOK
<1> QED
  BY <1>1, <1>2, <1>3, <1>4 DEF IInv

(* The inductive invariant says all that the type invariant does.          *)
LEMMA IInvTypes == IInv => TypeOK
<1> SUFFICES ASSUME IInv PROVE TypeOK
  OBVIOUS
<1>1. ASSUME NEW a \in Agent
      PROVE  /\ call[a] \in CallType /\ call[a].msg_index < Size(a)
             /\ sent[a] \subseteq Messages
             /\ \A i \in DOMAIN Scenario[a] : nb_recv[a][i] \in Nat
             /\ created[a] \in 0..MaxCalls
  <2>1. call[a].msg_index \in DOMAIN Scenario[a]
    <3>1. NoCall.msg_index = 0
      BY DEF NoCall, NewCall
    <3> QED
      BY <3>1, ScenarioIsArray DEF IInv, CallsOK, Good
  <2>2. call[a].msg_index < Size(a)
    BY <2>1, ScenarioIsArray DEF IInv
  <2> QED
    BY <2>2 DEF IInv, CallsOK, CountsOK, CountersOK
<1> QED
  BY <1>1 DEF TypeOK, IInv, CallsOK, CountsOK, Counted

(* The inductive invariant holds in every state.                           *)
LEMMA Invariance == Spec => []IInv
BY InitIInv, NextKeepsIInv, PTL DEF Spec

(* In every state of every run the call objects keep their types, the call *)
(* of an agent is at a message of its scenario, the call that is inside    *)
(* run() lives, and each call created is counted once, as living, as       *)
(* successful or as failed (call::init, call::~call, terminate, abortCall).*)
THEOREM Types == Spec => []TypeOK
BY Invariance, IInvTypes, PTL

-----------------------------------------------------------------------------
(***************************************************************************)
(* No call waits without a timer.                                          *)
(***************************************************************************)
(* A call that is left to the main loop sleeps only with a timer, and      *)
(* waits for a message only with a timeout, except before its first run(); *)
(* a pause is not at a recv.                                               *)
Rests(s, c) ==
    /\ ~c.running => wake(c) # {"off"}
    /\ s[c.msg_index].type = "recv" => c.recv_timeout # "off" \/ c.msg_index = 0

Paused(s, c) == c.paused_until # "off" => s[c.msg_index].type # "recv"

WaitInv == RecvTimeout => \A a \in Agent :
              call[a].live => /\ Paused(Scenario[a], call[a])
                              /\ IF control = a THEN call[a].running
                                 ELSE Rests(Scenario[a], call[a])

(* It is kept when a handler leaves the call at rest,                      *)
LEMMA WaitsReturns ==
    ASSUME IInv, WaitInv, NEW a \in Agent, control \in {a, NoAgent}, config' = config,
           NEW c, call' = [call EXCEPT ![a] = c], control' \in {a, NoAgent},
           RecvTimeout /\ c.live => /\ Paused(Scenario[a], c)
                                    /\ IF control' = a THEN c.running
                                       ELSE Rests(Scenario[a], c)
    PROVE  WaitInv'
<1>1. Scenario' = Scenario /\ RecvTimeout' = RecvTimeout
  BY DEF Scenario, RecvTimeout
<1>2. call'[a] = c /\ \A b \in Agent \ {a} : call'[b] = call[b]
  BY DEF IInv, CallsOK
<1>3. ASSUME RecvTimeout, NEW b \in Agent, call'[b].live
      PROVE  /\ Paused(Scenario[b], call'[b])
             /\ IF control' = b THEN call'[b].running ELSE Rests(Scenario[b], call'[b])
  <2>1. CASE b = a
    BY <1>2, <1>3, <2>1
  <2>2. CASE b # a
    <3>1. control # b /\ control' # b
      BY <2>2, CallAssumption
    <3>2. call'[b] = call[b] /\ Paused(Scenario[b], call[b]) /\ Rests(Scenario[b], call[b])
      BY <1>2, <1>3, <2>2, <3>1 DEF WaitInv
    <3> QED
      BY <3>1, <3>2
  <2> QED
    BY <2>1, <2>2
<1> QED
  BY <1>1, <1>3 DEF WaitInv

(* when it deletes the call,                                               *)
LEMMA WaitsDelete ==
    ASSUME IInv, WaitInv, NEW a \in Agent, control \in {a, NoAgent}, config' = config,
           NEW b, Delete(a, b)
    PROVE  WaitInv'
BY WaitsReturns, NewCallIsGood DEF Delete

(* and when it goes on in run().                                           *)
LEMMA WaitsNext ==
    ASSUME IInv, WaitInv, NEW a \in Agent, control \in {a, NoAgent}, config' = config,
           NEW c, Good(Scenario[a], c), c.running, c.paused_until = "off", next(a, c)
    PROVE  WaitInv'
<1> DEFINE i == NextIndex(Scenario[a][c.msg_index], c.msg_index)
           d == [c EXCEPT !.msg_index = i, !.recv_timeout = "off"]
<1>1. CASE i >= Size(a)
  BY <1>1, WaitsDelete DEF next, terminate
<1>2. CASE ~(i >= Size(a))
  <2>1. RunsOn(a, d)
    BY <1>2 DEF next
  <2>2. d.running /\ d.paused_until = "off"
    BY DEF Good, CallType
  <2> HIDE DEF d
  <2>3. a # NoAgent
    BY CallAssumption
  <2> QED
    BY <2>1, <2>2, <2>3, WaitsReturns DEF RunsOn, Paused
<1> QED
  BY <1>1, <1>2

(* Every step of run() keeps it.                                           *)
LEMMA WaitsRun ==
    ASSUME IInv, WaitInv, NEW a \in Agent, Prompt(Scenario[a]), Step(a)
    PROVE  WaitInv'
<1> DEFINE c == call[a]
           s == Scenario[a]
<1>1. /\ Good(s, c) /\ c.live /\ Runs(a) /\ config \in Configurations /\ config' = config
      /\ control \in {a, NoAgent} /\ c.msg_index \in DOMAIN s
  BY LiveIsGood DEF Step, run, Retransmit, GiveUp, StaysPaused, PauseEnds,
     ExecutePause, SendWaits, SendIsCongested, SendTimesOut, SendFails,
     ExecuteSend, ExecuteRecv, RecvTimesOut, Executes, Steps, Runs, IInv, Good
<1>2. CASE ~RecvTimeout
  BY <1>1, <1>2 DEF WaitInv, RecvTimeout
<1>3. SUFFICES ASSUME RecvTimeout PROVE WaitInv'
  BY <1>2
<1>4. c.running /\ Paused(s, c) /\ c \in CallType /\ a # NoAgent
  BY <1>1, <1>3, CallAssumption DEF WaitInv, Runs, Good
<1> HIDE DEF c, s
<1>5. ASSUME NEW d, Returns(a, d), Paused(s, d), Rests(s, d) PROVE WaitInv'
  BY <1>1, <1>4, <1>5, WaitsReturns DEF Returns, s
<1>6. ASSUME NEW d, NEW i \in DOMAIN s, s[i].type # "recv", d.msg_index = i, d.running
      PROVE  Paused(s, d) /\ Rests(s, d)
  BY <1>6 DEF Paused, Rests
<1>7. ASSUME NEW d, abortCall(a, d) PROVE WaitInv'
  BY <1>1, <1>7, WaitsDelete DEF abortCall, FailsSending, Fails
<1>8. CASE Retransmit(a)
  <2> DEFINE d == [c EXCEPT !.next_retrans = "armed", !.nb_retrans = @ + 1]
  <2>1. CASE RunsOn(a, d)
    <3>1. d.running /\ Paused(s, d)
      BY <1>4 DEF CallType, Paused
    <3> HIDE DEF d
    <3> QED
      BY <1>1, <2>1, <3>1, <1>4, WaitsReturns DEF RunsOn, s
  <2>2. CASE Fails(a, FALSE)
    BY <1>1, <2>2, WaitsDelete DEF Fails
  <2> QED
    BY <1>8, <2>1, <2>2 DEF Retransmit, c
<1>9. CASE GiveUp(a)
  <2> DEFINE d == [c EXCEPT !.nb_retrans = @ + 1]
             label == s[c.last_send_index].on_timeout
             e == [d EXCEPT !.msg_index = label, !.next_retrans = "off",
                            !.recv_timeout = "off"]
  <2>1. CASE label \in DOMAIN s
    <3>1. Returns(a, e)
      BY <1>9, <2>1 DEF GiveUp, s, c
    <3>2. e.msg_index = label /\ e.running
      BY <1>4 DEF CallType
    <3>3. s[label].type # "recv"
      BY <1>1, <2>1 DEF Prompt, s, Good
    <3> HIDE DEF e, label
    <3> QED
      BY <1>5, <1>6, <2>1, <3>1, <3>2, <3>3
  <2>2. CASE label \notin DOMAIN s
    <3>1. abortCall(a, d)
      BY <1>9, <2>2 DEF GiveUp, s, c
    <3> QED
      BY <1>7, <3>1
  <2> QED
    BY <2>1, <2>2
<1>10. CASE StaysPaused(a)
  <2> DEFINE d == [c EXCEPT !.running = FALSE]
  <2>1. Returns(a, d) /\ c.paused_until = "armed"
    BY <1>10 DEF StaysPaused, c
  <2>2. Paused(s, d) /\ Rests(s, d)
    BY <1>4, <2>1 DEF CallType, Paused, Rests, wake
  <2> HIDE DEF d
  <2> QED
    BY <1>5, <2>1, <2>2
<1>11. CASE PauseEnds(a)
  <2> DEFINE d == [c EXCEPT !.paused_until = "off"]
  <2>1. next(a, d)
    BY <1>11 DEF PauseEnds, c
  <2>2. Good(s, d) /\ d.running /\ d.paused_until = "off"
    BY <1>1, <1>4, TimersAreGood DEF CallType, Timer
  <2> HIDE DEF d
  <2> QED
    BY <1>1, <2>1, <2>2, WaitsNext DEF s
<1>12. CASE ExecutePause(a)
  <2> DEFINE d == [c EXCEPT !.paused_until = "armed", !.running = FALSE]
  <2>1. Returns(a, d) /\ s[c.msg_index].type = "pause"
    BY <1>12 DEF ExecutePause, Executes, c, s
  <2>2. Paused(s, d) /\ Rests(s, d)
    BY <1>4, <2>1 DEF CallType, Paused, Rests, wake
  <2> HIDE DEF d
  <2> QED
    BY <1>5, <2>1, <2>2
<1>13. CASE SendWaits(a)
  <2> DEFINE d == [c EXCEPT !.running = FALSE]
  <2>1. Returns(a, d) /\ s[c.msg_index].type = "send" /\ c.next_retrans = "armed"
    BY <1>13 DEF SendWaits, Executes, c, s
  <2>2. Paused(s, d) /\ Rests(s, d)
    BY <1>4, <2>1 DEF CallType, Paused, Rests, wake
  <2> HIDE DEF d
  <2> QED
    BY <1>5, <2>1, <2>2
<1>14. CASE SendIsCongested(a)
  <2> DEFINE d == [c EXCEPT !.send_timeout = "armed"]
  <2>1. (Returns(a, c) \/ Returns(a, d)) /\ s[c.msg_index].type = "send"
    BY <1>14 DEF SendIsCongested, Executes, c, s
  <2>2. d.msg_index = c.msg_index /\ d.running
    BY <1>4 DEF CallType
  <2> HIDE DEF d
  <2> QED
    BY <1>1, <1>4, <1>5, <1>6, <2>1, <2>2 DEF c
<1>15. CASE SendTimesOut(a)
  BY <1>7, <1>15 DEF SendTimesOut
<1>16. CASE SendFails(a)
  BY <1>1, <1>16, WaitsDelete DEF SendFails, Fails
<1>17. CASE ExecuteSend(a)
  <2> DEFINE e == s[c.msg_index]
             d == AnswerTo(Sends(c, e.msg), c.msg_index)
             t == IF e.retrans THEN "armed" ELSE "off"
             n == IF e.retrans THEN 0 ELSE d.nb_retrans
             f == [d EXCEPT !.send_timeout = "off",
                            !.last_send_index = c.msg_index,
                            !.last_send_msg = e.msg,
                            !.next_retrans = t,
                            !.nb_retrans = n]
  <2>1. next(a, f) /\ c.paused_until = "off"
    BY <1>17 DEF ExecuteSend, Executes, c, s
  <2>2. e.msg \in Messages /\ DOMAIN s \subseteq Nat
    BY <1>1, MessagesOf, ScenarioIsArray DEF s
  <2>3. Good(s, d)
    BY <1>1, <2>2, SendsIsGood, AnswerIsGood
  <2>4. d.running /\ d.paused_until = "off"
    BY <1>4, <2>1 DEF AnswerTo, Sends, CallType
  <2>5. t \in Timer /\ n \in Nat
    BY <2>3 DEF Good, CallType, Timer
  <2> HIDE DEF d, t, n, e
  <2>6. Good(s, f)
    BY <1>1, <2>2, <2>3, <2>5, SentIsGood
  <2>7. f.running /\ f.paused_until = "off"
    BY <2>3, <2>4 DEF Good, CallType
  <2> HIDE DEF f
  <2> QED
    BY <1>1, <2>1, <2>6, <2>7, WaitsNext DEF s
<1>18. CASE ExecuteRecv(a)
  <2> DEFINE d == [c EXCEPT !.recv_timeout = "armed"]
             e == [c EXCEPT !.running = FALSE]
  <2>1. c.paused_until = "off"
    BY <1>18 DEF ExecuteRecv, Executes, c
  <2>2. CASE c.recv_timeout = "off"
    <3>1. Returns(a, d)
      BY <1>3, <1>18, <2>2 DEF ExecuteRecv, Timed, c
    <3>2. Paused(s, d) /\ Rests(s, d)
      BY <1>4, <2>1 DEF CallType, Paused, Rests
    <3> HIDE DEF d
    <3> QED
      BY <1>5, <3>1, <3>2
  <2>3. CASE c.recv_timeout # "off"
    <3>1. Returns(a, e)
      BY <1>18, <2>3 DEF ExecuteRecv, c
    <3>2. Paused(s, e) /\ Rests(s, e)
      BY <1>4, <2>1, <2>3 DEF CallType, Paused, Rests, wake
    <3> HIDE DEF e
    <3> QED
      BY <1>5, <3>1, <3>2
  <2> QED
    BY <2>2, <2>3
<1>19. CASE RecvTimesOut(a)
  <2> DEFINE d == [c EXCEPT !.recv_timeout = "off"]
             label == s[c.msg_index].on_timeout
             e == [d EXCEPT !.msg_index = label]
  <2>1. d.msg_index = c.msg_index
    BY <1>4 DEF CallType
  <2>2. CASE label \in DOMAIN s
    <3>1. Returns(a, e)
      BY <1>19, <2>1, <2>2 DEF RecvTimesOut, s, c
    <3>2. e.msg_index = label /\ e.running
      BY <1>4 DEF CallType
    <3>3. s[label].type # "recv"
      BY <1>1, <2>2 DEF Prompt, s
    <3> HIDE DEF e, label
    <3> QED
      BY <1>5, <1>6, <2>2, <3>1, <3>2, <3>3
  <2>3. CASE label \notin DOMAIN s
    <3>1. abortCall(a, d)
      BY <1>19, <2>1, <2>3 DEF RecvTimesOut, s, c
    <3> QED
      BY <1>7, <3>1
  <2> QED
    BY <2>2, <2>3
<1> QED
  BY <1>8, <1>9, <1>10, <1>11, <1>12, <1>13, <1>14, <1>15, <1>16, <1>17, <1>18, <1>19
  DEF Step, run

(* Every step of process_incoming() keeps it.                              *)
LEMMA WaitsIncoming ==
    ASSUME IInv, WaitInv, NEW a \in Agent, Prompt(Scenario[a]),
           NEW m \in Messages, process_incoming(a, m)
    PROVE  WaitInv'
<1> DEFINE h == Handler(a)
           c == Established(h, m)
           s == Scenario[a]
<1>1. /\ Good(s, h) /\ config \in Configurations /\ config' = config
      /\ control = NoAgent /\ DOMAIN s \subseteq Nat /\ 0 \in DOMAIN s
  BY HandlerIsGood, ScenarioIsArray DEF process_incoming, IInv, ReceiveRetransmission,
     ReceiveDuplicate, ReceiveExpected, ReceiveUnexpected, Arrives
<1>2. CASE ~RecvTimeout
  BY <1>1, <1>2 DEF WaitInv, RecvTimeout
<1>3. SUFFICES ASSUME RecvTimeout PROVE WaitInv'
  BY <1>2
<1>4. h.running /\ Paused(s, h) /\ Rests(s, h)
  <2>1. a # control
    BY <1>1, CallAssumption
  <2>2. CASE call[a].live
    <3>1. Paused(s, call[a]) /\ Rests(s, call[a]) /\ call[a] \in CallType
      BY <1>3, <2>1, <2>2 DEF WaitInv, IInv, CallsOK
    <3> QED
      BY <2>2, <3>1 DEF Handler, CallType, Paused, Rests
  <2>3. CASE ~call[a].live
    BY <2>3 DEF Handler, NewCall, Paused, Rests
  <2> QED
    BY <2>2, <2>3
<1>5. /\ Good(s, c) /\ c.running /\ Paused(s, c) /\ Rests(s, c)
      /\ c.msg_index = h.msg_index /\ c.recv_timeout = h.recv_timeout
  BY SMTT(40), <1>1, <1>4, SendsIsGood DEF Established, Good, CallType, Paused, Rests
<1> HIDE DEF c, h, s
<1>6. ASSUME NEW d, Returns(a, d), Paused(s, d), Rests(s, d) PROVE WaitInv'
  <2>1. control' # a /\ control \in {a, NoAgent} /\ control' \in {a, NoAgent}
    BY <1>1, <1>6, CallAssumption DEF Returns
  <2> QED
    BY <1>1, <1>6, <2>1, WaitsReturns DEF Returns, s
<1>7. ASSUME NEW b, Fails(a, b) PROVE WaitInv'
  BY <1>1, <1>7, WaitsDelete DEF Fails
<1>8. CASE ReceiveRetransmission(a, m)
  <2> DEFINE answer == s[h.recv_retrans_send_index].msg
             d == Sends(h, answer)
  <2>1. Returns(a, d) \/ Returns(a, h) \/ Fails(a, FALSE)
    BY <1>8 DEF ReceiveRetransmission, h, s
  <2>2. Paused(s, d) /\ Rests(s, d)
    BY <1>1, <1>4 DEF Sends, Good, CallType, Paused, Rests
  <2> HIDE DEF d
  <2> QED
    BY <1>4, <1>6, <1>7, <2>1, <2>2
<1>9. CASE ReceiveDuplicate(a, m)
  BY <1>4, <1>6, <1>9 DEF ReceiveDuplicate, h
<1>10. CASE ReceiveExpected(a, m)
  <2> DEFINE i == Min(Found(a, c, m))
             e == s[i]
             t == next_retrans(c, m, i)
             c2 == [c EXCEPT !.recvhash_msgindex_pairs = @ \cup {<<m, i>>},
                             !.next_retrans = t,
                             !.ack_is_pending = @ \/ m.code \in 200..298]
             c3 == [c2 EXCEPT !.last_recv_index = i,
                              !.last_recv_hash = m,
                              !.last_recv_msg = m]
             n == [c3 EXCEPT !.paused_until = "off", !.msg_index = i]
             o == [c3 EXCEPT !.running = FALSE]
  <2>1. /\ i \in DOMAIN s /\ i >= c.msg_index
        /\ \A j \in c.msg_index..i : s[j].type = "recv"
    BY <1>1, <1>5, <1>10, FoundIsThere DEF ReceiveExpected, c, h, s
  <2>2. t \in Timer
    BY <1>5 DEF next_retrans, Good, CallType, Timer
  <2>3. \/ Returns(a, c2)
        \/ next(a, n)
        \/ Returns(a, o) /\ e.optional
    BY <1>10 DEF ReceiveExpected, c, h, s
  <2> HIDE DEF i, t
  <2>4. /\ Good(s, c2) /\ c2.running /\ c2.msg_index = c.msg_index
        /\ c2.paused_until = c.paused_until /\ c2.recv_timeout = c.recv_timeout
    <3>1. Good(s, c2)
      BY ZenonT(60), <1>1, <1>5, <2>1, <2>2, AcceptedIsGood
    <3>2. /\ c2.running = c.running /\ c2.msg_index = c.msg_index
          /\ c2.paused_until = c.paused_until /\ c2.recv_timeout = c.recv_timeout
      BY <1>5 DEF Good, CallType
    <3> QED
      BY <1>5, <3>1, <3>2
  <2> HIDE DEF c2
  <2>5. CASE Returns(a, c2)
    <3>1. Paused(s, c2) /\ Rests(s, c2)
      BY <1>5, <2>4 DEF Paused, Rests
    <3> QED
      BY <1>6, <2>5, <3>1
  <2>6. /\ Good(s, c3) /\ c3.running /\ c3.msg_index = c.msg_index
        /\ c3.paused_until = c.paused_until /\ c3.recv_timeout = c.recv_timeout
    BY ZenonT(60), <1>1, <2>1, <2>4, LastReceivedIsGood DEF Good, CallType
  <2> HIDE DEF c3
  <2>7. CASE next(a, n)
    <3>1. Good(s, n) /\ n.running /\ n.paused_until = "off"
      BY ZenonT(60), <1>1, <2>1, <2>6, IndexIsGood DEF Good, CallType
    <3> HIDE DEF n
    <3> QED
      BY <1>1, <2>7, <3>1, WaitsNext DEF s
  <2>8. CASE Returns(a, o) /\ e.optional
    <3>1. c.msg_index # 0
      <4>1. SUFFICES ASSUME c.msg_index = 0 PROVE FALSE
        OBVIOUS
      <4>2. i \in Nat /\ s[0].type = "recv"
        BY <1>1, <2>1, <4>1
      <4>3. i # 0
        BY <2>8, <4>2 DEF Prompt, s
      <4>4. 1 \in DOMAIN s /\ s[1].type = "recv"
        <5>1. config \in Configurations /\ DOMAIN s = 0..Size(a)-1 /\ Size(a) \in Nat
          BY <1>1, ScenarioIsArray DEF s
        <5> QED
          BY <2>1, <4>1, <4>2, <4>3, <5>1
      <4> QED
        BY <4>2, <4>4 DEF Prompt, s
    <3>2. s[c.msg_index].type = "recv"
      <4>1. c.msg_index \in c.msg_index..i
        BY <1>1, <1>5, <2>1 DEF Good
      <4> QED
        BY <2>1, <4>1
    <3>3. c.recv_timeout # "off"
      BY <1>5, <3>1, <3>2 DEF Rests
    <3>4. /\ o.recv_timeout = c.recv_timeout /\ o.msg_index = c.msg_index
          /\ o.paused_until = c.paused_until
      BY <2>6 DEF Good, CallType
    <3>5. Paused(s, o) /\ Rests(s, o)
      BY <1>5, <3>3, <3>4 DEF Paused, Rests, wake
    <3> HIDE DEF o
    <3> QED
      BY <1>6, <2>8, <3>5
  <2> QED
    BY <2>3, <2>5, <2>7, <2>8
<1>11. CASE ReceiveUnexpected(a, m)
  <2>1. \/ Returns(a, c)
        \/ Fails(a, FALSE)
        \/ Fails(a, DeadcallWait)
    BY <1>11 DEF ReceiveUnexpected, automaticResponseMode, process_unexpected,
       abortCall, FailsSending, c, h
  <2> QED
    BY <1>5, <1>6, <1>7, <2>1
<1> QED
  BY <1>8, <1>9, <1>10, <1>11 DEF process_incoming

(* A timer that becomes due stays on.                                      *)
LEMMA WaitsElapse ==
    ASSUME IInv, WaitInv, NEW a \in Agent, NEW timer \in Timers, Elapse(a, timer)
    PROVE  WaitInv'
<1>1. Scenario' = Scenario /\ RecvTimeout' = RecvTimeout /\ control' = control
  BY DEF Scenario, RecvTimeout, Elapse
<1>2. /\ call'[a] = [call[a] EXCEPT ![timer] = "due"] /\ call[a].live /\ call[a] \in CallType
      /\ \A b \in Agent \ {a} : call'[b] = call[b]
      /\ call[a][timer] = "armed"
  BY DEF IInv, CallsOK, Elapse
<1>3. ASSUME RecvTimeout, NEW b \in Agent, call'[b].live
      PROVE  /\ Paused(Scenario[b], call'[b])
             /\ IF control' = b THEN call'[b].running ELSE Rests(Scenario[b], call'[b])
  <2>1. CASE b = a
    <3>1. Paused(Scenario[b], call[b])
          /\ IF control = b THEN call[b].running ELSE Rests(Scenario[b], call[b])
      BY <1>2, <1>3, <2>1 DEF WaitInv
    <3>2. /\ call'[b].running = call[b].running /\ call'[b].msg_index = call[b].msg_index
          /\ call'[b].paused_until = "off" <=> call[b].paused_until = "off"
          /\ call'[b].next_retrans = "off" <=> call[b].next_retrans = "off"
          /\ call'[b].recv_timeout = "off" <=> call[b].recv_timeout = "off"
      <4>1. CASE timer = "paused_until"
        BY <1>2, <2>1, <4>1 DEF CallType
      <4>2. CASE timer = "next_retrans"
        BY <1>2, <2>1, <4>2 DEF CallType
      <4>3. CASE timer = "recv_timeout"
        BY <1>2, <2>1, <4>3 DEF CallType
      <4>4. CASE timer = "send_timeout"
        BY <1>2, <2>1, <4>4 DEF CallType
      <4> QED
        BY <4>1, <4>2, <4>3, <4>4 DEF Timers
    <3>3. Paused(Scenario[b], call'[b])
      BY <3>1, <3>2 DEF Paused
    <3>4. Rests(Scenario[b], call[b]) => Rests(Scenario[b], call'[b])
      BY <3>2 DEF Rests, wake
    <3> QED
      BY <1>1, <3>1, <3>2, <3>3, <3>4
  <2>2. CASE b # a
    BY <1>1, <1>2, <1>3, <2>2 DEF WaitInv
  <2> QED
    BY <2>1, <2>2
<1> QED
  BY <1>1, <1>3 DEF WaitInv

(* A call that is created or woken up is not asleep.                       *)
LEMMA WaitsOthers ==
    ASSUME IInv, WaitInv, NEW a \in Agent,
           Originate(a) \/ WakeUp(a) \/ DeadcallExpires(a)
    PROVE  WaitInv'
<1>1. config' = config /\ control = NoAgent /\ control' = NoAgent /\ a # NoAgent
  BY CallAssumption DEF Originate, WakeUp, DeadcallExpires
<1>2. CASE Originate(a)
  <2>1. Paused(Scenario[a], NewCall) /\ Rests(Scenario[a], NewCall)
    BY DEF NewCall, Paused, Rests
  <2> QED
    BY <1>1, <1>2, <2>1, WaitsReturns DEF Originate
<1>3. CASE WakeUp(a)
  <2> DEFINE d == [call[a] EXCEPT !.running = TRUE]
  <2>1. call' = [call EXCEPT ![a] = d] /\ call[a].live /\ call[a] \in CallType
    BY <1>3 DEF WakeUp, IInv, CallsOK
  <2>2. RecvTimeout => Paused(Scenario[a], d) /\ Rests(Scenario[a], d)
    BY <1>1, <2>1 DEF WaitInv, CallType, Paused, Rests
  <2> HIDE DEF d
  <2> QED
    BY <1>1, <2>1, <2>2, WaitsReturns
<1>4. CASE DeadcallExpires(a)
  <2>1. Scenario' = Scenario /\ RecvTimeout' = RecvTimeout /\ call' = call
    BY <1>1, <1>4 DEF Scenario, RecvTimeout, DeadcallExpires
  <2> QED
    BY <1>1, <2>1 DEF WaitInv
<1> QED
  BY <1>2, <1>3, <1>4

(* With such scenarios no call that waits for a message or for the end of  *)
(* a retransmission or a pause is ever asleep without a timer that wakes   *)
(* it (call::run, executeMessage, process_incoming, wake).                 *)
THEOREM NeverSilent ==
    ASSUME \A c \in Configurations, a \in Agent : Prompt(c.scenario[a])
    PROVE  Spec => []NoSilentWait
<1>1. config \in Configurations => \A a \in Agent : Prompt(Scenario[a])
  BY DEF Scenario
<1>2. Init => WaitInv
  BY NewCallIsGood DEF Init, WaitInv
<1>3. IInv /\ WaitInv /\ [Next]_vars => WaitInv'
  <2> SUFFICES ASSUME IInv, WaitInv, [Next]_vars PROVE WaitInv'
    OBVIOUS
  <2>1. CASE UNCHANGED vars
    <3>1. Scenario' = Scenario /\ RecvTimeout' = RecvTimeout /\ call' = call
          /\ control' = control
      BY <2>1 DEF Scenario, RecvTimeout, vars
    <3> QED
      BY <3>1 DEF WaitInv
  <2>2. CASE Next
    <3> PICK a \in Agent :
          \/ Step(a)
          \/ \E m \in Messages : process_incoming(a, m)
          \/ Originate(a)
          \/ \E timer \in Timers : Elapse(a, timer)
          \/ WakeUp(a)
          \/ DeadcallExpires(a)
      BY <2>2 DEF Next
    <3>1. Prompt(Scenario[a])
      BY <1>1 DEF IInv
    <3> QED
      BY <3>1, WaitsRun, WaitsIncoming, WaitsElapse, WaitsOthers
  <2> QED
    BY <2>1, <2>2
<1>4. WaitInv => NoSilentWait
  BY DEF WaitInv, NoSilentWait, Rests
<1> QED
  BY <1>2, <1>3, <1>4, Invariance, PTL DEF Spec

-----------------------------------------------------------------------------
(***************************************************************************)
(* Nothing is retransmitted after its answer.                              *)
(***************************************************************************)
Received(c) == {p[1] : p \in c.recvhash_msgindex_pairs}

(* What was received answers neither the message that is retransmitted nor *)
(* one that may still be sent.                                             *)
Pending(s, c) ==
    /\ c.next_retrans # "off" => \A m \in Received(c) : ~FinalAnswer(c.last_send_msg, m)
    /\ \A k \in DOMAIN s, m \in Received(c) :
         k >= c.msg_index /\ Hard(s, k) => ~FinalAnswer(s[k].msg, m)

(* The call has gone past the message it retransmits.                      *)
Unanswered(s, c) ==
    /\ Pending(s, c)
    /\ c.next_retrans # "off" => c.last_send_index < c.msg_index

AnswerInv == \A a \in Agent : call[a].live => Unanswered(Scenario[a], call[a])

(* It is kept when a handler leaves the call so,                           *)
LEMMA AnswersReturns ==
    ASSUME IInv, AnswerInv, NEW a \in Agent, config' = config,
           NEW c, call' = [call EXCEPT ![a] = c], c.live => Unanswered(Scenario[a], c)
    PROVE  AnswerInv'
<1>1. Scenario' = Scenario
  BY DEF Scenario
<1>2. call'[a] = c /\ \A b \in Agent \ {a} : call'[b] = call[b]
  BY DEF IInv, CallsOK
<1>3. ASSUME NEW b \in Agent, call'[b].live PROVE Unanswered(Scenario[b], call'[b])
  BY <1>2, <1>3 DEF AnswerInv
<1> QED
  BY <1>1, <1>3 DEF AnswerInv

(* when it deletes the call,                                               *)
LEMMA AnswersDelete ==
    ASSUME IInv, AnswerInv, NEW a \in Agent, config' = config, NEW b, Delete(a, b)
    PROVE  AnswerInv'
BY AnswersReturns, NewCallIsGood DEF Delete

(* Going on keeps it.                                                      *)
LEMMA PendingGrows ==
    ASSUME NEW s, NEW c, NEW d, Pending(s, c), DOMAIN s \subseteq Nat,
           c.msg_index \in Nat, d.msg_index \in Nat, d.msg_index >= c.msg_index,
           d.last_send_msg = c.last_send_msg,
           d.recvhash_msgindex_pairs = c.recvhash_msgindex_pairs,
           d.next_retrans # "off" => c.next_retrans # "off"
    PROVE  Pending(s, d)
<1>1. Received(d) = Received(c)
  BY DEF Received
<1>2. ASSUME NEW k \in DOMAIN s, NEW m \in Received(d), k >= d.msg_index, Hard(s, k)
      PROVE  ~FinalAnswer(s[k].msg, m)
  <2>1. k >= c.msg_index
    BY <1>2
  <2> QED
    BY <1>1, <1>2, <2>1 DEF Pending
<1> QED
  BY <1>1, <1>2 DEF Pending

(* and when it goes on to the next message.                                *)
LEMMA AnswersNext ==
    ASSUME IInv, AnswerInv, NEW a \in Agent, Orderly(Scenario[a]), config' = config,
           NEW c, Good(Scenario[a], c), Pending(Scenario[a], c),
           c.next_retrans # "off" => c.last_send_index <= c.msg_index,
           next(a, c)
    PROVE  AnswerInv'
<1> DEFINE s == Scenario[a]
           i == NextIndex(s[c.msg_index], c.msg_index)
           d == [c EXCEPT !.msg_index = i, !.recv_timeout = "off"]
<1>1. /\ c.msg_index \in DOMAIN s /\ DOMAIN s \subseteq Nat /\ c.last_send_index \in Nat
      /\ s[c.msg_index] \in Elements
  BY ScenarioIsArray DEF IInv, Good
<1>2. i \in Nat /\ i > c.msg_index
  <2>1. CASE s[c.msg_index].next >= 0 /\ s[c.msg_index].test
    <3>1. s[c.msg_index].next > c.msg_index /\ s[c.msg_index].next \in Nat
      BY <1>1, <2>1 DEF Orderly, Elements
    <3> QED
      BY <2>1, <3>1 DEF NextIndex
  <2>2. CASE ~(s[c.msg_index].next >= 0 /\ s[c.msg_index].test)
    BY <1>1, <2>2 DEF NextIndex
  <2> QED
    BY <2>1, <2>2
<1>3. CASE i >= Size(a)
  BY <1>3, AnswersDelete DEF next, terminate
<1>4. CASE ~(i >= Size(a))
  <2>1. RunsOn(a, d)
    BY <1>4 DEF next
  <2> HIDE DEF i
  <2>2. /\ d.msg_index = i /\ d.last_send_msg = c.last_send_msg
        /\ d.recvhash_msgindex_pairs = c.recvhash_msgindex_pairs
        /\ d.next_retrans = c.next_retrans /\ d.last_send_index = c.last_send_index
    BY DEF Good, CallType
  <2> HIDE DEF d
  <2>3. Pending(s, d)
    BY <1>1, <1>2, <2>2, PendingGrows
  <2>4. d.next_retrans # "off" => d.last_send_index < d.msg_index
    BY <1>1, <1>2, <2>2
  <2> QED
    BY <2>1, <2>3, <2>4, AnswersReturns DEF RunsOn, Unanswered
<1> QED
  BY <1>3, <1>4

(* Nothing that the retransmission depends on has changed, or it is off.   *)
LEMMA AnswersSame ==
    ASSUME NEW s, NEW c, NEW d, Unanswered(s, c), Good(s, c), DOMAIN s \subseteq Nat,
           d.msg_index = c.msg_index, d.last_send_msg = c.last_send_msg,
           d.recvhash_msgindex_pairs = c.recvhash_msgindex_pairs,
           d.last_send_index = c.last_send_index,
           d.next_retrans # "off" => c.next_retrans # "off"
    PROVE  Unanswered(s, d)
<1>1. c.msg_index \in Nat
  BY DEF Good
<1> QED
  BY <1>1, PendingGrows DEF Unanswered

(* Every step of run() keeps it: a timer is armed only by a send.          *)
LEMMA AnswersRun ==
    ASSUME IInv, AnswerInv, NEW a \in Agent, Orderly(Scenario[a]), Step(a)
    PROVE  AnswerInv'
<1> DEFINE c == call[a]
           s == Scenario[a]
<1>1. /\ Good(s, c) /\ c.live /\ Unanswered(s, c) /\ config' = config
      /\ config \in Configurations /\ DOMAIN s \subseteq Nat
  BY LiveIsGood, ScenarioIsArray DEF Step, run, Retransmit, GiveUp, StaysPaused, PauseEnds,
     ExecutePause, SendWaits, SendIsCongested, SendTimesOut, SendFails,
     ExecuteSend, ExecuteRecv, RecvTimesOut, Executes, Steps, Runs, IInv, AnswerInv
<1>2. c \in CallType /\ Pending(s, c) /\ c.msg_index \in DOMAIN s /\ c.last_send_index \in DOMAIN s
  BY <1>1 DEF Good, Unanswered
<1> HIDE DEF c, s
<1>3. ASSUME NEW d, Returns(a, d) \/ RunsOn(a, d), Unanswered(s, d) PROVE AnswerInv'
  BY <1>1, <1>3, AnswersReturns DEF Returns, RunsOn, s
<1>4. ASSUME NEW d, abortCall(a, d) PROVE AnswerInv'
  BY <1>1, <1>4, AnswersDelete DEF abortCall, FailsSending, Fails
<1>5. CASE Retransmit(a)
  <2> DEFINE d == [c EXCEPT !.next_retrans = "armed", !.nb_retrans = @ + 1]
  <2>1. CASE RunsOn(a, d)
    <3>1. c.next_retrans = "due"
      BY <1>5 DEF Retransmit, c
    <3>2. /\ d.msg_index = c.msg_index /\ d.last_send_msg = c.last_send_msg
          /\ d.recvhash_msgindex_pairs = c.recvhash_msgindex_pairs
          /\ d.last_send_index = c.last_send_index
      BY <1>2 DEF CallType
    <3> HIDE DEF d
    <3>3. Unanswered(s, d)
      BY <1>1, <3>1, <3>2, AnswersSame
    <3> QED
      BY <1>3, <2>1, <3>3
  <2>2. CASE Fails(a, FALSE)
    BY <1>1, <2>2, AnswersDelete DEF Fails
  <2> QED
    BY <1>5, <2>1, <2>2 DEF Retransmit, c
<1>6. CASE GiveUp(a)
  <2> DEFINE d == [c EXCEPT !.nb_retrans = @ + 1]
             label == s[c.last_send_index].on_timeout
             e == [d EXCEPT !.msg_index = label, !.next_retrans = "off",
                            !.recv_timeout = "off"]
  <2>1. CASE label \in DOMAIN s
    <3>1. Returns(a, e)
      BY <1>6, <2>1 DEF GiveUp, s, c
    <3>2. e.msg_index = label /\ e.next_retrans = "off"
      BY <1>2 DEF CallType
    <3>3. \A k \in DOMAIN s : Hard(s, k) => k < label
      BY <1>1, <1>2, <2>1 DEF Orderly, s
    <3> HIDE DEF e, label
    <3>4. ASSUME NEW k \in DOMAIN s, k >= e.msg_index PROVE ~Hard(s, k)
      <4>1. k \in Nat /\ label \in Nat
        BY <1>1, <2>1
      <4> QED
        BY <3>2, <3>3, <3>4, <4>1
    <3>5. Unanswered(s, e)
      BY <3>2, <3>4 DEF Unanswered, Pending
    <3> QED
      BY <1>3, <3>1, <3>5
  <2>2. CASE label \notin DOMAIN s
    <3>1. abortCall(a, d)
      BY <1>6, <2>2 DEF GiveUp, s, c
    <3> QED
      BY <1>4, <3>1
  <2> QED
    BY <2>1, <2>2
<1>7. CASE \/ StaysPaused(a) \/ ExecutePause(a) \/ SendWaits(a)
           \/ SendIsCongested(a) \/ ExecuteRecv(a)
  <2>1. PICK d : /\ Returns(a, d)
                 /\ \/ d = [c EXCEPT !.running = FALSE]
                    \/ d = [c EXCEPT !.paused_until = "armed", !.running = FALSE]
                    \/ d = c
                    \/ d = [c EXCEPT !.send_timeout = "armed"]
                    \/ d = [c EXCEPT !.recv_timeout = "armed"]
    BY <1>7 DEF StaysPaused, ExecutePause, SendWaits, SendIsCongested, ExecuteRecv, c
  <2>2. /\ d.msg_index = c.msg_index /\ d.last_send_msg = c.last_send_msg
        /\ d.recvhash_msgindex_pairs = c.recvhash_msgindex_pairs
        /\ d.last_send_index = c.last_send_index
        /\ d.next_retrans = c.next_retrans
    BY <1>2, <2>1 DEF CallType
  <2>3. Unanswered(s, d)
    BY <1>1, <2>2, AnswersSame
  <2> QED
    BY <1>3, <2>1, <2>3
<1>8. CASE PauseEnds(a)
  <2> DEFINE d == [c EXCEPT !.paused_until = "off"]
  <2>1. next(a, d)
    BY <1>8 DEF PauseEnds, c
  <2>2. /\ d.msg_index = c.msg_index /\ d.last_send_msg = c.last_send_msg
        /\ d.recvhash_msgindex_pairs = c.recvhash_msgindex_pairs
        /\ d.last_send_index = c.last_send_index
        /\ d.next_retrans = c.next_retrans
    BY <1>2 DEF CallType
  <2>3. Good(s, d)
    BY <1>1, TimersAreGood DEF Timer
  <2> HIDE DEF d
  <2>4. Unanswered(s, d)
    BY <1>1, <2>2, AnswersSame
  <2>5. Pending(s, d) /\ (d.next_retrans # "off" => d.last_send_index <= d.msg_index)
    BY <1>1, <1>2, <2>2, <2>4 DEF Unanswered
  <2> QED
    BY <1>1, <2>1, <2>3, <2>5, AnswersNext DEF s
<1>9. CASE SendTimesOut(a)
  BY <1>4, <1>9 DEF SendTimesOut
<1>10. CASE SendFails(a)
  BY <1>1, <1>10, AnswersDelete DEF SendFails, Fails
<1>11. CASE ExecuteSend(a)
  <2> DEFINE i == c.msg_index
             e == s[i]
             d == AnswerTo(Sends(c, e.msg), i)
             t == IF e.retrans THEN "armed" ELSE "off"
             n == IF e.retrans THEN 0 ELSE d.nb_retrans
             f == [d EXCEPT !.send_timeout = "off",
                            !.last_send_index = i,
                            !.last_send_msg = e.msg,
                            !.next_retrans = t,
                            !.nb_retrans = n]
  <2>1. next(a, f) /\ e.type = "send"
    BY <1>11 DEF ExecuteSend, Executes, c, s
  <2>2. e.msg \in Messages
    BY <1>1, <1>2, MessagesOf DEF s
  <2>3. Good(s, d)
    BY <1>1, <1>2, SendsIsGood, AnswerIsGood
  <2>4. d.msg_index = i /\ d.recvhash_msgindex_pairs = c.recvhash_msgindex_pairs
    BY <1>2 DEF AnswerTo, Sends, CallType
  <2>5. t \in Timer /\ n \in Nat /\ (t # "off" => Hard(s, i))
    BY <2>1, <2>3 DEF Good, CallType, Timer, Hard
  <2> HIDE DEF d, t, n
  <2>6. Good(s, f)
    BY <1>1, <1>2, <2>2, <2>3, <2>5, SentIsGood
  <2>7. /\ f.msg_index = i /\ f.recvhash_msgindex_pairs = c.recvhash_msgindex_pairs
        /\ f.last_send_index = i /\ f.last_send_msg = e.msg /\ f.next_retrans = t
    BY <2>3, <2>4 DEF Good, CallType
  <2> HIDE DEF f
  <2>8. Received(f) = Received(c) /\ i \in Nat
    BY <1>1, <1>2, <2>7 DEF Received
  <2>9. Pending(s, f)
    BY <1>2, <2>5, <2>7, <2>8 DEF Pending
  <2> QED
    BY <1>1, <2>1, <2>6, <2>7, <2>8, <2>9, AnswersNext DEF s
<1>12. CASE RecvTimesOut(a)
  <2> DEFINE d == [c EXCEPT !.recv_timeout = "off"]
             label == s[c.msg_index].on_timeout
             e == [d EXCEPT !.msg_index = label]
  <2>1. d.msg_index = c.msg_index
    BY <1>2 DEF CallType
  <2>2. CASE label \in DOMAIN s
    <3>1. Returns(a, e)
      BY <1>12, <2>1, <2>2 DEF RecvTimesOut, s, c
    <3>2. /\ e.msg_index = label /\ e.last_send_msg = c.last_send_msg
          /\ e.recvhash_msgindex_pairs = c.recvhash_msgindex_pairs
          /\ e.last_send_index = c.last_send_index /\ e.next_retrans = c.next_retrans
      BY <1>2 DEF CallType
    <3>3. label > c.msg_index
      BY <1>1, <1>2, <2>2 DEF Orderly, s
    <3> HIDE DEF e, label
    <3>4. label \in Nat /\ c.msg_index \in Nat /\ c.last_send_index \in Nat
      BY <1>1, <1>2, <2>2
    <3>5. Pending(s, e)
      BY <1>1, <1>2, <3>2, <3>3, <3>4, PendingGrows
    <3>6. e.next_retrans # "off" => e.last_send_index < e.msg_index
      BY <1>1, <3>2, <3>3, <3>4 DEF Unanswered
    <3> QED
      BY <1>3, <3>1, <3>5, <3>6 DEF Unanswered
  <2>3. CASE label \notin DOMAIN s
    <3>1. abortCall(a, d)
      BY <1>12, <2>1, <2>3 DEF RecvTimesOut, s, c
    <3> QED
      BY <1>4, <3>1
  <2> QED
    BY <2>2, <2>3
<1> QED
  BY <1>5, <1>6, <1>7, <1>8, <1>9, <1>10, <1>11, <1>12 DEF Step, run

(* A message is a status code, which is 0 for a request, and a method.     *)
LEMMA MessagesAreRecords ==
    \A m \in Messages : m.code \in Nat /\ m = Msg(m.code, m.method)
<1> DEFINE P(m) == m.code \in Nat /\ m = Msg(m.code, m.method)
<1>1. ASSUME NEW c \in Configurations, NEW a \in Agent, NEW m \in Names(c.scenario[a])
      PROVE  P(m)
  <2> DEFINE s == c.scenario[a]
             n == Cardinality(DOMAIN s)
  <2>1. s \in [0..n-1 -> Elements]
    BY CallAssumption DEF Loaded
  <2> HIDE DEF n
  <2>2. PICK i \in DOMAIN s : m = s[i].msg
    BY <1>1 DEF Names
  <2>3. s[i] \in Elements
    BY <2>1
  <2>4. m \in [code : Nat, method : STRING]
    BY <2>2, <2>3 DEF Elements
  <2> QED
    BY <2>4 DEF Msg
<1>2. ASSUME NEW n \in Nat, NEW method PROVE P(Msg(n, method))
  BY DEF Msg
<1>3. /\ P(NoMsg) /\ P(ACK) /\ P(BYE) /\ P(CANCEL)
      /\ P(Msg(200, "BYE")) /\ P(Msg(200, "CANCEL"))
  <2> HIDE DEF P
  <2> QED
    BY <1>2 DEF NoMsg, ACK, BYE, CANCEL
<1>4. \A m \in Scripted : P(m)
  <2> HIDE DEF P
  <2> QED
    BY <1>1 DEF Scripted
<1> HIDE DEF P
<1>5. \A m \in Messages : P(m)
  BY <1>3, <1>4 DEF Messages
<1> QED
  BY <1>5 DEF P

(* In particular its code is a number.                                     *)
LEMMA CodesAreNat == \A m \in Messages : m.code \in Nat
BY MessagesAreRecords

(* The message that is found turns the timer off when it answers what is   *)
(* retransmitted, and never on.                                            *)
LEMMA TimerOfFound ==
    ASSUME NEW s, NEW c, Good(s, c), Unanswered(s, c), Orderly(s), DOMAIN s \subseteq Nat,
           NEW m \in Messages, NEW i \in DOMAIN s, i >= c.msg_index,
           matches_scenario(s, i, m), next_retrans(c, m, i) # "off"
    PROVE  /\ next_retrans(c, m, i) = c.next_retrans
           /\ ~FinalAnswer(c.last_send_msg, m)
<1>1. m.code \in Nat /\ i \in Nat /\ c.msg_index \in Nat /\ c.last_send_index \in Nat
  BY CodesAreNat DEF Good
<1>2. m.code \in 1..199 => m.method = "INVITE"
  BY DEF Orderly
<1>3. ~((IsRequest(m) => m \in {ACK, CANCEL, BYE}) /\ i > c.last_send_index)
  BY <1>1, <1>2 DEF next_retrans, IsRequest
<1>4. next_retrans(c, m, i) = c.next_retrans
  BY <1>3 DEF next_retrans
<1>5. i > c.last_send_index
  BY <1>1, <1>4 DEF Unanswered
<1>6. m.code = 0 /\ m # ACK
  BY <1>3, <1>5 DEF IsRequest
<1> QED
  BY <1>4, <1>6 DEF FinalAnswer

(* Every step of process_incoming() keeps it.                              *)
LEMMA AnswersIncoming ==
    ASSUME IInv, AnswerInv, NEW a \in Agent, Orderly(Scenario[a]),
           NEW m \in Messages, process_incoming(a, m)
    PROVE  AnswerInv'
<1> DEFINE h == Handler(a)
           c == Established(h, m)
           s == Scenario[a]
<1>1. /\ Good(s, h) /\ config \in Configurations /\ config' = config
      /\ DOMAIN s \subseteq Nat
  BY HandlerIsGood, ScenarioIsArray DEF process_incoming, IInv
<1>2. Unanswered(s, h)
  <2>1. CASE call[a].live
    <3>1. Unanswered(s, call[a]) /\ Good(s, call[a])
      BY <2>1, LiveIsGood DEF AnswerInv
    <3>2. h = [call[a] EXCEPT !.running = TRUE]
      BY <2>1 DEF Handler
    <3>3. /\ h.msg_index = call[a].msg_index /\ h.last_send_msg = call[a].last_send_msg
          /\ h.recvhash_msgindex_pairs = call[a].recvhash_msgindex_pairs
          /\ h.last_send_index = call[a].last_send_index
          /\ h.next_retrans = call[a].next_retrans
      BY <3>1, <3>2 DEF Good, CallType
    <3> HIDE DEF h
    <3> QED
      BY <1>1, <3>1, <3>3, AnswersSame
  <2>2. CASE ~call[a].live
    <3>1. h.recvhash_msgindex_pairs = {} /\ h.next_retrans = "off"
      BY <2>2 DEF Handler, NewCall
    <3> HIDE DEF h
    <3>2. Received(h) = {}
      BY <3>1 DEF Received
    <3> QED
      BY <3>1, <3>2 DEF Unanswered, Pending
  <2> QED
    BY <2>1, <2>2
<1>3. ASSUME NEW d, d.msg_index = h.msg_index, d.last_send_msg = h.last_send_msg,
             d.recvhash_msgindex_pairs = h.recvhash_msgindex_pairs,
             d.last_send_index = h.last_send_index, d.next_retrans = h.next_retrans
      PROVE  Unanswered(s, d)
  <2> HIDE DEF h
  <2> QED
    BY <1>1, <1>2, <1>3, AnswersSame
<1> HIDE DEF c, h, s
<1>4. Good(s, c) /\ Unanswered(s, c)
  <2>1. /\ c.msg_index = h.msg_index /\ c.last_send_msg = h.last_send_msg
        /\ c.recvhash_msgindex_pairs = h.recvhash_msgindex_pairs
        /\ c.last_send_index = h.last_send_index /\ c.next_retrans = h.next_retrans
    BY <1>1 DEF c, Established, Good, CallType
  <2> QED
    BY <1>1, <1>3, <2>1, SendsIsGood DEF c
<1>5. ASSUME NEW d, Returns(a, d), Unanswered(s, d) PROVE AnswerInv'
  BY <1>1, <1>5, AnswersReturns DEF Returns, s
<1>6. ASSUME NEW b, Fails(a, b) PROVE AnswerInv'
  BY <1>1, <1>6, AnswersDelete DEF Fails
<1>7. CASE ReceiveRetransmission(a, m)
  <2> DEFINE answer == s[h.recv_retrans_send_index].msg
             d == Sends(h, answer)
  <2>1. Returns(a, d) \/ Returns(a, h) \/ Fails(a, FALSE)
    BY <1>7 DEF ReceiveRetransmission, h, s
  <2>2. /\ d.msg_index = h.msg_index /\ d.last_send_msg = h.last_send_msg
        /\ d.recvhash_msgindex_pairs = h.recvhash_msgindex_pairs
        /\ d.last_send_index = h.last_send_index /\ d.next_retrans = h.next_retrans
    BY <1>1 DEF Sends, Good, CallType
  <2> HIDE DEF d
  <2> QED
    BY <1>2, <1>3, <1>5, <1>6, <2>1, <2>2
<1>8. CASE ReceiveDuplicate(a, m)
  BY <1>2, <1>5, <1>8 DEF ReceiveDuplicate, h
<1>9. CASE ReceiveExpected(a, m)
  <2> DEFINE i == Min(Found(a, c, m))
             t == next_retrans(c, m, i)
             c2 == [c EXCEPT !.recvhash_msgindex_pairs = @ \cup {<<m, i>>},
                             !.next_retrans = t,
                             !.ack_is_pending = @ \/ m.code \in 200..298]
             c3 == [c2 EXCEPT !.last_recv_index = i,
                              !.last_recv_hash = m,
                              !.last_recv_msg = m]
             n == [c3 EXCEPT !.paused_until = "off", !.msg_index = i]
             o == [c3 EXCEPT !.running = FALSE]
  <2>1. /\ i \in DOMAIN s /\ i >= c.msg_index /\ matches_scenario(s, i, m)
        /\ \A j \in c.msg_index..i : s[j].type = "recv"
    BY <1>1, <1>4, <1>9, FoundIsThere DEF ReceiveExpected, c, h, s
  <2>2. t \in Timer
    BY <1>4 DEF next_retrans, Good, CallType, Timer
  <2>3. Returns(a, c2) \/ next(a, n) \/ Returns(a, o)
    BY <1>9 DEF ReceiveExpected, c, h, s
  <2>4. t # "off" => t = c.next_retrans /\ ~FinalAnswer(c.last_send_msg, m)
    BY <1>1, <1>4, <2>1, TimerOfFound DEF s
  <2> HIDE DEF i, t
  <2>5. Good(s, c2)
    BY ZenonT(60), <1>1, <1>4, <2>1, <2>2, AcceptedIsGood
  <2>6. /\ c2.recvhash_msgindex_pairs = c.recvhash_msgindex_pairs \cup {<<m, i>>}
        /\ c2.next_retrans = t /\ c2.msg_index = c.msg_index
        /\ c2.last_send_msg = c.last_send_msg /\ c2.last_send_index = c.last_send_index
    BY <1>4 DEF Good, CallType
  <2> HIDE DEF c2
  <2>7. Received(c2) = Received(c) \cup {m}
    <3>1. c2.recvhash_msgindex_pairs = c.recvhash_msgindex_pairs \cup {<<m, i>>}
      BY <2>6
    <3> DEFINE A == c.recvhash_msgindex_pairs
               q == <<m, i>>
    <3>2. q[1] = m
      OBVIOUS
    <3> HIDE DEF A, q
    <3>3. {p[1] : p \in A \cup {q}} = {p[1] : p \in A} \cup {m}
      BY <3>2
    <3> QED
      BY <3>1, <3>3 DEF Received, A, q
  <2>8. Unanswered(s, c2)
    <3>1. ASSUME c2.next_retrans # "off", NEW r \in Received(c2)
          PROVE  ~FinalAnswer(c2.last_send_msg, r)
      BY <1>4, <2>4, <2>6, <2>7, <3>1 DEF Unanswered, Pending
    <3>2. ASSUME NEW k \in DOMAIN s, NEW r \in Received(c2), k >= c2.msg_index, Hard(s, k)
          PROVE  ~FinalAnswer(s[k].msg, r)
      <4>1. CASE r = m
        <5>1. k \notin c.msg_index..i
          BY <2>1, <3>2 DEF Hard
        <5>2. k \in Nat /\ i \in Nat /\ c.msg_index \in Nat
          BY <1>1, <1>4, <2>1 DEF Good
        <5>3. i < k
          BY <2>6, <3>2, <5>1, <5>2
        <5> QED
          BY <2>1, <3>2, <4>1, <5>3 DEF Orderly, s
      <4>2. CASE r # m
        BY <1>4, <2>6, <2>7, <3>2, <4>2 DEF Unanswered, Pending
      <4> QED
        BY <4>1, <4>2
    <3>3. c2.next_retrans # "off" => c2.last_send_index < c2.msg_index
      BY <1>4, <2>4, <2>6 DEF Unanswered
    <3> QED
      BY <3>1, <3>2, <3>3 DEF Unanswered, Pending
  <2>9. CASE Returns(a, c2)
    BY <1>5, <2>8, <2>9
  <2>10. /\ Good(s, c3) /\ c3.msg_index = c2.msg_index /\ c3.next_retrans = c2.next_retrans
         /\ c3.recvhash_msgindex_pairs = c2.recvhash_msgindex_pairs
         /\ c3.last_send_msg = c2.last_send_msg /\ c3.last_send_index = c2.last_send_index
    <3>1. Good(s, c3)
      BY <1>1, <2>1, <2>5, LastReceivedIsGood
    <3> QED
      BY <2>5, <3>1 DEF Good, CallType
  <2> HIDE DEF c3
  <2>11. CASE next(a, n)
    <3>1. /\ Good(s, n) /\ n.msg_index = i /\ n.next_retrans = c2.next_retrans
          /\ n.recvhash_msgindex_pairs = c2.recvhash_msgindex_pairs
          /\ n.last_send_msg = c2.last_send_msg /\ n.last_send_index = c2.last_send_index
      <4>1. Good(s, n)
        BY <1>1, <2>1, <2>10, IndexIsGood
      <4> QED
        BY <2>10, <4>1 DEF Good, CallType
    <3> HIDE DEF n
    <3>2. /\ i \in Nat /\ c2.msg_index \in Nat /\ c2.last_send_index \in Nat
          /\ n.msg_index >= c2.msg_index
      BY <1>1, <1>4, <2>1, <2>6, <3>1 DEF Good
    <3>3. Pending(s, n)
      BY <1>1, <2>8, <3>1, <3>2, PendingGrows DEF Unanswered
    <3>4. n.next_retrans # "off" => n.last_send_index <= n.msg_index
      BY <2>8, <3>1, <3>2 DEF Unanswered
    <3> QED
      BY <1>1, <2>11, <3>1, <3>3, <3>4, AnswersNext DEF s
  <2>12. CASE Returns(a, o)
    <3>1. /\ o.msg_index = c2.msg_index /\ o.next_retrans = c2.next_retrans
          /\ o.recvhash_msgindex_pairs = c2.recvhash_msgindex_pairs
          /\ o.last_send_msg = c2.last_send_msg /\ o.last_send_index = c2.last_send_index
      BY <2>10 DEF Good, CallType
    <3> HIDE DEF o
    <3>2. Unanswered(s, o)
      BY <1>1, <2>5, <2>8, <3>1, AnswersSame
    <3> QED
      BY <1>5, <2>12, <3>2
  <2> QED
    BY <2>3, <2>9, <2>11, <2>12
<1>10. CASE ReceiveUnexpected(a, m)
  <2>1. Returns(a, c) \/ Fails(a, FALSE) \/ Fails(a, DeadcallWait)
    BY <1>10 DEF ReceiveUnexpected, automaticResponseMode, process_unexpected,
       abortCall, FailsSending, c, h
  <2> QED
    BY <1>4, <1>5, <1>6, <2>1
<1> QED
  BY <1>7, <1>8, <1>9, <1>10 DEF process_incoming

(* The other steps arm no timer, or concern a call that received nothing.  *)
LEMMA AnswersOthers ==
    ASSUME IInv, AnswerInv, NEW a \in Agent,
           \/ \E timer \in Timers : Elapse(a, timer)
           \/ Originate(a) \/ WakeUp(a) \/ DeadcallExpires(a)
    PROVE  AnswerInv'
<1>1. config' = config /\ call[a] \in CallType
  BY DEF Elapse, Originate, WakeUp, DeadcallExpires, IInv, CallsOK
<1>2. ASSUME NEW d, call' = [call EXCEPT ![a] = d], call[a].live,
             d.msg_index = call[a].msg_index, d.last_send_msg = call[a].last_send_msg,
             d.recvhash_msgindex_pairs = call[a].recvhash_msgindex_pairs,
             d.last_send_index = call[a].last_send_index,
             d.next_retrans # "off" => call[a].next_retrans # "off"
      PROVE  AnswerInv'
  <2>1. Good(Scenario[a], call[a]) /\ Unanswered(Scenario[a], call[a])
    BY <1>2, LiveIsGood DEF AnswerInv
  <2>2. DOMAIN Scenario[a] \subseteq Nat
    BY ScenarioIsArray DEF IInv
  <2>3. Unanswered(Scenario[a], d)
    BY <1>2, <2>1, <2>2, AnswersSame
  <2> QED
    BY <1>1, <1>2, <2>3, AnswersReturns
<1>3. ASSUME NEW timer \in Timers, Elapse(a, timer) PROVE AnswerInv'
  <2> DEFINE d == [call[a] EXCEPT ![timer] = "due"]
  <2>1. call' = [call EXCEPT ![a] = d] /\ call[a].live /\ call[a][timer] = "armed"
    BY <1>3 DEF Elapse
  <2>2. /\ d.msg_index = call[a].msg_index /\ d.last_send_msg = call[a].last_send_msg
        /\ d.recvhash_msgindex_pairs = call[a].recvhash_msgindex_pairs
        /\ d.last_send_index = call[a].last_send_index
    BY <1>1 DEF Timers, CallType
  <2>3. d.next_retrans # "off" => call[a].next_retrans # "off"
    BY <1>1, <2>1 DEF Timers, CallType
  <2> HIDE DEF d
  <2> QED
    BY <1>2, <2>1, <2>2, <2>3
<1>4. CASE WakeUp(a)
  <2> DEFINE d == [call[a] EXCEPT !.running = TRUE]
  <2>1. call' = [call EXCEPT ![a] = d] /\ call[a].live
    BY <1>4 DEF WakeUp
  <2>2. /\ d.msg_index = call[a].msg_index /\ d.last_send_msg = call[a].last_send_msg
        /\ d.recvhash_msgindex_pairs = call[a].recvhash_msgindex_pairs
        /\ d.last_send_index = call[a].last_send_index
        /\ d.next_retrans = call[a].next_retrans
    BY <1>1 DEF CallType
  <2> HIDE DEF d
  <2> QED
    BY <1>2, <2>1, <2>2
<1>5. CASE Originate(a)
  <2>1. NewCall.recvhash_msgindex_pairs = {} /\ NewCall.next_retrans = "off"
    BY DEF NewCall
  <2>2. Received(NewCall) = {}
    BY <2>1 DEF Received
  <2>3. Unanswered(Scenario[a], NewCall)
    BY <2>1, <2>2 DEF Unanswered, Pending
  <2> QED
    BY <1>1, <1>5, <2>3, AnswersReturns DEF Originate
<1>6. CASE DeadcallExpires(a)
  <2>1. Scenario' = Scenario /\ call' = call
    BY <1>1, <1>6 DEF Scenario, DeadcallExpires
  <2> QED
    BY <2>1 DEF AnswerInv
<1> QED
  BY <1>3, <1>4, <1>5, <1>6

(* In such scenarios no message is retransmitted any more once the call    *)
(* has accepted its final answer, whatever else was received in between    *)
(* (process_incoming, executeMessage, run).                                *)
THEOREM AnsweredIsNotRepeated ==
    ASSUME \A c \in Configurations, a \in Agent : Orderly(c.scenario[a])
    PROVE  Spec => []NoRetransAfterAnswer
<1>1. config \in Configurations => \A a \in Agent : Orderly(Scenario[a])
  BY DEF Scenario
<1>2. Init => AnswerInv
  BY NewCallIsGood DEF Init, AnswerInv
<1>3. IInv /\ AnswerInv /\ [Next]_vars => AnswerInv'
  <2> SUFFICES ASSUME IInv, AnswerInv, [Next]_vars PROVE AnswerInv'
    OBVIOUS
  <2>1. CASE UNCHANGED vars
    <3>1. Scenario' = Scenario /\ call' = call
      BY <2>1 DEF Scenario, vars
    <3> QED
      BY <3>1 DEF AnswerInv
  <2>2. CASE Next
    <3> PICK a \in Agent :
          \/ Step(a)
          \/ \E m \in Messages : process_incoming(a, m)
          \/ Originate(a)
          \/ \E timer \in Timers : Elapse(a, timer)
          \/ WakeUp(a)
          \/ DeadcallExpires(a)
      BY <2>2 DEF Next
    <3>1. Orderly(Scenario[a])
      BY <1>1 DEF IInv
    <3> QED
      BY <3>1, AnswersRun, AnswersIncoming, AnswersOthers
  <2> QED
    BY <2>1, <2>2
<1>4. AnswerInv => NoRetransAfterAnswer
  BY DEF AnswerInv, NoRetransAfterAnswer, Unanswered, Pending, Received
<1> QED
  BY <1>2, <1>3, <1>4, Invariance, PTL DEF Spec

-----------------------------------------------------------------------------
(***************************************************************************)
(* Nothing but the answer stops the retransmission.                        *)
(***************************************************************************)
(* The message that was sent last is settled.                              *)
Settled(s, c) == \E m \in Received(c) : Settles(s[c.last_send_index].msg, m)

(* Position x is behind no barrier that follows on message k.              *)
Ahead(s, k, x) == \A i \in DOMAIN s : i >= x => ~Behind(s, k, i, x)

(* What was sent last with retransmission is settled, given up, or it is   *)
(* retransmitted and every barrier is still to come.                       *)
Sought(s, c, x) ==
    c.last_send_msg # NoMsg /\ Hard(s, c.last_send_index) =>
      \/ Settled(s, c)
      \/ c.nb_retrans > MaxRetrans
      \/ Ahead(s, c.last_send_index, x) /\ c.next_retrans # "off"

(* And the call may go past position x.                                    *)
Passing(s, c, x) ==
    c.last_send_msg # NoMsg /\ Hard(s, c.last_send_index) =>
      \/ Settled(s, c)
      \/ c.nb_retrans > MaxRetrans
      \/ c.last_send_index >= x
      \/ ~Barrier(s, c.last_send_index, x)

(* The call remembers what it sent last; only a label that is taken when it*)
(* gives up can leave a pause that is not at its element.                  *)
Remembers(s, c) == c.last_send_msg # NoMsg => c.last_send_msg = s[c.last_send_index].msg
Rested(s, c) == /\ c.nb_retrans \in Nat
                /\ c.paused_until # "off" =>
                     s[c.msg_index].type = "pause" \/ c.nb_retrans > MaxRetrans

Seeking(s, c) == Remembers(s, c) /\ Rested(s, c) /\ Sought(s, c, c.msg_index)
SeekInv == \A a \in Agent : call[a].live => Seeking(Scenario[a], call[a])

(* A label leads around no barrier, nor does the next message.             *)
LEMMA AheadNext ==
    ASSUME NEW s, NEW n \in Nat, DOMAIN s = 0..n-1, NEW k \in DOMAIN s, NEW x \in DOMAIN s,
           NEW y \in Nat, x < y, Ahead(s, k, x),
           y \in Labels(s, x) \/ (y = x + 1 /\ ~(k < x /\ Barrier(s, k, x)))
    PROVE  Ahead(s, k, y)
<1> SUFFICES ASSUME NEW i \in DOMAIN s, i >= y, NEW j \in k+1..y-1, j \in DOMAIN s,
                    Barrier(s, k, j),
                    \A l \in DOMAIN s : l <= j => Labels(s, l) \cap j+1..i = {}
             PROVE  FALSE
  BY DEF Ahead, Behind
<1>1. i >= x /\ j \in Nat /\ k < j
  OBVIOUS
<1>2. CASE j < x
  <2>1. j \in k+1..x-1
    BY <1>1, <1>2
  <2>2. Behind(s, k, i, x)
    BY <2>1 DEF Behind
  <2> QED
    BY <1>1, <2>2 DEF Ahead
<1>3. CASE j >= x
  <2>1. CASE y \in Labels(s, x)
    <3>1. y \in j+1..i
      BY <1>1
    <3> QED
      BY <1>3, <2>1, <3>1
  <2>2. CASE y = x + 1 /\ ~(k < x /\ Barrier(s, k, x))
    <3>1. j = x
      BY <1>1, <1>3, <2>2
    <3> QED
      BY <1>1, <2>2, <3>1
  <2> QED
    BY <2>1, <2>2
<1> QED
  BY <1>1, <1>2, <1>3

(* Nor does the search, which goes on past what is no barrier.             *)
LEMMA AheadSearch ==
    ASSUME NEW s, NEW n \in Nat, DOMAIN s = 0..n-1, NEW k \in DOMAIN s, NEW x \in DOMAIN s,
           NEW i \in DOMAIN s, x <= i, Ahead(s, k, x),
           \A j \in x..i-1 : ~Barrier(s, k, j)
    PROVE  Ahead(s, k, i)
<1> SUFFICES ASSUME NEW o \in DOMAIN s, o >= i, NEW j \in k+1..i-1, j \in DOMAIN s,
                    Barrier(s, k, j),
                    \A l \in DOMAIN s : l <= j => Labels(s, l) \cap j+1..o = {}
             PROVE  FALSE
  BY DEF Ahead, Behind
<1>1. o >= x /\ j \in Nat /\ k < j
  OBVIOUS
<1>2. j \notin x..i-1
  OBVIOUS
<1>3. j \in k+1..x-1
  BY <1>1, <1>2
<1>4. Behind(s, k, o, x)
  BY <1>3 DEF Behind
<1> QED
  BY <1>1, <1>4 DEF Ahead

(* It is kept when a handler leaves the call so,                           *)
LEMMA SeekReturns ==
    ASSUME IInv, SeekInv, NEW a \in Agent, config' = config,
           NEW c, call' = [call EXCEPT ![a] = c], c.live => Seeking(Scenario[a], c)
    PROVE  SeekInv'
<1>1. Scenario' = Scenario
  BY DEF Scenario
<1>2. call'[a] = c /\ \A b \in Agent \ {a} : call'[b] = call[b]
  BY DEF IInv, CallsOK
<1>3. ASSUME NEW b \in Agent, call'[b].live PROVE Seeking(Scenario[b], call'[b])
  BY <1>2, <1>3 DEF SeekInv
<1> QED
  BY <1>1, <1>3 DEF SeekInv

(* when it deletes the call,                                               *)
LEMMA SeekDelete ==
    ASSUME IInv, SeekInv, NEW a \in Agent, config' = config, NEW b, Delete(a, b)
    PROVE  SeekInv'
BY SeekReturns, NewCallIsGood DEF Delete

(* when nothing that it depends on changes, or a timer is armed,           *)
LEMMA SeekSame ==
    ASSUME NEW s, NEW c, NEW d, Seeking(s, c),
           d.msg_index = c.msg_index, d.last_send_msg = c.last_send_msg,
           d.recvhash_msgindex_pairs = c.recvhash_msgindex_pairs,
           d.last_send_index = c.last_send_index,
           d.nb_retrans \in Nat, d.nb_retrans >= c.nb_retrans,
           c.next_retrans # "off" => d.next_retrans # "off",
           d.paused_until # "off" => c.paused_until # "off" \/ s[c.msg_index].type = "pause"
    PROVE  Seeking(s, d)
<1>1. Received(d) = Received(c)
  BY DEF Received
<1>2. c.nb_retrans \in Nat /\ MaxRetrans \in Nat
  BY CallAssumption DEF Seeking, Rested
<1>3. c.nb_retrans > MaxRetrans => d.nb_retrans > MaxRetrans
  BY <1>2
<1>4. Settled(s, c) => Settled(s, d)
  BY <1>1 DEF Settled
<1>5. Sought(s, d, d.msg_index)
  BY <1>3, <1>4 DEF Seeking, Sought
<1>6. Remembers(s, d) /\ Rested(s, d)
  BY <1>3 DEF Seeking, Remembers, Rested
<1> QED
  BY <1>5, <1>6 DEF Seeking

(* and when the call goes on from an element that is no barrier.           *)
LEMMA SeekNext ==
    ASSUME IInv, SeekInv, NEW a \in Agent, Settling(Scenario[a]), config' = config,
           NEW c, Good(Scenario[a], c), Remembers(Scenario[a], c),
           Sought(Scenario[a], c, c.msg_index),
           Passing(Scenario[a], c, c.msg_index),
           c.paused_until = "off", next(a, c)
    PROVE  SeekInv'
<1> DEFINE s == Scenario[a]
           x == c.msg_index
           k == c.last_send_index
           y == NextIndex(s[x], x)
           d == [c EXCEPT !.msg_index = y, !.recv_timeout = "off"]
<1>1. /\ x \in DOMAIN s /\ k \in DOMAIN s /\ c.nb_retrans \in Nat
      /\ DOMAIN s = 0..Size(a)-1 /\ Size(a) \in Nat /\ s[x] \in Elements
  BY ScenarioIsArray DEF IInv, Good, CallType
<1>2. CASE y >= Size(a)
  BY <1>2, SeekDelete DEF next, terminate
<1>3. CASE ~(y >= Size(a))
  <2>1. RunsOn(a, d)
    BY <1>3 DEF next
  <2>2. y \in Nat /\ x < y /\ (y \in Labels(s, x) \/ y = x + 1)
    <3>1. CASE s[x].next >= 0 /\ s[x].test
      <4>1. y = s[x].next /\ y \in Int /\ y >= 0
        BY <1>1, <3>1 DEF NextIndex, Elements
      <4>2. y \in DOMAIN s
        BY <1>1, <1>3, <4>1
      <4>3. y \in Labels(s, x)
        BY <4>1, <4>2 DEF Labels
      <4>4. y > x
        BY <1>1, <4>3 DEF Settling
      <4> QED
        BY <1>1, <4>1, <4>3, <4>4
    <3>2. CASE ~(s[x].next >= 0 /\ s[x].test)
      <4>1. y = x + 1
        BY <3>2 DEF NextIndex
      <4> QED
        BY <1>1, <4>1
    <3> QED
      BY <3>1, <3>2
  <2> HIDE DEF y
  <2>3. /\ d.msg_index = y /\ d.last_send_msg = c.last_send_msg
        /\ d.recvhash_msgindex_pairs = c.recvhash_msgindex_pairs
        /\ d.next_retrans = c.next_retrans /\ d.last_send_index = k
        /\ d.nb_retrans = c.nb_retrans /\ d.paused_until = "off"
    BY DEF Good, CallType
  <2> HIDE DEF d
  <2>4. Settled(s, c) => Settled(s, d)
    BY <2>3 DEF Settled, Received
  <2>5. Sought(s, d, y)
    <3>1. CASE \/ ~(c.last_send_msg # NoMsg /\ Hard(s, k))
               \/ Settled(s, c) \/ c.nb_retrans > MaxRetrans
      BY <2>3, <2>4, <3>1 DEF Sought
    <3>2. CASE /\ c.last_send_msg # NoMsg /\ Hard(s, k)
               /\ ~Settled(s, c) /\ ~(c.nb_retrans > MaxRetrans)
      <4>1. ~(k < x /\ Barrier(s, k, x))
        BY <1>1, <3>2 DEF Passing
      <4>2. Ahead(s, k, x) /\ c.next_retrans # "off"
        BY <3>2 DEF Sought
      <4>3. Ahead(s, k, y)
        BY <1>1, <2>2, <4>1, <4>2, AheadNext
      <4> QED
        BY <2>3, <4>2, <4>3 DEF Sought
    <3> QED
      BY <3>1, <3>2
  <2>6. Remembers(s, d) /\ Rested(s, d)
    BY <1>1, <2>3 DEF Remembers, Rested
  <2> QED
    BY <2>1, <2>3, <2>5, <2>6, SeekReturns DEF RunsOn, Seeking
<1> QED
  BY <1>2, <1>3

(* Every step of run() keeps it: it stops retransmitting only to give up.  *)
LEMMA SeekRun ==
    ASSUME IInv, SeekInv, NEW a \in Agent, Settling(Scenario[a]), Step(a)
    PROVE  SeekInv'
<1> DEFINE c == call[a]
           s == Scenario[a]
<1>1. /\ Good(s, c) /\ c.live /\ Seeking(s, c) /\ config' = config
      /\ config \in Configurations /\ DOMAIN s \subseteq Nat
      /\ DOMAIN s = 0..Size(a)-1 /\ Size(a) \in Nat
  BY LiveIsGood, ScenarioIsArray DEF Step, run, Retransmit, GiveUp, StaysPaused, PauseEnds,
     ExecutePause, SendWaits, SendIsCongested, SendTimesOut, SendFails,
     ExecuteSend, ExecuteRecv, RecvTimesOut, Executes, Steps, Runs, IInv, SeekInv
<1>2. /\ c \in CallType /\ c.msg_index \in DOMAIN s /\ c.last_send_index \in DOMAIN s
      /\ c.nb_retrans \in Nat /\ MaxRetrans \in Nat
  BY <1>1, CallAssumption DEF Good, CallType
<1>3. ASSUME NEW d, Returns(a, d) \/ RunsOn(a, d), Seeking(s, d) PROVE SeekInv'
  BY <1>1, <1>3, SeekReturns DEF Returns, RunsOn
<1> HIDE DEF c, s
<1>4. ASSUME NEW d, abortCall(a, d) PROVE SeekInv'
  BY <1>1, <1>4, SeekDelete DEF abortCall, FailsSending, Fails
<1>5. CASE Retransmit(a)
  <2> DEFINE d == [c EXCEPT !.next_retrans = "armed", !.nb_retrans = @ + 1]
  <2>1. CASE RunsOn(a, d)
    <3>1. /\ d.msg_index = c.msg_index /\ d.last_send_msg = c.last_send_msg
          /\ d.recvhash_msgindex_pairs = c.recvhash_msgindex_pairs
          /\ d.last_send_index = c.last_send_index
          /\ d.next_retrans = "armed" /\ d.nb_retrans = c.nb_retrans + 1
          /\ d.paused_until = c.paused_until
      BY <1>2 DEF CallType
    <3> HIDE DEF d
    <3>2. Seeking(s, d)
      BY <1>1, <1>2, <3>1, SeekSame
    <3> QED
      BY <1>3, <2>1, <3>2
  <2>2. CASE Fails(a, FALSE)
    BY <1>1, <2>2, SeekDelete DEF Fails
  <2> QED
    BY <1>5, <2>1, <2>2 DEF Retransmit, c
<1>6. CASE GiveUp(a)
  <2> DEFINE d == [c EXCEPT !.nb_retrans = @ + 1]
             label == s[c.last_send_index].on_timeout
             e == [d EXCEPT !.msg_index = label, !.next_retrans = "off",
                            !.recv_timeout = "off"]
  <2>1. CASE label \in DOMAIN s
    <3>1. Returns(a, e)
      BY <1>6, <2>1 DEF GiveUp, s, c
    <3>2. /\ e.nb_retrans = c.nb_retrans + 1 /\ e.last_send_msg = c.last_send_msg
          /\ e.last_send_index = c.last_send_index
      BY <1>2 DEF CallType
    <3>3. c.nb_retrans + 1 > MaxRetrans
      <4>1. d.nb_retrans = c.nb_retrans + 1
        BY <1>2 DEF CallType
      <4>2. d.nb_retrans > MaxRetrans
        BY <1>6 DEF GiveUp, c
      <4> QED
        BY <4>1, <4>2
    <3> HIDE DEF e, label
    <3>4. Seeking(s, e)
      BY <1>1, <1>2, <3>2, <3>3 DEF Seeking, Sought, Remembers, Rested
    <3> QED
      BY <1>3, <3>1, <3>4
  <2>2. CASE label \notin DOMAIN s
    <3>1. abortCall(a, d)
      BY <1>6, <2>2 DEF GiveUp, s, c
    <3> QED
      BY <1>4, <3>1
  <2> QED
    BY <2>1, <2>2
<1>7. CASE \/ StaysPaused(a) \/ ExecutePause(a) \/ SendWaits(a)
           \/ SendIsCongested(a) \/ ExecuteRecv(a)
  <2>1. PICK d : /\ Returns(a, d)
                 /\ \/ d = [c EXCEPT !.running = FALSE]
                    \/ /\ d = [c EXCEPT !.paused_until = "armed", !.running = FALSE]
                       /\ s[c.msg_index].type = "pause"
                    \/ d = c
                    \/ d = [c EXCEPT !.send_timeout = "armed"]
                    \/ d = [c EXCEPT !.recv_timeout = "armed"]
    BY <1>7 DEF StaysPaused, ExecutePause, SendWaits, SendIsCongested, ExecuteRecv,
       Executes, c, s
  <2>2. /\ d.msg_index = c.msg_index /\ d.last_send_msg = c.last_send_msg
        /\ d.recvhash_msgindex_pairs = c.recvhash_msgindex_pairs
        /\ d.last_send_index = c.last_send_index
        /\ d.next_retrans = c.next_retrans /\ d.nb_retrans = c.nb_retrans
        /\ d.paused_until = c.paused_until \/ s[c.msg_index].type = "pause"
    BY <1>2, <2>1 DEF CallType
  <2>3. Seeking(s, d)
    BY <1>1, <1>2, <2>2, SeekSame
  <2> QED
    BY <1>3, <2>1, <2>3
<1>8. CASE PauseEnds(a)
  <2> DEFINE d == [c EXCEPT !.paused_until = "off"]
  <2>1. next(a, d) /\ c.paused_until = "due"
    BY <1>8 DEF PauseEnds, c
  <2>2. /\ d.msg_index = c.msg_index /\ d.last_send_msg = c.last_send_msg
        /\ d.recvhash_msgindex_pairs = c.recvhash_msgindex_pairs
        /\ d.last_send_index = c.last_send_index /\ d.paused_until = "off"
        /\ d.next_retrans = c.next_retrans /\ d.nb_retrans = c.nb_retrans
    BY <1>2 DEF CallType
  <2>3. Good(s, d)
    BY <1>1, TimersAreGood DEF Timer
  <2> HIDE DEF d
  <2>4. Seeking(s, d)
    BY <1>1, <1>2, <2>2, SeekSame
  <2>5. Passing(s, d, d.msg_index)
    <3>1. c.nb_retrans > MaxRetrans \/ s[c.msg_index].type = "pause"
      BY <1>1, <2>1 DEF Seeking, Rested
    <3>2. s[c.msg_index].type = "pause" => ~Barrier(s, d.last_send_index, d.msg_index)
      BY <2>2 DEF Barrier, Waited
    <3> QED
      BY <2>2, <3>1, <3>2 DEF Passing
  <2> QED
    BY <1>1, <2>1, <2>2, <2>3, <2>4, <2>5, SeekNext DEF s, Seeking
<1>9. CASE SendTimesOut(a)
  BY <1>4, <1>9 DEF SendTimesOut
<1>10. CASE SendFails(a)
  BY <1>1, <1>10, SeekDelete DEF SendFails, Fails
<1>11. CASE ExecuteSend(a)
  <2> DEFINE i == c.msg_index
             e == s[i]
             d == AnswerTo(Sends(c, e.msg), i)
             t == IF e.retrans THEN "armed" ELSE "off"
             n == IF e.retrans THEN 0 ELSE d.nb_retrans
             f == [d EXCEPT !.send_timeout = "off",
                            !.last_send_index = i,
                            !.last_send_msg = e.msg,
                            !.next_retrans = t,
                            !.nb_retrans = n]
  <2>1. next(a, f) /\ e.type = "send" /\ c.paused_until = "off"
    BY <1>11 DEF ExecuteSend, Executes, c, s
  <2>2. e.msg \in Messages
    BY <1>1, <1>2, MessagesOf DEF s
  <2>3. Good(s, d)
    BY <1>1, <1>2, SendsIsGood, AnswerIsGood
  <2>4. d.msg_index = i /\ d.paused_until = "off"
    BY <1>2, <2>1 DEF AnswerTo, Sends, CallType
  <2>5. t \in Timer /\ n \in Nat /\ (Hard(s, i) => t = "armed")
    <3>1. d.nb_retrans \in Nat
      BY <2>3 DEF Good, CallType
    <3> QED
      BY <2>1, <3>1 DEF Timer, Hard
  <2> HIDE DEF d, t, n
  <2>6. Good(s, f)
    <3>1. i \in DOMAIN s /\ DOMAIN s \subseteq Nat
      BY <1>1, <1>2
    <3> HIDE DEF i, e
    <3> QED
      BY ZenonT(60), <2>2, <2>3, <2>5, <3>1, SentIsGood
  <2>7. /\ f.msg_index = i /\ f.paused_until = "off"
        /\ f.last_send_index = i /\ f.last_send_msg = e.msg /\ f.next_retrans = t
    BY <2>3, <2>4 DEF Good, CallType
  <2> HIDE DEF f
  <2>8. Ahead(s, i, i)
    <3>1. i \in Nat
      BY <1>1, <1>2
    <3> QED
      BY <3>1 DEF Ahead, Behind
  <2>9. Sought(s, f, f.msg_index) /\ Remembers(s, f)
    BY <2>5, <2>7, <2>8 DEF Sought, Remembers
  <2>10. Passing(s, f, f.msg_index)
    BY <1>1, <1>2, <2>7 DEF Passing
  <2> QED
    BY <1>1, <2>1, <2>6, <2>7, <2>9, <2>10, SeekNext DEF s
<1>12. CASE RecvTimesOut(a)
  <2> DEFINE d == [c EXCEPT !.recv_timeout = "off"]
             label == s[c.msg_index].on_timeout
             e == [d EXCEPT !.msg_index = label]
  <2>1. d.msg_index = c.msg_index /\ c.paused_until = "off"
    BY <1>2, <1>12 DEF CallType, RecvTimesOut, Executes, c
  <2>2. CASE label \in DOMAIN s
    <3>1. Returns(a, e)
      BY <1>12, <2>1, <2>2 DEF RecvTimesOut, s, c
    <3>2. /\ e.msg_index = label /\ e.last_send_msg = c.last_send_msg
          /\ e.recvhash_msgindex_pairs = c.recvhash_msgindex_pairs
          /\ e.last_send_index = c.last_send_index /\ e.next_retrans = c.next_retrans
          /\ e.nb_retrans = c.nb_retrans /\ e.paused_until = "off"
      BY <1>2, <2>1 DEF CallType
    <3>3. label \in Labels(s, c.msg_index)
      BY <2>2 DEF Labels
    <3>4. label > c.msg_index
      BY <1>2, <3>3 DEF Settling, s
    <3> HIDE DEF e, label
    <3>5. label \in Nat /\ c.msg_index < label
      BY <1>1, <1>2, <2>2, <3>4
    <3>6. Ahead(s, c.last_send_index, c.msg_index) => Ahead(s, c.last_send_index, label)
      BY <1>1, <1>2, <3>3, <3>5, AheadNext
    <3>7. Settled(s, c) => Settled(s, e)
      BY <3>2 DEF Settled, Received
    <3>8. Seeking(s, e)
      BY <1>1, <1>2, <3>2, <3>6, <3>7 DEF Seeking, Sought, Remembers, Rested
    <3> QED
      BY <1>3, <3>1, <3>8
  <2>3. CASE label \notin DOMAIN s
    <3>1. abortCall(a, d)
      BY <1>12, <2>1, <2>3 DEF RecvTimesOut, s, c
    <3> QED
      BY <1>4, <3>1
  <2> QED
    BY <2>2, <2>3
<1> QED
  BY <1>5, <1>6, <1>7, <1>8, <1>9, <1>10, <1>11, <1>12 DEF Step, run


(* A message that is found settles what was sent last, or the search has   *)
(* gone past no barrier and what was found does not stop the timer.        *)
LEMMA SeekFound ==
    ASSUME NEW s, NEW n \in Nat, DOMAIN s = 0..n-1, Settling(s),
           NEW c, Good(s, c), Seeking(s, c),
           NEW m \in Messages, NEW i \in DOMAIN s, i >= c.msg_index,
           matches_scenario(s, i, m),
           \A j \in c.msg_index..i : s[j].type = "recv",
           \A j \in c.msg_index..i : s[j].optional \/ matches_scenario(s, j, m),
           NEW d, d.last_send_index = c.last_send_index,
           d.last_send_msg = c.last_send_msg, d.nb_retrans = c.nb_retrans,
           d.next_retrans = next_retrans(c, m, i), Received(d) = Received(c) \cup {m}
    PROVE  Sought(s, d, c.msg_index) /\ Sought(s, d, i) /\ Passing(s, d, i)
<1> DEFINE k == c.last_send_index
           x == c.msg_index
<1>1. k \in DOMAIN s /\ x \in DOMAIN s /\ k \in Nat /\ x \in Nat /\ i \in Nat
  BY DEF Good
<1> SUFFICES ASSUME c.last_send_msg # NoMsg, Hard(s, k), ~Settled(s, d),
                    ~(d.nb_retrans > MaxRetrans)
             PROVE  /\ Ahead(s, k, x) /\ Ahead(s, k, i) /\ d.next_retrans # "off"
                    /\ ~Barrier(s, k, i)
  BY DEF Sought, Passing
<1>2. ~Settles(s[k].msg, m) /\ ~Settled(s, c)
  BY DEF Settled
<1>3. Ahead(s, k, x) /\ c.next_retrans # "off"
  BY <1>2 DEF Seeking, Sought
<1>4. \A j \in x..i : ~Barrier(s, k, j)
  BY <1>2 DEF Barrier, Waited
<1>5. x..i-1 \subseteq x..i /\ i \in x..i /\ x <= i
  BY <1>1
<1>6. Ahead(s, k, i)
  BY <1>1, <1>3, <1>4, <1>5, AheadSearch
<1>7. k < i => ~Stopping(m)
  BY <1>1, <1>2, <1>6 DEF Settling, Ahead
<1>8. d.next_retrans # "off"
  BY <1>1, <1>3, <1>7 DEF next_retrans, Stopping, IsRequest
<1> QED
  BY <1>3, <1>4, <1>5, <1>6, <1>8

(* A new call has sent nothing.                                            *)
LEMMA NewCallSeeks ==
    ASSUME NEW s
    PROVE  Seeking(s, NewCall)
<1>1. NewCall.last_send_msg = NoMsg /\ NewCall.nb_retrans = 0 /\ NewCall.paused_until = "off"
  BY DEF NewCall
<1> QED
  BY <1>1 DEF Seeking, Remembers, Rested, Sought

(* Every step of process_incoming() keeps it.                              *)
LEMMA SeekIncoming ==
    ASSUME IInv, SeekInv, NEW a \in Agent, Settling(Scenario[a]),
           NEW m \in Messages, process_incoming(a, m)
    PROVE  SeekInv'
<1> DEFINE h == Handler(a)
           c == Established(h, m)
           s == Scenario[a]
<1>1. /\ Good(s, h) /\ config \in Configurations /\ config' = config
      /\ DOMAIN s \subseteq Nat /\ DOMAIN s = 0..Size(a)-1 /\ Size(a) \in Nat
  BY HandlerIsGood, ScenarioIsArray DEF process_incoming, IInv
<1>2. Seeking(s, h)
  <2>1. CASE call[a].live
    <3>1. Seeking(s, call[a]) /\ call[a] \in CallType
      BY <2>1, LiveIsGood DEF SeekInv, Good
    <3>2. h = [call[a] EXCEPT !.running = TRUE]
      BY <2>1 DEF Handler
    <3>3. /\ h.msg_index = call[a].msg_index /\ h.last_send_msg = call[a].last_send_msg
          /\ h.recvhash_msgindex_pairs = call[a].recvhash_msgindex_pairs
          /\ h.last_send_index = call[a].last_send_index
          /\ h.next_retrans = call[a].next_retrans
          /\ h.nb_retrans = call[a].nb_retrans /\ h.nb_retrans \in Nat
          /\ h.paused_until = call[a].paused_until
      BY <3>1, <3>2 DEF CallType
    <3>4. h.nb_retrans >= call[a].nb_retrans
      BY <3>3
    <3> HIDE DEF h
    <3> QED
      BY <3>1, <3>3, <3>4, SeekSame
  <2>2. CASE ~call[a].live
    BY <2>2, NewCallSeeks DEF Handler
  <2> QED
    BY <2>1, <2>2
<1>3. ASSUME NEW d, d.msg_index = h.msg_index, d.last_send_msg = h.last_send_msg,
             d.recvhash_msgindex_pairs = h.recvhash_msgindex_pairs,
             d.last_send_index = h.last_send_index, d.next_retrans = h.next_retrans,
             d.nb_retrans = h.nb_retrans, d.paused_until = h.paused_until
      PROVE  Seeking(s, d)
  <2> HIDE DEF h
  <2>1. d.nb_retrans \in Nat /\ d.nb_retrans >= h.nb_retrans
    BY <1>1, <1>3 DEF Good, CallType
  <2> QED
    BY <1>2, <1>3, <2>1, SeekSame
<1> HIDE DEF c, h, s
<1>4. Good(s, c) /\ Seeking(s, c)
  <2>1. /\ c.msg_index = h.msg_index /\ c.last_send_msg = h.last_send_msg
        /\ c.recvhash_msgindex_pairs = h.recvhash_msgindex_pairs
        /\ c.last_send_index = h.last_send_index /\ c.next_retrans = h.next_retrans
        /\ c.nb_retrans = h.nb_retrans /\ c.paused_until = h.paused_until
    BY <1>1 DEF c, Established, Good, CallType
  <2> QED
    BY <1>1, <1>3, <2>1, SendsIsGood DEF c
<1>5. ASSUME NEW d, Returns(a, d), Seeking(s, d) PROVE SeekInv'
  BY <1>1, <1>5, SeekReturns DEF Returns, s
<1>6. ASSUME NEW b, Fails(a, b) PROVE SeekInv'
  BY <1>1, <1>6, SeekDelete DEF Fails
<1>7. CASE ReceiveRetransmission(a, m)
  <2> DEFINE answer == s[h.recv_retrans_send_index].msg
             d == Sends(h, answer)
  <2>1. Returns(a, d) \/ Returns(a, h) \/ Fails(a, FALSE)
    BY <1>7 DEF ReceiveRetransmission, h, s
  <2>2. /\ d.msg_index = h.msg_index /\ d.last_send_msg = h.last_send_msg
        /\ d.recvhash_msgindex_pairs = h.recvhash_msgindex_pairs
        /\ d.last_send_index = h.last_send_index /\ d.next_retrans = h.next_retrans
        /\ d.nb_retrans = h.nb_retrans /\ d.paused_until = h.paused_until
    BY <1>1 DEF Sends, Good, CallType
  <2> HIDE DEF d
  <2> QED
    BY <1>2, <1>3, <1>5, <1>6, <2>1, <2>2
<1>8. CASE ReceiveDuplicate(a, m)
  BY <1>2, <1>5, <1>8 DEF ReceiveDuplicate, h
<1>9. CASE ReceiveExpected(a, m)
  <2> DEFINE i == Min(Found(a, c, m))
             t == next_retrans(c, m, i)
             c2 == [c EXCEPT !.recvhash_msgindex_pairs = @ \cup {<<m, i>>},
                             !.next_retrans = t,
                             !.ack_is_pending = @ \/ m.code \in 200..298]
             c3 == [c2 EXCEPT !.last_recv_index = i,
                              !.last_recv_hash = m,
                              !.last_recv_msg = m]
             n == [c3 EXCEPT !.paused_until = "off", !.msg_index = i]
             o == [c3 EXCEPT !.running = FALSE]
  <2>1. /\ i \in DOMAIN s /\ i >= c.msg_index /\ matches_scenario(s, i, m)
        /\ \A j \in c.msg_index..i : s[j].type = "recv"
        /\ \A j \in c.msg_index..i : s[j].optional \/ matches_scenario(s, j, m)
    BY <1>1, <1>4, <1>9, FoundIsThere DEF ReceiveExpected, c, h, s
  <2>2. t \in Timer
    BY <1>4 DEF next_retrans, Good, CallType, Timer
  <2>3. Returns(a, c2) \/ next(a, n) \/ Returns(a, o)
    BY <1>9 DEF ReceiveExpected, c, h, s
  <2>4. t = next_retrans(c, m, i)
    OBVIOUS
  <2> HIDE DEF i, t
  <2>5. Good(s, c2)
    BY ZenonT(60), <1>1, <1>4, <2>1, <2>2, AcceptedIsGood
  <2>6. /\ c2.recvhash_msgindex_pairs = c.recvhash_msgindex_pairs \cup {<<m, i>>}
        /\ c2.next_retrans = t /\ c2.msg_index = c.msg_index
        /\ c2.last_send_msg = c.last_send_msg /\ c2.last_send_index = c.last_send_index
        /\ c2.nb_retrans = c.nb_retrans /\ c2.paused_until = c.paused_until
    BY <1>4 DEF Good, CallType
  <2> HIDE DEF c2
  <2>7. Received(c2) = Received(c) \cup {m}
    <3>1. c2.recvhash_msgindex_pairs = c.recvhash_msgindex_pairs \cup {<<m, i>>}
      BY <2>6
    <3> DEFINE A == c.recvhash_msgindex_pairs
               q == <<m, i>>
    <3>2. q[1] = m
      OBVIOUS
    <3> HIDE DEF A, q
    <3>3. {p[1] : p \in A \cup {q}} = {p[1] : p \in A} \cup {m}
      BY <3>2
    <3> QED
      BY <3>1, <3>3 DEF Received, A, q
  <2>8. Good(s, c3)
    <3>1. i \in DOMAIN s /\ DOMAIN s \subseteq Nat
      BY <1>1, <2>1
    <3> QED
      BY <2>5, <3>1, LastReceivedIsGood, ZenonT(60)
  <2>9. /\ c3.msg_index = c2.msg_index /\ c3.next_retrans = c2.next_retrans
        /\ c3.recvhash_msgindex_pairs = c2.recvhash_msgindex_pairs
        /\ c3.last_send_msg = c2.last_send_msg /\ c3.last_send_index = c2.last_send_index
        /\ c3.nb_retrans = c2.nb_retrans /\ c3.paused_until = c2.paused_until
    BY <2>5 DEF Good, CallType
  <2> HIDE DEF c3
  <2>10. ASSUME NEW d, d.last_send_index = c2.last_send_index,
                d.last_send_msg = c2.last_send_msg, d.nb_retrans = c2.nb_retrans,
                d.next_retrans = c2.next_retrans,
                d.recvhash_msgindex_pairs = c2.recvhash_msgindex_pairs
         PROVE  /\ Sought(s, d, c.msg_index) /\ Sought(s, d, i) /\ Passing(s, d, i)
                /\ Remembers(s, d)
    <3>1. Received(d) = Received(c) \cup {m}
      BY <2>7, <2>10 DEF Received
    <3>2. Settling(s)
      BY DEF s
    <3>3. Sought(s, d, c.msg_index) /\ Sought(s, d, i) /\ Passing(s, d, i)
      BY <1>1, <1>4, <2>1, <2>4, <2>6, <2>10, <3>1, <3>2, SeekFound
    <3>4. Remembers(s, d)
      BY <1>4, <2>6, <2>10 DEF Seeking, Remembers
    <3> QED
      BY <3>3, <3>4
  <2>11. ASSUME NEW d, d.msg_index = c2.msg_index, d.paused_until = c2.paused_until,
                d.last_send_index = c2.last_send_index,
                d.last_send_msg = c2.last_send_msg, d.nb_retrans = c2.nb_retrans,
                d.next_retrans = c2.next_retrans,
                d.recvhash_msgindex_pairs = c2.recvhash_msgindex_pairs
         PROVE  Seeking(s, d)
    <3>1. Sought(s, d, d.msg_index) /\ Remembers(s, d)
      BY <2>6, <2>10, <2>11
    <3>2. Rested(s, d)
      BY <1>4, <2>6, <2>11 DEF Seeking, Rested
    <3> QED
      BY <3>1, <3>2 DEF Seeking
  <2>12. CASE Returns(a, c2)
    BY <1>5, <2>11, <2>12
  <2>13. CASE next(a, n)
    <3>1. /\ Good(s, n) /\ n.msg_index = i /\ n.next_retrans = c2.next_retrans
          /\ n.recvhash_msgindex_pairs = c2.recvhash_msgindex_pairs
          /\ n.last_send_msg = c2.last_send_msg /\ n.last_send_index = c2.last_send_index
          /\ n.nb_retrans = c2.nb_retrans /\ n.paused_until = "off"
      <4>1. Good(s, n)
        BY <1>1, <2>1, <2>8, IndexIsGood, ZenonT(60), SMTT(40)
      <4>2. /\ n.msg_index = i /\ n.next_retrans = c3.next_retrans
            /\ n.recvhash_msgindex_pairs = c3.recvhash_msgindex_pairs
            /\ n.last_send_msg = c3.last_send_msg
            /\ n.last_send_index = c3.last_send_index
            /\ n.nb_retrans = c3.nb_retrans /\ n.paused_until = "off"
        BY <2>8 DEF Good, CallType
      <4> QED
        BY <2>9, <4>1, <4>2
    <3> HIDE DEF n
    <3>2. Sought(s, n, n.msg_index) /\ Passing(s, n, n.msg_index) /\ Remembers(s, n)
      BY <2>10, <3>1
    <3> QED
      BY <1>1, <2>13, <3>1, <3>2, SeekNext DEF s
  <2>14. CASE Returns(a, o)
    <3>1. /\ o.msg_index = c2.msg_index /\ o.next_retrans = c2.next_retrans
          /\ o.recvhash_msgindex_pairs = c2.recvhash_msgindex_pairs
          /\ o.last_send_msg = c2.last_send_msg /\ o.last_send_index = c2.last_send_index
          /\ o.nb_retrans = c2.nb_retrans /\ o.paused_until = c2.paused_until
      BY <2>8, <2>9 DEF Good, CallType
    <3> HIDE DEF o
    <3> QED
      BY <1>5, <2>11, <2>14, <3>1
  <2> QED
    BY <2>3, <2>12, <2>13, <2>14
<1>10. CASE ReceiveUnexpected(a, m)
  <2>1. Returns(a, c) \/ Fails(a, FALSE) \/ Fails(a, DeadcallWait)
    BY <1>10 DEF ReceiveUnexpected, automaticResponseMode, process_unexpected,
       abortCall, FailsSending, c, h
  <2> QED
    BY <1>4, <1>5, <1>6, <2>1
<1> QED
  BY <1>7, <1>8, <1>9, <1>10 DEF process_incoming

(* The other steps let a timer elapse, or create a call.                   *)
LEMMA SeekOthers ==
    ASSUME IInv, SeekInv, NEW a \in Agent,
           \/ \E timer \in Timers : Elapse(a, timer)
           \/ Originate(a) \/ WakeUp(a) \/ DeadcallExpires(a)
    PROVE  SeekInv'
<1>1. config' = config /\ call[a] \in CallType
  BY DEF Elapse, Originate, WakeUp, DeadcallExpires, IInv, CallsOK
<1>2. ASSUME NEW d, call' = [call EXCEPT ![a] = d], call[a].live,
             d.msg_index = call[a].msg_index, d.last_send_msg = call[a].last_send_msg,
             d.recvhash_msgindex_pairs = call[a].recvhash_msgindex_pairs,
             d.last_send_index = call[a].last_send_index,
             d.nb_retrans = call[a].nb_retrans,
             call[a].next_retrans # "off" => d.next_retrans # "off",
             d.paused_until # "off" => call[a].paused_until # "off"
      PROVE  SeekInv'
  <2>1. Seeking(Scenario[a], call[a])
    BY <1>2 DEF SeekInv
  <2>2. d.nb_retrans \in Nat /\ d.nb_retrans >= call[a].nb_retrans
    BY <1>1, <1>2 DEF CallType
  <2>3. Seeking(Scenario[a], d)
    BY <1>2, <2>1, <2>2, SeekSame
  <2> QED
    BY <1>1, <1>2, <2>3, SeekReturns
<1>3. ASSUME NEW timer \in Timers, Elapse(a, timer) PROVE SeekInv'
  <2> DEFINE d == [call[a] EXCEPT ![timer] = "due"]
  <2>1. call' = [call EXCEPT ![a] = d] /\ call[a].live /\ call[a][timer] = "armed"
    BY <1>3 DEF Elapse
  <2>2. /\ d.msg_index = call[a].msg_index /\ d.last_send_msg = call[a].last_send_msg
        /\ d.recvhash_msgindex_pairs = call[a].recvhash_msgindex_pairs
        /\ d.last_send_index = call[a].last_send_index
        /\ d.nb_retrans = call[a].nb_retrans
    BY <1>1 DEF Timers, CallType
  <2>3. /\ call[a].next_retrans # "off" => d.next_retrans # "off"
        /\ d.paused_until # "off" => call[a].paused_until # "off"
    BY <1>1, <2>1 DEF Timers, CallType
  <2> HIDE DEF d
  <2> QED
    BY <1>2, <2>1, <2>2, <2>3
<1>4. CASE WakeUp(a)
  <2> DEFINE d == [call[a] EXCEPT !.running = TRUE]
  <2>1. call' = [call EXCEPT ![a] = d] /\ call[a].live
    BY <1>4 DEF WakeUp
  <2>2. /\ d.msg_index = call[a].msg_index /\ d.last_send_msg = call[a].last_send_msg
        /\ d.recvhash_msgindex_pairs = call[a].recvhash_msgindex_pairs
        /\ d.last_send_index = call[a].last_send_index
        /\ d.nb_retrans = call[a].nb_retrans
        /\ d.next_retrans = call[a].next_retrans
        /\ d.paused_until = call[a].paused_until
    BY <1>1 DEF CallType
  <2> HIDE DEF d
  <2> QED
    BY <1>2, <2>1, <2>2
<1>5. CASE Originate(a)
  BY <1>1, <1>5, NewCallSeeks, SeekReturns DEF Originate
<1>6. CASE DeadcallExpires(a)
  <2>1. Scenario' = Scenario /\ call' = call
    BY <1>1, <1>6 DEF Scenario, DeadcallExpires
  <2> QED
    BY <2>1 DEF SeekInv
<1> QED
  BY <1>3, <1>4, <1>5, <1>6

(* In such scenarios a message is retransmitted until the call accepts an  *)
(* answer to that message or gives up on it: neither a late or repeated    *)
(* answer to something else nor a message that overtakes the answer stops  *)
(* the timer (process_incoming, executeMessage, next, run).                *)
THEOREM NothingElseStops ==
    ASSUME \A c \in Configurations, a \in Agent : Settling(c.scenario[a])
    PROVE  Spec => []RetransUntilAnswered
<1>1. config \in Configurations => \A a \in Agent : Settling(Scenario[a])
  BY DEF Scenario
<1>2. Init => SeekInv
  BY NewCallIsGood DEF Init, SeekInv
<1>3. IInv /\ SeekInv /\ [Next]_vars => SeekInv'
  <2> SUFFICES ASSUME IInv, SeekInv, [Next]_vars PROVE SeekInv'
    OBVIOUS
  <2>1. CASE UNCHANGED vars
    <3>1. Scenario' = Scenario /\ call' = call
      BY <2>1 DEF Scenario, vars
    <3> QED
      BY <3>1 DEF SeekInv
  <2>2. CASE Next
    <3> PICK a \in Agent :
          \/ Step(a)
          \/ \E m \in Messages : process_incoming(a, m)
          \/ Originate(a)
          \/ \E timer \in Timers : Elapse(a, timer)
          \/ WakeUp(a)
          \/ DeadcallExpires(a)
      BY <2>2 DEF Next
    <3>1. Settling(Scenario[a])
      BY <1>1 DEF IInv
    <3> QED
      BY <3>1, SeekRun, SeekIncoming, SeekOthers
  <2> QED
    BY <2>1, <2>2
<1>4. SeekInv => RetransUntilAnswered
  <2> SUFFICES ASSUME SeekInv, NEW a \in Agent, call[a].live,
                      call[a].last_send_msg # NoMsg,
                      Hard(Scenario[a], call[a].last_send_index),
                      call[a].next_retrans = "off", ~(call[a].nb_retrans > MaxRetrans)
               PROVE  \E p \in call[a].recvhash_msgindex_pairs :
                         Settles(call[a].last_send_msg, p[1])
    BY DEF RetransUntilAnswered
  <2>1. Settled(Scenario[a], call[a]) /\ Remembers(Scenario[a], call[a])
    BY DEF SeekInv, Seeking, Sought
  <2> QED
    BY <2>1 DEF Settled, Received, Remembers
<1> QED
  BY <1>2, <1>3, <1>4, Invariance, PTL DEF Spec

-----------------------------------------------------------------------------
(***************************************************************************)
(* An aborted call respects the answer to its INVITE.                      *)
(***************************************************************************)
(* What is known of a call that has got to position x of its scenario,     *)
(* when S is what its agent has sent.  It remembers what it sent last.     *)
LastSent(s, c, x) ==
    \A k \in DOMAIN s :
       k < x /\ Sending(s, k) /\ (\A j \in k+1..x-1 : ~Sending(s, j))
         => c.last_send_msg = s[k].msg

(* After the 200 the call knows it, no CANCEL is left to send, and the ACK *)
(* was sent or comes before anything else.                                 *)
Confirmed(s, c, S, x) ==
    Answer200 \in Received(c) =>
      /\ c.ack_is_pending \/ c.call_established
      /\ \A k \in DOMAIN s : k >= x /\ Sending(s, k) => s[k].msg # CANCEL
      /\ \/ ACK \in S
         \/ /\ c.last_send_msg = INVITE
            /\ \A k \in DOMAIN s : k >= x /\ Sending(s, k) =>
                 \E j \in x..k : Sending(s, j) /\ s[j].msg = ACK

(* What it repeats was sent.                                               *)
Repeats(s, c, S) ==
    c.recv_retrans_recv_index >= 0 => s[c.recv_retrans_send_index].msg \in S

(* What the scenario sends up to there was sent.                           *)
AllSent(s, S, x) == \A k \in DOMAIN s : k < x /\ Sending(s, k) => s[k].msg \in S

At(s, c, S, x) == /\ LastSent(s, c, x) /\ AllSent(s, S, x)
                  /\ Confirmed(s, c, S, x) /\ Repeats(s, c, S)

(* Only an ACK of its own establishes the call of a client; a call pauses  *)
(* only at a pause.                                                        *)
Client(a, c, S) == a \notin Server /\ c.call_established => ACK \in S
AtPause(s, c) == c.paused_until # "off" => s[c.msg_index].type = "pause"

Sound(a, s, c, S) == /\ At(s, c, S, c.msg_index)
                     /\ Client(a, c, S)
                     /\ AtPause(s, c)

AckInv == /\ \A a \in Agent : call[a].live => Sound(a, Scenario[a], call[a], sent[a])
          /\ \A a \in Agent \cap Server : ACK \notin sent[a]

(* What an agent may have sent in a step.                                  *)
SentMore(a) == /\ sent[a] \subseteq sent'[a]
               /\ \A b \in Agent \ {a} : sent'[b] = sent[b]
               /\ a \in Server => ACK \notin sent'[a]

(* The messages with a meaning of their own differ.                        *)
LEMMA MessagesDiffer ==
    /\ ACK # BYE /\ ACK # CANCEL /\ BYE # CANCEL /\ ACK # INVITE
    /\ \A method : Msg(200, method) \notin {ACK, BYE, CANCEL}
    /\ ACK # Answer200 /\ Answer200.code = 200
<1>1. "ACK" # "BYE" /\ "ACK" # "CANCEL" /\ "BYE" # "CANCEL" /\ "ACK" # "INVITE"
  OBVIOUS
<1>2. /\ ACK.method = "ACK" /\ BYE.method = "BYE" /\ CANCEL.method = "CANCEL"
      /\ INVITE.method = "INVITE"
      /\ ACK.code = 0 /\ BYE.code = 0 /\ CANCEL.code = 0
      /\ \A method : Msg(200, method).code = 200
  BY DEF ACK, BYE, CANCEL, INVITE, Msg
<1>3. \A method : Msg(200, method) \notin {ACK, BYE, CANCEL}
  BY <1>2
<1>4. Answer200.code = 200
  BY <1>2 DEF Answer200
<1> QED
  BY <1>1, <1>2, <1>3, <1>4

(* The same call, further on, with nothing to send on the way.             *)
Alike(c, d) ==
    /\ d.last_send_msg = c.last_send_msg
    /\ d.recvhash_msgindex_pairs = c.recvhash_msgindex_pairs
    /\ d.ack_is_pending = c.ack_is_pending
    /\ d.call_established = c.call_established
    /\ d.recv_retrans_recv_index = c.recv_retrans_recv_index
    /\ d.recv_retrans_send_index = c.recv_retrans_send_index

(* Nothing changes until the next message that is sent.                    *)
LEMMA AtAdvances ==
    ASSUME NEW s, DOMAIN s \subseteq Nat, NEW c, NEW d, Alike(c, d),
           NEW S, NEW T, S \subseteq T, NEW x \in Nat, NEW y \in Nat, x <= y,
           \A j \in x..y-1 : ~Sending(s, j), At(s, c, S, x)
    PROVE  At(s, d, T, y)
<1>1. Received(d) = Received(c)
  BY DEF Alike, Received
<1>2. LastSent(s, d, y)
  <2> SUFFICES ASSUME NEW k \in DOMAIN s, k < y, Sending(s, k),
                      \A j \in k+1..y-1 : ~Sending(s, j)
               PROVE  d.last_send_msg = s[k].msg
    BY DEF LastSent
  <2>1. k \in Nat /\ k < x
    <3>1. k \in Nat
      OBVIOUS
    <3>2. k \notin x..y-1
      OBVIOUS
    <3> QED
      BY <3>1, <3>2
  <2>2. \A j \in k+1..x-1 : ~Sending(s, j)
    BY <2>1
  <2> QED
    BY <2>1, <2>2 DEF At, LastSent, Alike
<1>3. Confirmed(s, d, T, y)
  <2> SUFFICES ASSUME Answer200 \in Received(c)
               PROVE  /\ d.ack_is_pending \/ d.call_established
                      /\ \A k \in DOMAIN s : k >= y /\ Sending(s, k) => s[k].msg # CANCEL
                      /\ \/ ACK \in T
                         \/ /\ d.last_send_msg = INVITE
                            /\ \A k \in DOMAIN s : k >= y /\ Sending(s, k) =>
                                 \E j \in y..k : Sending(s, j) /\ s[j].msg = ACK
    BY <1>1 DEF Confirmed
  <2>1. d.ack_is_pending \/ d.call_established
    BY DEF At, Confirmed, Alike
  <2>2. ASSUME NEW k \in DOMAIN s, k >= y, Sending(s, k) PROVE s[k].msg # CANCEL
    <3>1. k >= x
      BY <2>2
    <3> QED
      BY <2>2, <3>1 DEF At, Confirmed
  <2>3. CASE ACK \in S
    BY <2>1, <2>2, <2>3
  <2>4. CASE ACK \notin S
    <3>1. d.last_send_msg = INVITE
      BY <2>4 DEF At, Confirmed, Alike
    <3>2. ASSUME NEW k \in DOMAIN s, k >= y, Sending(s, k)
          PROVE  \E j \in y..k : Sending(s, j) /\ s[j].msg = ACK
      <4>1. k \in Nat /\ k >= x
        BY <3>2
      <4>2. PICK j \in x..k : Sending(s, j) /\ s[j].msg = ACK
        BY <2>4, <3>2, <4>1 DEF At, Confirmed
      <4>3. j \in y..k
        BY <4>1, <4>2
      <4> QED
        BY <4>2, <4>3
    <3> QED
      BY <2>1, <2>2, <3>1, <3>2
  <2> QED
    BY <2>3, <2>4
<1>4. AllSent(s, T, y)
  <2> SUFFICES ASSUME NEW k \in DOMAIN s, k < y, Sending(s, k) PROVE s[k].msg \in T
    BY DEF AllSent
  <2>1. k \in Nat /\ k \notin x..y-1
    OBVIOUS
  <2>2. k < x
    BY <2>1
  <2> QED
    BY <2>2 DEF At, AllSent
<1>5. Repeats(s, d, T)
  BY DEF At, Repeats, Alike
<1> QED
  BY <1>2, <1>3, <1>4, <1>5 DEF At

(* How the handlers leave the call, again.                                 *)
LEMMA AckReturns ==
    ASSUME IInv, AckInv, NEW a \in Agent, config' = config, SentMore(a),
           NEW c, call' = [call EXCEPT ![a] = c],
           c.live => Sound(a, Scenario[a], c, sent'[a])
    PROVE  AckInv'
<1>1. Scenario' = Scenario
  BY DEF Scenario
<1>2. call'[a] = c /\ \A b \in Agent \ {a} : call'[b] = call[b]
  BY DEF IInv, CallsOK
<1>3. ASSUME NEW b \in Agent, call'[b].live
      PROVE  Sound(b, Scenario[b], call'[b], sent'[b])
  BY <1>2, <1>3 DEF AckInv, SentMore
<1>4. \A b \in Agent \cap Server : ACK \notin sent'[b]
  BY DEF AckInv, SentMore
<1> QED
  BY <1>1, <1>3, <1>4 DEF AckInv

(* A deleted call is sound.                                                *)
LEMMA AckDelete ==
    ASSUME IInv, AckInv, NEW a \in Agent, config' = config, SentMore(a),
           NEW b, Delete(a, b)
    PROVE  AckInv'
BY AckReturns, NewCallIsGood DEF Delete

(* The call goes on to the next message.                                   *)
LEMMA AckNext ==
    ASSUME IInv, AckInv, NEW a \in Agent, config' = config, SentMore(a),
           Acknowledging(Scenario[a]),
           NEW c, Good(Scenario[a], c), At(Scenario[a], c, sent'[a], c.msg_index + 1),
           Client(a, c, sent'[a]), c.paused_until = "off", next(a, c)
    PROVE  AckInv'
<1> DEFINE s == Scenario[a]
           i == NextIndex(s[c.msg_index], c.msg_index)
           d == [c EXCEPT !.msg_index = i, !.recv_timeout = "off"]
<1>1. c.msg_index \in DOMAIN s /\ DOMAIN s \subseteq Nat
  BY ScenarioIsArray DEF IInv, Good
<1>2. i = c.msg_index + 1 /\ i \in Nat
  BY <1>1 DEF Acknowledging, NextIndex
<1> HIDE DEF i
<1>3. CASE i >= Size(a)
  BY <1>3, AckDelete DEF next, terminate, i
<1>4. CASE ~(i >= Size(a))
  <2>1. RunsOn(a, d)
    BY <1>4 DEF next, i
  <2>2. Alike(c, d) /\ d.msg_index = i /\ d.paused_until = "off"
    BY DEF Good, CallType, Alike
  <2> HIDE DEF d
  <2>3. At(s, d, sent'[a], i)
    <3>1. (\A j \in i..i-1 : ~Sending(s, j)) /\ i <= i
      BY <1>2
    <3>2. At(s, c, sent'[a], i)
      BY <1>2
    <3> QED
      BY <1>1, <1>2, <2>2, <3>1, <3>2, AtAdvances
  <2>4. Client(a, d, sent'[a])
    BY <2>2 DEF Client, Alike
  <2> QED
    BY <2>1, <2>2, <2>3, <2>4, AckReturns DEF RunsOn, Sound, AtPause
<1> QED
  BY <1>3, <1>4

(* A call that is left as it was is as sound as it was.                    *)
LEMMA SoundAlike ==
    ASSUME NEW a, NEW s, DOMAIN s \subseteq Nat, NEW c, NEW d, NEW S, NEW T, S \subseteq T,
           Sound(a, s, c, S), Alike(c, d), d.msg_index = c.msg_index, c.msg_index \in Nat,
           AtPause(s, d)
    PROVE  Sound(a, s, d, T)
<1>1. \A j \in c.msg_index..c.msg_index-1 : ~Sending(s, j)
  OBVIOUS
<1>2. At(s, d, T, d.msg_index)
  BY <1>1, AtAdvances DEF Sound
<1>3. Client(a, d, T)
  BY DEF Sound, Client, Alike
<1> QED
  BY <1>2, <1>3 DEF Sound

(* An agent that sends some messages; a server never aborts with one.      *)
LEMMA SendingMore ==
    ASSUME IInv, AckInv, NEW a \in Agent, NEW ms, a \in Server => ACK \notin ms,
           sent' = [sent EXCEPT ![a] = @ \cup ms]
    PROVE  SentMore(a) /\ sent'[a] = sent[a] \cup ms
BY DEF IInv, AckInv, SentMore

(* An agent that sends nothing.                                            *)
LEMMA SendingNothing ==
    ASSUME IInv, AckInv, NEW a \in Agent, UNCHANGED sent
    PROVE  SentMore(a)
BY DEF AckInv, SentMore

(* A call that fails while it sends,                                       *)
LEMMA AckFails ==
    ASSUME IInv, AckInv, NEW a \in Agent, config' = config, NEW ms,
           a \in Server => ACK \notin ms, NEW b, FailsSending(a, ms, b)
    PROVE  AckInv'
<1>1. Delete(a, b)
  BY DEF FailsSending, Fails
<1>2. SentMore(a)
  BY SendingMore, SendingNothing DEF FailsSending
<1> QED
  BY <1>1, <1>2, AckDelete

(* or that is aborted.                                                     *)
LEMMA AckAbort ==
    ASSUME IInv, AckInv, NEW a \in Agent, config' = config, NEW c, abortCall(a, c)
    PROVE  AckInv'
<1>1. a \in Server => ACK \notin AbortMessages(a, c)
  BY DEF AbortMessages
<1> QED
  BY <1>1, AckFails DEF abortCall

(* Sending message i of the scenario.                                      *)
LEMMA SendingIsSound ==
    ASSUME NEW s, DOMAIN s \subseteq Nat, NEW i \in DOMAIN s, Sending(s, i), NEW a,
           NEW c, c \in CallType, NEW S, NEW T, S \subseteq T, s[i].msg \in T,
           At(s, c, S, i), Client(a, c, S),
           NEW f, f.last_send_msg = s[i].msg,
           f.recvhash_msgindex_pairs = c.recvhash_msgindex_pairs,
           f.ack_is_pending = Sends(c, s[i].msg).ack_is_pending,
           f.call_established = Sends(c, s[i].msg).call_established,
           f.recv_retrans_recv_index = AnswerTo(Sends(c, s[i].msg), i).recv_retrans_recv_index,
           f.recv_retrans_send_index = AnswerTo(Sends(c, s[i].msg), i).recv_retrans_send_index
    PROVE  At(s, f, T, i + 1) /\ Client(a, f, T)
<1> DEFINE m == s[i].msg
           d == Sends(c, m)
<1>1. Received(f) = Received(c) /\ i \in Nat
  BY DEF Received
<1>2. /\ d.call_established = (m = ACK \/ c.call_established)
      /\ m # ACK => d.ack_is_pending = c.ack_is_pending
      /\ d.recv_retrans_recv_index = c.recv_retrans_recv_index
      /\ d.recv_retrans_send_index = c.recv_retrans_send_index
      /\ d \in CallType
  <2>1. CASE m = ACK
    BY <2>1 DEF Sends, CallType
  <2>2. CASE m # ACK
    BY <2>2 DEF Sends, CallType
  <2> QED
    BY <2>1, <2>2
<1> HIDE DEF d
<1>3. LastSent(s, f, i + 1)
  <2> SUFFICES ASSUME NEW k \in DOMAIN s, k < i + 1, Sending(s, k),
                      \A j \in k+1..i : ~Sending(s, j)
               PROVE  f.last_send_msg = s[k].msg
    BY <1>1 DEF LastSent
  <2>1. k = i
    <3>1. k \in Nat /\ i \notin k+1..i
      OBVIOUS
    <3> QED
      BY <1>1, <3>1
  <2> QED
    BY <2>1
<1>4. Confirmed(s, f, T, i + 1)
  <2> SUFFICES ASSUME Answer200 \in Received(c)
               PROVE  /\ f.ack_is_pending \/ f.call_established
                      /\ \A k \in DOMAIN s : k >= i + 1 /\ Sending(s, k) => s[k].msg # CANCEL
                      /\ ACK \in T
    BY <1>1 DEF Confirmed
  <2>1. f.ack_is_pending \/ f.call_established
    BY <1>2 DEF d, At, Confirmed
  <2>2. ASSUME NEW k \in DOMAIN s, k >= i + 1, Sending(s, k) PROVE s[k].msg # CANCEL
    <3>1. k >= i
      BY <1>1, <2>2
    <3> QED
      BY <2>2, <3>1 DEF At, Confirmed
  <2>3. ACK \in T
    <3>1. CASE ACK \in S
      BY <3>1
    <3>2. CASE ACK \notin S
      <4>1. \E j \in i..i : s[j].msg = ACK
        BY <1>1, <3>2 DEF At, Confirmed
      <4>2. m = ACK
        BY <1>1, <4>1
      <4> QED
        BY <4>2
    <3> QED
      BY <3>1, <3>2
  <2> QED
    BY <2>1, <2>2, <2>3
<1>5. Repeats(s, f, T)
  <2>1. CASE d.last_recv_index < 0
    BY <1>2, <2>1 DEF AnswerTo, d, At, Repeats
  <2>2. CASE ~(d.last_recv_index < 0)
    <3>1. f.recv_retrans_send_index = i
      BY <1>2, <2>2 DEF AnswerTo, d, CallType
    <3> QED
      BY <3>1 DEF Repeats
  <2> QED
    BY <2>1, <2>2
<1>6. Client(a, f, T)
  BY <1>2 DEF Client, d
<1>7. AllSent(s, T, i + 1)
  <2> SUFFICES ASSUME NEW k \in DOMAIN s, k < i + 1, Sending(s, k) PROVE s[k].msg \in T
    BY DEF AllSent
  <2>1. k = i \/ k < i
    BY <1>1
  <2> QED
    BY <2>1 DEF At, AllSent
<1> QED
  BY <1>3, <1>4, <1>5, <1>6, <1>7 DEF At

(* Every step of run() keeps the invariant.                                *)
LEMMA AckRun ==
    ASSUME IInv, AckInv, NEW a \in Agent, Acknowledging(Scenario[a]), Roles, Step(a)
    PROVE  AckInv'
<1> DEFINE c == call[a]
           s == Scenario[a]
           S == sent[a]
<1>1. /\ Good(s, c) /\ c.live /\ Sound(a, s, c, S) /\ config' = config
      /\ config \in Configurations /\ DOMAIN s \subseteq Nat
  BY LiveIsGood, ScenarioIsArray DEF Step, run, Retransmit, GiveUp, StaysPaused, PauseEnds,
     ExecutePause, SendWaits, SendIsCongested, SendTimesOut, SendFails,
     ExecuteSend, ExecuteRecv, RecvTimesOut, Executes, Steps, Runs, IInv, AckInv
<1>2. /\ c \in CallType /\ c.msg_index \in DOMAIN s /\ c.msg_index \in Nat
      /\ c.last_send_index \in DOMAIN s
  BY <1>1 DEF Good
<1>3. \A i \in DOMAIN s : s[i].on_timeout \notin DOMAIN s
  BY <1>1 DEF Acknowledging
<1> HIDE DEF c, s, S
<1>4. ASSUME NEW d, Returns(a, d) \/ RunsOn(a, d), Alike(c, d),
             d.msg_index = c.msg_index, AtPause(s, d), UNCHANGED sent
      PROVE AckInv'
  <2>1. Sound(a, s, d, S)
    BY <1>1, <1>2, <1>4, SoundAlike
  <2>2. SentMore(a) /\ sent'[a] = S
    BY <1>4, SendingNothing DEF S
  <2> QED
    BY <1>1, <1>4, <2>1, <2>2, AckReturns DEF Returns, RunsOn, s
<1>5. ASSUME NEW d, abortCall(a, d) PROVE AckInv'
  BY <1>1, <1>5, AckAbort
<1>6. CASE Retransmit(a)
  <2> DEFINE d == [c EXCEPT !.next_retrans = "armed", !.nb_retrans = @ + 1]
  <2>1. UNCHANGED sent
    BY <1>6 DEF Retransmit
  <2>2. CASE RunsOn(a, d)
    <3>1. Alike(c, d) /\ d.msg_index = c.msg_index /\ d.paused_until = c.paused_until
      BY <1>2 DEF CallType, Alike
    <3> HIDE DEF d
    <3> QED
      BY <1>1, <1>4, <2>1, <2>2, <3>1 DEF Sound, AtPause
  <2>3. CASE Fails(a, FALSE)
    BY <1>1, <2>1, <2>3, AckDelete, SendingNothing DEF Fails
  <2> QED
    BY <1>6, <2>2, <2>3 DEF Retransmit, c
<1>7. CASE GiveUp(a)
  <2>1. abortCall(a, [c EXCEPT !.nb_retrans = @ + 1])
    BY <1>2, <1>3, <1>7 DEF GiveUp, s, c
  <2> QED
    BY <1>5, <2>1
<1>8. CASE \/ StaysPaused(a) \/ SendWaits(a) \/ SendIsCongested(a) \/ ExecuteRecv(a)
  <2>1. PICK d : /\ Returns(a, d)
                 /\ \/ d = [c EXCEPT !.running = FALSE]
                    \/ d = c
                    \/ d = [c EXCEPT !.send_timeout = "armed"]
                    \/ d = [c EXCEPT !.recv_timeout = "armed"]
    BY <1>8 DEF StaysPaused, SendWaits, SendIsCongested, ExecuteRecv, c
  <2>2. UNCHANGED sent
    BY <1>8 DEF StaysPaused, SendWaits, SendIsCongested, ExecuteRecv
  <2>3. Alike(c, d) /\ d.msg_index = c.msg_index /\ d.paused_until = c.paused_until
    BY <1>2, <2>1 DEF CallType, Alike
  <2> QED
    BY <1>1, <1>4, <2>1, <2>2, <2>3 DEF Sound, AtPause
<1>9. CASE ExecutePause(a)
  <2> DEFINE d == [c EXCEPT !.paused_until = "armed", !.running = FALSE]
  <2>1. Returns(a, d) /\ s[c.msg_index].type = "pause" /\ UNCHANGED sent
    BY <1>9 DEF ExecutePause, Executes, c, s
  <2>2. Alike(c, d) /\ d.msg_index = c.msg_index
    BY <1>2 DEF CallType, Alike
  <2> HIDE DEF d
  <2> QED
    BY <1>4, <2>1, <2>2 DEF AtPause
<1>10. CASE PauseEnds(a)
  <2> DEFINE d == [c EXCEPT !.paused_until = "off"]
  <2>1. next(a, d) /\ c.paused_until = "due" /\ UNCHANGED sent
    BY <1>10 DEF PauseEnds, c
  <2>2. Alike(c, d) /\ d.msg_index = c.msg_index /\ d.paused_until = "off"
    BY <1>2 DEF CallType, Alike
  <2>3. Good(s, d)
    BY <1>1, TimersAreGood DEF Timer
  <2> HIDE DEF d
  <2>4. ~Sending(s, c.msg_index)
    BY <1>1, <2>1 DEF Sound, AtPause, Sending
  <2>5. /\ \A j \in c.msg_index..(c.msg_index + 1) - 1 : ~Sending(s, j)
        /\ c.msg_index + 1 \in Nat /\ c.msg_index <= c.msg_index + 1
    BY <1>2, <2>4
  <2>6. At(s, d, S, c.msg_index + 1)
    BY <1>1, <1>2, <2>2, <2>5, AtAdvances DEF Sound
  <2>7. SentMore(a) /\ sent'[a] = S
    BY <2>1, SendingNothing DEF S
  <2>8. Client(a, d, S)
    BY <1>1, <2>2 DEF Sound, Client, Alike
  <2> QED
    BY <1>1, <2>1, <2>2, <2>3, <2>6, <2>7, <2>8, AckNext DEF s
<1>11. CASE SendTimesOut(a)
  BY <1>5, <1>11 DEF SendTimesOut
<1>12. CASE SendFails(a)
  BY <1>1, <1>12, AckDelete, SendingNothing DEF SendFails, Fails
<1>13. CASE ExecuteSend(a)
  <2> DEFINE i == c.msg_index
             e == s[i]
             d == AnswerTo(Sends(c, e.msg), i)
             t == IF e.retrans THEN "armed" ELSE "off"
             n == IF e.retrans THEN 0 ELSE d.nb_retrans
             f == [d EXCEPT !.send_timeout = "off",
                            !.last_send_index = i,
                            !.last_send_msg = e.msg,
                            !.next_retrans = t,
                            !.nb_retrans = n]
  <2>1. /\ next(a, f) /\ Sending(s, i) /\ c.paused_until = "off"
        /\ sent' = [sent EXCEPT ![a] = @ \cup {e.msg}]
    BY <1>13 DEF ExecuteSend, Executes, c, s, Sending
  <2>2. e.msg \in Messages
    BY <1>1, <1>2, MessagesOf DEF s
  <2>3. Good(s, d)
    BY <1>1, <1>2, SendsIsGood, AnswerIsGood
  <2>4. /\ d.msg_index = i /\ d.recvhash_msgindex_pairs = c.recvhash_msgindex_pairs
        /\ d.paused_until = "off"
        /\ d.ack_is_pending = Sends(c, e.msg).ack_is_pending
        /\ d.call_established = Sends(c, e.msg).call_established
    <3>1. Sends(c, e.msg) \in CallType
      BY <1>1, SendsIsGood DEF Good
    <3>2. /\ Sends(c, e.msg).msg_index = i /\ Sends(c, e.msg).paused_until = "off"
          /\ Sends(c, e.msg).recvhash_msgindex_pairs = c.recvhash_msgindex_pairs
      BY <1>2, <2>1 DEF Sends, CallType
    <3> QED
      BY <3>1, <3>2 DEF AnswerTo, CallType
  <2>5. t \in Timer /\ n \in Nat
    BY <2>3 DEF Good, CallType, Timer
  <2>6. SentMore(a) /\ sent'[a] = S \cup {e.msg}
    <3>1. a \in Server => e.msg # ACK
      BY <1>1, <1>2, <2>1 DEF Roles, s, Scenario
    <3> QED
      BY <2>1, <3>1, SendingMore DEF S
  <2> HIDE DEF d, t, n, e
  <2>7. Good(s, f)
    BY <1>1, <1>2, <2>2, <2>3, <2>5, SentIsGood
  <2>8. /\ f.msg_index = i /\ f.recvhash_msgindex_pairs = c.recvhash_msgindex_pairs
        /\ f.last_send_msg = e.msg /\ f.paused_until = "off"
        /\ f.ack_is_pending = d.ack_is_pending
        /\ f.call_established = d.call_established
        /\ f.recv_retrans_recv_index = d.recv_retrans_recv_index
        /\ f.recv_retrans_send_index = d.recv_retrans_send_index
    BY <2>3, <2>4 DEF Good, CallType
  <2> HIDE DEF f
  <2>9. At(s, f, sent'[a], i + 1) /\ Client(a, f, sent'[a])
    <3>1. S \subseteq sent'[a] /\ e.msg \in sent'[a]
      BY <2>6
    <3>2. At(s, c, S, i) /\ Client(a, c, S)
      BY <1>1 DEF Sound
    <3> QED
      BY ZenonT(60), <1>1, <1>2, <2>1, <2>4, <2>8, <3>1, <3>2, SendingIsSound DEF e, d
  <2> QED
    BY <1>1, <2>1, <2>6, <2>7, <2>8, <2>9, AckNext DEF s
<1>14. CASE RecvTimesOut(a)
  <2> DEFINE d == [c EXCEPT !.recv_timeout = "off"]
  <2>1. d.msg_index = c.msg_index
    BY <1>2 DEF CallType
  <2>2. abortCall(a, d)
    BY <1>2, <1>3, <1>14, <2>1 DEF RecvTimesOut, s, c
  <2> QED
    BY <1>5, <2>2
<1> QED
  BY <1>6, <1>7, <1>8, <1>9, <1>10, <1>11, <1>12, <1>13, <1>14 DEF Step, run

(* A call that knows at least as much of the ACK is as far as it was.      *)
LEMMA AtEstablished ==
    ASSUME NEW s, NEW c, NEW S, NEW x, At(s, c, S, x), NEW d,
           d.last_send_msg = c.last_send_msg,
           d.recvhash_msgindex_pairs = c.recvhash_msgindex_pairs,
           d.recv_retrans_recv_index = c.recv_retrans_recv_index,
           d.recv_retrans_send_index = c.recv_retrans_send_index,
           c.ack_is_pending \/ c.call_established => d.ack_is_pending \/ d.call_established
    PROVE  At(s, d, S, x)
<1>1. Received(d) = Received(c)
  BY DEF Received
<1> QED
  BY <1>1 DEF At, LastSent, Confirmed, Repeats

(* The call accepts a message it was looking for: when that is the 200 of  *)
(* the INVITE, the INVITE is the last it sent.                             *)
LEMMA AtAccepts ==
    ASSUME NEW s, DOMAIN s \subseteq Nat, Acknowledging(s), NEW c, NEW S,
           NEW x \in Nat, At(s, c, S, x), NEW m,
           NEW i \in DOMAIN s, i >= x, matches_scenario(s, i, m),
           \A j \in x..i : ~Sending(s, j),
           NEW d, Received(d) = Received(c) \cup {m},
           d.last_send_msg = c.last_send_msg, d.call_established = c.call_established,
           d.recv_retrans_recv_index = c.recv_retrans_recv_index,
           d.recv_retrans_send_index = c.recv_retrans_send_index,
           d.ack_is_pending = (c.ack_is_pending \/ m.code \in 200..298)
    PROVE  At(s, d, S, x)
<1>1. LastSent(s, d, x) /\ AllSent(s, S, x) /\ Repeats(s, d, S)
  BY DEF At, LastSent, Repeats
<1>2. CASE m = Answer200
  <2>1. 200 \in 200..298
    OBVIOUS
  <2>2. d.ack_is_pending
    BY <1>2, <2>1, MessagesDiffer
  <2>3. ASSUME NEW k \in DOMAIN s, Sending(s, k)
        PROVE  k \in Nat /\ i \in Nat /\ (k < i => k < x) /\ (k >= x => k > i)
    <3>1. k \in Nat /\ i \in Nat /\ k \notin x..i
      BY <2>3
    <3> QED
      BY <3>1
  <2>4. \A k \in DOMAIN s : k >= x /\ Sending(s, k) => s[k].msg # CANCEL
    BY <1>2, <2>3 DEF Acknowledging
  <2>5. CASE \E k \in DOMAIN s : k < i /\ Sending(s, k) /\ s[k].msg = ACK
    <3>1. ACK \in S
      BY <1>1, <2>3, <2>5 DEF AllSent
    <3> QED
      BY <1>1, <2>2, <2>4, <3>1 DEF At, Confirmed
  <2>6. CASE ~\E k \in DOMAIN s : k < i /\ Sending(s, k) /\ s[k].msg = ACK
    <3>1. d.last_send_msg = INVITE
      <4>1. PICK k \in DOMAIN s : /\ k < i /\ Sending(s, k) /\ s[k].msg = INVITE
                                  /\ \A j \in k+1..i-1 : ~Sending(s, j)
        BY <1>2, <2>6 DEF Acknowledging
      <4>2. k < x /\ k \in Nat /\ i \in Nat
        BY <2>3, <4>1
      <4>3. \A j \in k+1..x-1 : ~Sending(s, j)
        BY <4>1, <4>2
      <4> QED
        BY <1>1, <4>1, <4>2, <4>3 DEF LastSent
    <3>2. ASSUME NEW k \in DOMAIN s, k >= x, Sending(s, k)
          PROVE  \E j \in x..k : Sending(s, j) /\ s[j].msg = ACK
      <4>1. k > i /\ k \in Nat /\ i \in Nat
        BY <2>3, <3>2
      <4>2. PICK j \in i+1..k : Sending(s, j) /\ s[j].msg = ACK
        BY <1>2, <2>6, <3>2, <4>1 DEF Acknowledging
      <4>3. j \in x..k
        BY <4>1, <4>2
      <4> QED
        BY <4>2, <4>3
    <3> QED
      BY <1>1, <2>2, <2>4, <3>1, <3>2 DEF At, Confirmed
  <2> QED
    BY <2>5, <2>6
<1>3. CASE m # Answer200
  <2>1. Answer200 \in Received(d) => Answer200 \in Received(c)
    BY <1>3
  <2>2. Confirmed(s, d, S, x)
    BY <2>1 DEF At, Confirmed
  <2> QED
    BY <1>1, <2>2 DEF At
<1> QED
  BY <1>2, <1>3

(* A message comes to a call.                                              *)
LEMMA AckIncoming ==
    ASSUME IInv, AckInv, ~undefined, NEW a \in Agent, Acknowledging(Scenario[a]), Roles,
           NEW m \in Messages, process_incoming(a, m)
    PROVE  AckInv'
<1> DEFINE h == Handler(a)
           c == Established(h, m)
           s == Scenario[a]
           S == sent[a]
<1>1. /\ Good(s, h) /\ config \in Configurations /\ config' = config
      /\ DOMAIN s \subseteq Nat
  BY HandlerIsGood, ScenarioIsArray DEF process_incoming, IInv
<1>2. Sound(a, s, h, S)
  <2>1. CASE call[a].live
    <3>1. Good(s, call[a]) /\ Sound(a, s, call[a], S)
      BY <2>1, LiveIsGood DEF AckInv
    <3>2. h = [call[a] EXCEPT !.running = TRUE]
      BY <2>1 DEF Handler
    <3>3. /\ Alike(call[a], h) /\ h.msg_index = call[a].msg_index
          /\ h.paused_until = call[a].paused_until /\ call[a].msg_index \in Nat
      BY <3>1, <3>2 DEF Good, CallType, Alike
    <3> HIDE DEF h
    <3>4. AtPause(s, h)
      BY <3>1, <3>3 DEF Sound, AtPause
    <3> QED
      BY <1>1, <3>1, <3>3, <3>4, SoundAlike
  <2>2. CASE ~call[a].live
    <3>1. h = NewCall
      BY <2>2 DEF Handler
    <3>2. /\ NewCall.recvhash_msgindex_pairs = {} /\ NewCall.msg_index = 0
          /\ NewCall.recv_retrans_recv_index = -1 /\ NewCall.paused_until = "off"
          /\ NewCall.call_established = FALSE
      BY DEF NewCall
    <3>3. Received(NewCall) = {}
      BY <3>2 DEF Received
    <3>4. At(s, NewCall, S, 0)
      BY <1>1, <3>2, <3>3 DEF At, LastSent, AllSent, Confirmed, Repeats
    <3> HIDE DEF h
    <3> QED
      BY <3>1, <3>2, <3>4 DEF Sound, Client, AtPause
  <2> QED
    BY <2>1, <2>2
<1> HIDE DEF c, h, s, S
<1>3. /\ Good(s, c) /\ c.msg_index = h.msg_index /\ c.paused_until = h.paused_until
      /\ c.msg_index \in Nat /\ c.msg_index \in DOMAIN s
  <2>1. Good(s, c)
    BY <1>1, SendsIsGood DEF c
  <2> QED
    BY <1>1, <2>1 DEF c, Established, Good, CallType
<1>4. ASSUME Arrives(a, m) PROVE Sound(a, s, c, S)
  <2>1. CASE m = ACK
    <3>1. c = [h EXCEPT !.call_established = TRUE]
      BY <2>1 DEF c, Established
    <3>2. /\ c.call_established /\ c.last_send_msg = h.last_send_msg
          /\ c.recvhash_msgindex_pairs = h.recvhash_msgindex_pairs
          /\ c.recv_retrans_recv_index = h.recv_retrans_recv_index
          /\ c.recv_retrans_send_index = h.recv_retrans_send_index
      BY <1>1, <3>1 DEF Good, CallType
    <3>3. At(s, c, S, c.msg_index)
      BY <1>2, <1>3, <3>2, AtEstablished DEF Sound
    <3>4. a \in Server
      <4>1. ACK \in sent[Peer[a]] /\ Peer[a] \in Agent
        BY <1>4, <2>1, CallAssumption DEF Arrives
      <4> QED
        BY <4>1 DEF AckInv, Roles
    <3> QED
      BY <1>2, <1>3, <3>3, <3>4 DEF Sound, Client, AtPause
  <2>2. CASE m # ACK
    BY <1>2, <2>2 DEF c, Established
  <2> QED
    BY <2>1, <2>2
<1>5. ASSUME NEW d, Returns(a, d), Sound(a, s, d, S), SentMore(a), sent'[a] = S
      PROVE  AckInv'
  BY <1>1, <1>5, AckReturns DEF Returns, s
<1>6. UNCHANGED sent => SentMore(a) /\ sent'[a] = S
  BY SendingNothing DEF S
<1>7. CASE ReceiveRetransmission(a, m)
  <2> DEFINE answer == s[h.recv_retrans_send_index].msg
             d == Sends(h, answer)
  <2>1. /\ h.recv_retrans_recv_index >= 0
        /\ \/ Returns(a, d) /\ sent' = [sent EXCEPT ![a] = @ \cup {answer}]
           \/ Returns(a, h) /\ UNCHANGED sent
           \/ Fails(a, FALSE) /\ UNCHANGED sent
    BY <1>7 DEF ReceiveRetransmission, IsRetransmission, h, s
  <2> HIDE DEF answer
  <2>2. answer \in S
    BY <1>2, <2>1 DEF Sound, At, Repeats, answer
  <2>3. CASE Returns(a, d) /\ sent' = [sent EXCEPT ![a] = @ \cup {answer}]
    <3>1. a \in Server => ACK \notin {answer}
      BY <2>2 DEF AckInv, S
    <3>2. SentMore(a) /\ sent'[a] = S \cup {answer}
      BY <2>3, <3>1, SendingMore DEF S
    <3>3. sent'[a] = S
      BY <2>2, <3>2
    <3>4. Sound(a, s, d, S)
      <4>1. CASE answer = ACK
        <5>1. d = [h EXCEPT !.call_established = TRUE, !.ack_is_pending = FALSE]
          BY <4>1 DEF Sends
        <5>2. /\ d.call_established /\ d.last_send_msg = h.last_send_msg
              /\ d.recvhash_msgindex_pairs = h.recvhash_msgindex_pairs
              /\ d.recv_retrans_recv_index = h.recv_retrans_recv_index
              /\ d.recv_retrans_send_index = h.recv_retrans_send_index
              /\ d.msg_index = h.msg_index /\ d.paused_until = h.paused_until
          BY <1>1, <5>1 DEF Good, CallType
        <5> HIDE DEF d
        <5>3. At(s, d, S, d.msg_index)
          BY <1>2, <5>2, AtEstablished DEF Sound
        <5> QED
          BY <1>2, <2>2, <4>1, <5>2, <5>3 DEF Sound, Client, AtPause
      <4>2. CASE answer # ACK
        BY <1>2, <4>2 DEF Sends
      <4> QED
        BY <4>1, <4>2
    <3> QED
      BY <1>5, <2>3, <3>2, <3>3, <3>4
  <2>4. CASE Returns(a, h) /\ UNCHANGED sent
    BY <1>2, <1>5, <1>6, <2>4
  <2>5. CASE Fails(a, FALSE) /\ UNCHANGED sent
    BY <1>1, <1>6, <2>5, AckDelete DEF Fails
  <2> QED
    BY <2>1, <2>3, <2>4, <2>5
<1>8. CASE ReceiveDuplicate(a, m)
  BY <1>2, <1>5, <1>6, <1>8 DEF ReceiveDuplicate, h
<1>9. CASE ReceiveExpected(a, m)
  <2> DEFINE i == Min(Found(a, c, m))
             t == next_retrans(c, m, i)
             c2 == [c EXCEPT !.recvhash_msgindex_pairs = @ \cup {<<m, i>>},
                             !.next_retrans = t,
                             !.ack_is_pending = @ \/ m.code \in 200..298]
             c3 == [c2 EXCEPT !.last_recv_index = i,
                              !.last_recv_hash = m,
                              !.last_recv_msg = m]
             n == [c3 EXCEPT !.paused_until = "off", !.msg_index = i]
             o == [c3 EXCEPT !.running = FALSE]
  <2>1. /\ i \in DOMAIN s /\ i >= c.msg_index /\ matches_scenario(s, i, m)
        /\ \A j \in c.msg_index..i : ~Sending(s, j)
    <3>1. /\ i \in DOMAIN s /\ i >= c.msg_index /\ matches_scenario(s, i, m)
          /\ \A j \in c.msg_index..i : s[j].type = "recv"
      BY <1>1, <1>3, <1>9, FoundIsThere DEF ReceiveExpected, c, h, s
    <3> QED
      BY <3>1 DEF Sending
  <2>2. t \in Timer
    BY <1>3 DEF next_retrans, Good, CallType, Timer
  <2>3. /\ Returns(a, c2) \/ next(a, n) \/ Returns(a, o)
        /\ SentMore(a) /\ sent'[a] = S
    BY <1>6, <1>9 DEF ReceiveExpected, c, h, s
  <2>4. Sound(a, s, c, S)
    BY <1>4, <1>9 DEF ReceiveExpected
  <2> HIDE DEF i, t
  <2>5. Good(s, c2)
    BY ZenonT(60), <1>1, <1>3, <2>1, <2>2, AcceptedIsGood
  <2>6. /\ c2.recvhash_msgindex_pairs = c.recvhash_msgindex_pairs \cup {<<m, i>>}
        /\ c2.msg_index = c.msg_index /\ c2.paused_until = c.paused_until
        /\ c2.last_send_msg = c.last_send_msg /\ c2.call_established = c.call_established
        /\ c2.recv_retrans_recv_index = c.recv_retrans_recv_index
        /\ c2.recv_retrans_send_index = c.recv_retrans_send_index
        /\ c2.ack_is_pending = (c.ack_is_pending \/ m.code \in 200..298)
    BY <1>3 DEF Good, CallType
  <2> HIDE DEF c2
  <2>7. Received(c2) = Received(c) \cup {m}
    <3>1. c2.recvhash_msgindex_pairs = c.recvhash_msgindex_pairs \cup {<<m, i>>}
      BY <2>6
    <3> DEFINE A == c.recvhash_msgindex_pairs
               q == <<m, i>>
    <3>2. q[1] = m
      OBVIOUS
    <3> HIDE DEF A, q
    <3>3. {p[1] : p \in A \cup {q}} = {p[1] : p \in A} \cup {m}
      BY <3>2
    <3> QED
      BY <3>1, <3>3 DEF Received, A, q
  <2>8. At(s, c2, S, c2.msg_index) /\ Client(a, c2, S)
    <3>1. At(s, c, S, c.msg_index) /\ Client(a, c, S)
      BY <2>4 DEF Sound
    <3>2. Acknowledging(s)
      BY DEF s
    <3>3. At(s, c2, S, c.msg_index)
      BY <1>1, <1>3, <2>1, <2>6, <2>7, <3>1, <3>2, AtAccepts
    <3> QED
      BY <2>6, <3>1, <3>3 DEF Client
  <2>9. CASE Returns(a, c2)
    <3>1. AtPause(s, c2)
      BY <2>4, <2>6 DEF Sound, AtPause
    <3> QED
      BY <1>5, <2>3, <2>8, <2>9, <3>1 DEF Sound
  <2>10. /\ Good(s, c3) /\ Alike(c2, c3) /\ c3.msg_index = c2.msg_index
         /\ c3.paused_until = c2.paused_until
    <3>1. Good(s, c3)
      BY <1>1, <2>1, <2>5, LastReceivedIsGood
    <3> QED
      BY <2>5, <3>1 DEF Good, CallType, Alike
  <2> HIDE DEF c3
  <2>11. CASE next(a, n)
    <3>1. /\ Good(s, n) /\ n.msg_index = i /\ Alike(c2, n) /\ n.paused_until = "off"
      <4>1. Good(s, n)
        BY <1>1, <2>1, <2>10, IndexIsGood
      <4> QED
        BY <2>10, <4>1 DEF Good, CallType, Alike
    <3> HIDE DEF n
    <3>2. /\ c2.msg_index \in Nat /\ i + 1 \in Nat /\ c2.msg_index <= i + 1
          /\ \A j \in c2.msg_index..(i + 1)-1 : ~Sending(s, j)
      BY <1>1, <1>3, <2>1, <2>6
    <3>3. At(s, n, S, n.msg_index + 1)
      BY <1>1, <2>8, <3>1, <3>2, AtAdvances
    <3>4. Client(a, n, S)
      BY <2>8, <3>1 DEF Client, Alike
    <3> QED
      BY <1>1, <2>3, <2>11, <3>1, <3>3, <3>4, AckNext DEF s
  <2>12. CASE Returns(a, o)
    <3>1. /\ o.msg_index = c2.msg_index /\ Alike(c2, o)
          /\ o.paused_until = c2.paused_until /\ c2.msg_index \in Nat
      BY <1>3, <2>6, <2>10 DEF Good, CallType, Alike
    <3> HIDE DEF o
    <3>2. AtPause(s, o) /\ AtPause(s, c2)
      BY <2>4, <2>6, <3>1 DEF Sound, AtPause
    <3>3. Sound(a, s, o, S)
      BY <1>1, <2>8, <3>1, <3>2, SoundAlike DEF Sound
    <3> QED
      BY <1>5, <2>3, <2>12, <3>3
  <2> QED
    BY <2>3, <2>9, <2>11, <2>12
<1>10. CASE ReceiveUnexpected(a, m)
  <2>1. CASE Returns(a, c) /\ UNCHANGED sent
    <3>1. Sound(a, s, c, S)
      BY <1>4, <1>10 DEF ReceiveUnexpected
    <3> QED
      BY <1>5, <1>6, <2>1, <3>1
  <2>2. CASE automaticResponseMode(a, m)
    <3>1. ACK \notin {Msg(200, m.method)}
      BY MessagesDiffer
    <3> QED
      BY <1>1, <2>2, <3>1, AckFails DEF automaticResponseMode
  <2>3. CASE process_unexpected(a, c, m)
    BY <1>1, <2>3, AckAbort DEF process_unexpected
  <2> QED
    BY <1>10, <2>1, <2>2, <2>3 DEF ReceiveUnexpected, c, h
<1> QED
  BY <1>7, <1>8, <1>9, <1>10 DEF process_incoming

(* The other steps leave the calls as they are, but for their timers; a    *)
(* new call has received nothing.                                          *)
LEMMA AckOthers ==
    ASSUME IInv, AckInv, NEW a \in Agent,
           \/ \E timer \in Timers : Elapse(a, timer)
           \/ Originate(a) \/ WakeUp(a) \/ DeadcallExpires(a)
    PROVE  AckInv'
<1>1. /\ config' = config /\ call[a] \in CallType /\ sent' = sent /\ SentMore(a)
      /\ DOMAIN Scenario[a] \subseteq Nat
  BY SendingNothing, ScenarioIsArray
     DEF Elapse, Originate, WakeUp, DeadcallExpires, IInv, CallsOK
<1>2. ASSUME NEW d, call' = [call EXCEPT ![a] = d], call[a].live, Alike(call[a], d),
             d.msg_index = call[a].msg_index,
             d.paused_until # "off" => call[a].paused_until # "off"
      PROVE  AckInv'
  <2>1. Good(Scenario[a], call[a]) /\ Sound(a, Scenario[a], call[a], sent[a])
    BY <1>2, LiveIsGood DEF AckInv
  <2>2. AtPause(Scenario[a], d) /\ call[a].msg_index \in Nat
    BY <1>2, <2>1 DEF Sound, AtPause, Good, CallType
  <2>3. Sound(a, Scenario[a], d, sent'[a])
    BY <1>1, <1>2, <2>1, <2>2, SoundAlike
  <2> QED
    BY <1>1, <1>2, <2>3, AckReturns
<1>3. ASSUME NEW timer \in Timers, Elapse(a, timer) PROVE AckInv'
  <2> DEFINE d == [call[a] EXCEPT ![timer] = "due"]
  <2>1. call' = [call EXCEPT ![a] = d] /\ call[a].live /\ call[a][timer] = "armed"
    BY <1>3 DEF Elapse
  <2>2. /\ Alike(call[a], d) /\ d.msg_index = call[a].msg_index
        /\ d.paused_until # "off" => call[a].paused_until # "off"
    BY <1>1, <2>1 DEF Timers, CallType, Alike
  <2> HIDE DEF d
  <2> QED
    BY <1>2, <2>1, <2>2
<1>4. CASE WakeUp(a)
  <2> DEFINE d == [call[a] EXCEPT !.running = TRUE]
  <2>1. call' = [call EXCEPT ![a] = d] /\ call[a].live
    BY <1>4 DEF WakeUp
  <2>2. /\ Alike(call[a], d) /\ d.msg_index = call[a].msg_index
        /\ d.paused_until = call[a].paused_until
    BY <1>1 DEF CallType, Alike
  <2> HIDE DEF d
  <2> QED
    BY <1>2, <2>1, <2>2
<1>5. CASE Originate(a)
  <2>1. /\ NewCall.recvhash_msgindex_pairs = {} /\ NewCall.msg_index = 0
        /\ NewCall.recv_retrans_recv_index = -1 /\ NewCall.paused_until = "off"
        /\ NewCall.call_established = FALSE
    BY DEF NewCall
  <2>2. Received(NewCall) = {}
    BY <2>1 DEF Received
  <2>3. Sound(a, Scenario[a], NewCall, sent'[a])
    BY <1>1, <2>1, <2>2 DEF Sound, At, LastSent, AllSent, Confirmed, Repeats, Client, AtPause
  <2> QED
    BY <1>1, <1>5, <2>3, AckReturns DEF Originate
<1>6. CASE DeadcallExpires(a)
  <2>1. Scenario' = Scenario /\ call' = call
    BY <1>1, <1>6 DEF Scenario, DeadcallExpires
  <2> QED
    BY <1>1, <2>1 DEF AckInv
<1> QED
  BY <1>3, <1>4, <1>5, <1>6

(* What an agent sends in a step respects the answer its call has got.     *)
Respects(a) ==
    Answer200 \in Received(call[a]) =>
       LET new == sent'[a] \ sent[a]
       IN  /\ CANCEL \notin new
           /\ BYE \in new => ACK \in sent'[a]

(* Only the agent that takes the step sends something.                     *)
LEMMA RespectsMore ==
    ASSUME IInv, NEW a \in Agent, NEW ms, sent' = [sent EXCEPT ![a] = @ \cup ms],
           Answer200 \in Received(call[a]) =>
              CANCEL \notin ms /\ (BYE \in ms => ACK \in sent[a] \cup ms)
    PROVE  \A b \in Agent : Respects(b)
<1>1. sent'[a] = sent[a] \cup ms /\ \A b \in Agent \ {a} : sent'[b] = sent[b]
  BY DEF IInv
<1> QED
  BY <1>1 DEF Respects

(* What a call sends when it is aborted, however its timers stand and      *)
(* whatever came last.                                                     *)
LEMMA AbortRespects ==
    ASSUME NEW a \in Agent, call[a].live,
           Sound(a, Scenario[a], call[a], sent[a]), Answer200 \in Received(call[a]),
           NEW d, d.call_established = call[a].call_established,
           d.last_send_msg = call[a].last_send_msg,
           d.ack_is_pending = call[a].ack_is_pending
    PROVE  /\ CANCEL \notin AbortMessages(a, d)
           /\ BYE \in AbortMessages(a, d) => ACK \in sent[a] \cup AbortMessages(a, d)
<1>1. /\ call[a].ack_is_pending \/ call[a].call_established
      /\ ACK \in sent[a] \/ call[a].last_send_msg = INVITE
      /\ a \notin Server /\ call[a].call_established => ACK \in sent[a]
  BY DEF Sound, At, Confirmed, Client
<1>2. CASE a \in Server \/ d.msg_index = 0
  BY <1>2 DEF AbortMessages
<1>3. CASE ~(a \in Server \/ d.msg_index = 0)
  <2>1. CASE ~d.call_established /\ d.last_send_msg = INVITE
    <3>1. AbortMessages(a, d) = {ACK} \/ AbortMessages(a, d) = {ACK, BYE}
      BY <1>1, <1>3, <2>1 DEF AbortMessages
    <3> QED
      BY <3>1, MessagesDiffer
  <2>2. CASE ~(~d.call_established /\ d.last_send_msg = INVITE)
    <3>1. AbortMessages(a, d) = {BYE} \/ AbortMessages(a, d) = {}
      BY <1>3, <2>2 DEF AbortMessages
    <3>2. ACK \in sent[a]
      BY <1>1, <1>3, <2>2
    <3> QED
      BY <3>1, <3>2, MessagesDiffer
  <2> QED
    BY <2>1, <2>2
<1> QED
  BY <1>2, <1>3

(* The steps of run().                                                     *)
LEMMA RunRespects ==
    ASSUME IInv, AckInv, NEW a \in Agent, Step(a)
    PROVE  \A b \in Agent : Respects(b)
<1> DEFINE c == call[a]
           s == Scenario[a]
<1>1. Good(s, c) /\ c.live /\ Sound(a, s, c, sent[a])
  BY LiveIsGood DEF Step, run, Retransmit, GiveUp, StaysPaused, PauseEnds,
     ExecutePause, SendWaits, SendIsCongested, SendTimesOut, SendFails,
     ExecuteSend, ExecuteRecv, RecvTimesOut, Executes, Steps, Runs, AckInv
<1>2. CASE UNCHANGED sent
  BY <1>2 DEF Respects
<1>3. ASSUME NEW d, abortCall(a, d), d.call_established = c.call_established,
             d.last_send_msg = c.last_send_msg, d.ack_is_pending = c.ack_is_pending
      PROVE  \A b \in Agent : Respects(b)
  <2> DEFINE ms == AbortMessages(a, d)
  <2>1. UNCHANGED sent \/ sent' = [sent EXCEPT ![a] = @ \cup ms]
    BY <1>3 DEF abortCall, FailsSending
  <2>2. Answer200 \in Received(c) =>
           CANCEL \notin ms /\ (BYE \in ms => ACK \in sent[a] \cup ms)
    BY <1>1, <1>3, AbortRespects
  <2> HIDE DEF ms
  <2> QED
    BY <1>2, <2>1, <2>2, RespectsMore
<1>4. CASE ExecuteSend(a)
  <2> DEFINE m == s[c.msg_index].msg
  <2>1. Sending(s, c.msg_index) /\ sent' = [sent EXCEPT ![a] = @ \cup {m}]
    BY <1>4 DEF ExecuteSend, Executes, Sending
  <2>2. ASSUME Answer200 \in Received(c)
        PROVE  CANCEL # m /\ (BYE = m => ACK \in sent[a])
    <3>1. c.msg_index \in DOMAIN s /\ c.msg_index \in Nat
      BY <1>1 DEF Good, CallType
    <3>2. /\ m # CANCEL
          /\ \/ ACK \in sent[a]
             \/ \E j \in c.msg_index..c.msg_index : s[j].msg = ACK
      BY <1>1, <2>1, <2>2, <3>1 DEF Sound, At, Confirmed
    <3>3. ACK \in sent[a] \/ m = ACK
      BY <3>1, <3>2
    <3> QED
      BY <3>2, <3>3, MessagesDiffer
  <2> HIDE DEF m, c
  <2>3. Answer200 \in Received(c) =>
          CANCEL \notin {m} /\ (BYE \in {m} => ACK \in sent[a] \cup {m})
    BY <2>2
  <2> QED
    BY <2>1, <2>3, RespectsMore DEF c
<1>5. CASE GiveUp(a)
  <2> DEFINE d == [c EXCEPT !.nb_retrans = @ + 1]
  <2>1. UNCHANGED sent \/ abortCall(a, d)
    BY <1>5 DEF GiveUp
  <2>2. /\ d.call_established = c.call_established
        /\ d.last_send_msg = c.last_send_msg /\ d.ack_is_pending = c.ack_is_pending
    BY <1>1 DEF Good, CallType
  <2> HIDE DEF d
  <2> QED
    BY <1>2, <1>3, <2>1, <2>2
<1>6. CASE RecvTimesOut(a)
  <2> DEFINE d == [c EXCEPT !.recv_timeout = "off"]
  <2>1. UNCHANGED sent \/ abortCall(a, d)
    BY <1>6 DEF RecvTimesOut
  <2>2. /\ d.call_established = c.call_established
        /\ d.last_send_msg = c.last_send_msg /\ d.ack_is_pending = c.ack_is_pending
    BY <1>1 DEF Good, CallType
  <2> HIDE DEF d
  <2> QED
    BY <1>2, <1>3, <2>1, <2>2
<1>7. CASE SendTimesOut(a)
  BY <1>3, <1>7 DEF SendTimesOut
<1>8. CASE \/ Retransmit(a) \/ StaysPaused(a) \/ PauseEnds(a) \/ ExecutePause(a)
           \/ SendWaits(a) \/ SendIsCongested(a) \/ SendFails(a) \/ ExecuteRecv(a)
  BY <1>2, <1>8 DEF Retransmit, StaysPaused, PauseEnds, ExecutePause, SendWaits,
     SendIsCongested, SendFails, ExecuteRecv
<1> QED
  BY <1>4, <1>5, <1>6, <1>7, <1>8 DEF Step, run

(* The answers to what comes in.                                           *)
LEMMA IncomingRespects ==
    ASSUME IInv, AckInv, Roles, NEW a \in Agent, NEW m \in Messages, process_incoming(a, m)
    PROVE  \A b \in Agent : Respects(b)
<1> DEFINE h == Handler(a)
           c == Established(h, m)
<1>1. CASE UNCHANGED sent
  BY <1>1 DEF Respects
<1>2. ASSUME NEW ms, sent' = [sent EXCEPT ![a] = @ \cup ms],
             call[a].live /\ Answer200 \in Received(call[a]) =>
                CANCEL \notin ms /\ (BYE \in ms => ACK \in sent[a] \cup ms)
      PROVE  \A b \in Agent : Respects(b)
  <2>1. CASE call[a].live
    BY <1>2, <2>1, RespectsMore
  <2>2. CASE ~call[a].live
    <3>1. call[a] = NoCall
      BY <2>2 DEF IInv, CallsOK, Good
    <3>2. NoCall.recvhash_msgindex_pairs = {}
      BY DEF NoCall, NewCall
    <3>3. Received(call[a]) = {}
      BY <3>1, <3>2 DEF Received
    <3> QED
      BY <1>2, <3>3, RespectsMore
  <2> QED
    BY <2>1, <2>2
<1>3. ASSUME call[a].live
      PROVE  /\ h = [call[a] EXCEPT !.running = TRUE]
             /\ Good(Scenario[a], call[a]) /\ Sound(a, Scenario[a], call[a], sent[a])
  BY <1>3, LiveIsGood DEF Handler, AckInv
<1>4. CASE ReceiveRetransmission(a, m)
  <2> DEFINE answer == Scenario[a][h.recv_retrans_send_index].msg
  <2>1. /\ h.recv_retrans_recv_index >= 0
        /\ UNCHANGED sent \/ sent' = [sent EXCEPT ![a] = @ \cup {answer}]
    BY <1>4 DEF ReceiveRetransmission, IsRetransmission
  <2>2. call[a].live => answer \in sent[a]
    <3>1. call[a].live => /\ h.recv_retrans_recv_index = call[a].recv_retrans_recv_index
                          /\ h.recv_retrans_send_index = call[a].recv_retrans_send_index
      BY <1>3 DEF Good, CallType
    <3> QED
      BY <1>3, <2>1, <3>1 DEF Sound, At, Repeats
  <2> HIDE DEF answer, h
  <2>3. CASE sent' = [sent EXCEPT ![a] = @ \cup {answer}]
    <3>1. CASE call[a].live
      <4>1. sent' = sent
        BY <2>2, <2>3, <3>1 DEF IInv
      <4> QED
        BY <1>1, <4>1
    <3>2. CASE ~call[a].live
      BY <1>2, <2>3, <3>2
    <3> QED
      BY <3>1, <3>2
  <2> QED
    BY <1>1, <2>1, <2>3
<1>5. CASE ReceiveDuplicate(a, m) \/ ReceiveExpected(a, m)
  BY <1>1, <1>5 DEF ReceiveDuplicate, ReceiveExpected
<1>6. CASE ReceiveUnexpected(a, m)
  <2>1. CASE automaticResponseMode(a, m)
    <3> DEFINE ms == {Msg(200, m.method)}
    <3>1. UNCHANGED sent \/ sent' = [sent EXCEPT ![a] = @ \cup ms]
      BY <2>1 DEF automaticResponseMode, FailsSending
    <3>2. CANCEL \notin ms /\ BYE \notin ms
      BY MessagesDiffer
    <3> HIDE DEF ms
    <3> QED
      BY <1>1, <1>2, <3>1, <3>2
  <2>2. CASE process_unexpected(a, c, m)
    <3> DEFINE d == [c EXCEPT !.last_recv_msg = m]
               ms == AbortMessages(a, d)
    <3>1. UNCHANGED sent \/ sent' = [sent EXCEPT ![a] = @ \cup ms]
      BY <2>2 DEF process_unexpected, abortCall, FailsSending
    <3>2. CASE a \in Server
      <4>1. ms = {}
        BY <3>2 DEF AbortMessages
      <4> HIDE DEF ms
      <4> QED
        BY <1>1, <1>2, <3>1, <4>1
    <3>3. CASE a \notin Server
      <4>1. m # ACK
        <5>1. Arrives(a, m)
          BY <1>6 DEF ReceiveUnexpected
        <5>2. m \in sent[Peer[a]] /\ Peer[a] \in Agent \cap Server
          BY <3>3, <5>1, CallAssumption DEF Arrives, Roles
        <5> QED
          BY <5>2 DEF AckInv
      <4>2. call[a].live => /\ d.call_established = call[a].call_established
                            /\ d.last_send_msg = call[a].last_send_msg
                            /\ d.ack_is_pending = call[a].ack_is_pending
        <5>1. c = h
          BY <4>1 DEF Established
        <5> QED
          BY <1>3, <5>1 DEF Good, CallType
      <4> HIDE DEF d
      <4>3. call[a].live /\ Answer200 \in Received(call[a]) =>
              CANCEL \notin ms /\ (BYE \in ms => ACK \in sent[a] \cup ms)
        BY <1>3, <4>2, AbortRespects
      <4> HIDE DEF ms
      <4> QED
        BY <1>1, <1>2, <3>1, <4>3
    <3> QED
      BY <3>2, <3>3
  <2> QED
    BY <1>1, <1>6, <2>1, <2>2 DEF ReceiveUnexpected
<1> QED
  BY <1>4, <1>5, <1>6 DEF process_incoming

(* Once its INVITE was accepted, a call that is aborted, by a timeout, by  *)
(* what it retransmitted too often or by a message it does not expect,     *)
(* sends no CANCEL and no BYE before the ACK (abortCall, ack_is_pending).  *)
THEOREM AbortsRespect ==
    ASSUME Roles, \A c \in Configurations, a \in Agent : Acknowledging(c.scenario[a])
    PROVE  Spec => AbortRespectsAnswer
<1>1. config \in Configurations => \A a \in Agent : Acknowledging(Scenario[a])
  BY DEF Scenario
<1>2. Init => AckInv
  BY NewCallIsGood DEF Init, AckInv
<1>3. ASSUME IInv, AckInv, Next, NEW a \in Agent,
             \/ Step(a)
             \/ \E m \in Messages : process_incoming(a, m)
             \/ Originate(a)
             \/ \E timer \in Timers : Elapse(a, timer)
             \/ WakeUp(a)
             \/ DeadcallExpires(a)
      PROVE  AckInv' /\ \A b \in Agent : Respects(b)
  <2>1. Acknowledging(Scenario[a]) /\ ~undefined
    BY <1>1, <1>3 DEF IInv, Next
  <2>2. CASE Step(a)
    BY <1>3, <2>1, <2>2, AckRun, RunRespects
  <2>3. ASSUME NEW m \in Messages, process_incoming(a, m)
        PROVE  AckInv' /\ \A b \in Agent : Respects(b)
    BY <1>3, <2>1, <2>3, AckIncoming, IncomingRespects
  <2>4. CASE \/ \E timer \in Timers : Elapse(a, timer)
             \/ Originate(a) \/ WakeUp(a) \/ DeadcallExpires(a)
    <3>1. AckInv'
      BY <1>3, <2>4, AckOthers
    <3>2. UNCHANGED sent
      BY <2>4 DEF Elapse, Originate, WakeUp, DeadcallExpires
    <3> QED
      BY <3>1, <3>2 DEF Respects
  <2> QED
    BY <1>3, <2>2, <2>3, <2>4
<1>4. IInv /\ AckInv /\ [Next]_vars => AckInv'
  <2>1. ASSUME AckInv, UNCHANGED vars PROVE AckInv'
    <3>1. Scenario' = Scenario /\ call' = call /\ sent' = sent
      BY <2>1 DEF Scenario, vars
    <3> QED
      BY <2>1, <3>1 DEF AckInv
  <2> QED
    BY <1>3, <2>1 DEF Next
<1>5. IInv /\ AckInv /\ [Next]_vars => [\A a \in Agent : Respects(a)]_vars
  BY <1>3 DEF Next
<1>6. [\A a \in Agent : Respects(a)]_vars <=>
      [\A a \in Agent :
         Answer200 \in {p[1] : p \in call[a].recvhash_msgindex_pairs} =>
            LET new == sent'[a] \ sent[a]
            IN  /\ CANCEL \notin new
                /\ BYE \in new => ACK \in sent'[a]]_vars
  BY DEF Respects, Received
<1> QED
  BY <1>2, <1>4, <1>5, <1>6, Invariance, PTL DEF Spec, AbortRespectsAnswer
-----------------------------------------------------------------------------
(***************************************************************************)
(* A successful call was answered.                                         *)
(***************************************************************************)
(* Every mandatory message before position x of the scenario is among S,   *)
(* what the peer has sent.                                                 *)
Heard(s, S, x) ==
    \A j \in DOMAIN s : j < x /\ Waited(s, j) => \E m \in S : matches_scenario(s, j, m)

(* A call has heard all it waited for so far, and pauses only at a pause;  *)
(* an agent with a success has heard all its scenario waits for.           *)
Listened(s, c, S) == Heard(s, S, c.msg_index) /\ AtPause(s, c)
HeardInv == \A a \in Agent : Straight(a) =>
               /\ call[a].live => Listened(Scenario[a], call[a], sent[Peer[a]])
               /\ succeeded[a] > 0 => Heard(Scenario[a], sent[Peer[a]], Size(a))

(* What was sent can be heard ever after.                                  *)
Grown == \A b \in Agent : sent[b] \subseteq sent'[b]

(* What was heard stays heard.                                             *)
LEMMA HeardMore ==
    ASSUME NEW s, NEW S, NEW T, S \subseteq T, NEW x, Heard(s, S, x)
    PROVE  Heard(s, T, x)
BY DEF Heard

(* The network only gains messages.                                        *)
LEMMA SentGrows ==
    ASSUME IInv, NEW a \in Agent, NEW ms,
           UNCHANGED sent \/ sent' = [sent EXCEPT ![a] = @ \cup ms]
    PROVE  Grown
BY DEF Grown, IInv

(* The invariant is kept when only the call of one agent changes, and has  *)
(* heard what it waited for,                                               *)
LEMMA HeardReturns ==
    ASSUME IInv, HeardInv, NEW a \in Agent, config' = config, Grown,
           NEW c, call' = [call EXCEPT ![a] = c], UNCHANGED succeeded,
           Straight(a) /\ c.live => Listened(Scenario[a], c, sent'[Peer[a]])
    PROVE  HeardInv'
<1>1. Scenario' = Scenario
  BY DEF Scenario
<1>2. call'[a] = c /\ \A b \in Agent \ {a} : call'[b] = call[b]
  BY DEF IInv, CallsOK
<1>3. ASSUME NEW b \in Agent, Straight(b)
      PROVE  /\ call'[b].live => Listened(Scenario[b], call'[b], sent'[Peer[b]])
             /\ succeeded'[b] > 0 => Heard(Scenario[b], sent'[Peer[b]], Size(b))
  <2>1. sent[Peer[b]] \subseteq sent'[Peer[b]]
    BY CallAssumption DEF Grown
  <2>2. succeeded[b] > 0 => Heard(Scenario[b], sent'[Peer[b]], Size(b))
    BY <1>3, <2>1, HeardMore DEF HeardInv
  <2>3. CASE b = a
    BY <1>2, <1>3, <2>2, <2>3
  <2>4. CASE b # a
    BY <1>2, <1>3, <2>1, <2>2, <2>4, HeardMore DEF HeardInv, Listened
  <2> QED
    BY <2>3, <2>4
<1>4. \A b \in Agent : Straight(b)' = Straight(b) /\ Size(b)' = Size(b)
  BY <1>1 DEF Straight, Size
<1> QED
  BY <1>1, <1>3, <1>4 DEF HeardInv

(* when it fails,                                                          *)
LEMMA HeardFails ==
    ASSUME IInv, HeardInv, NEW a \in Agent, config' = config, Grown, NEW b, Fails(a, b)
    PROVE  HeardInv'
BY HeardReturns, NewCallIsGood DEF Fails, Delete

(* also while it sends,                                                    *)
LEMMA HeardAbort ==
    ASSUME IInv, HeardInv, NEW a \in Agent, config' = config, NEW ms, NEW b,
           FailsSending(a, ms, b)
    PROVE  HeardInv'
<1>1. Grown
  BY SentGrows DEF FailsSending
<1> QED
  BY <1>1, HeardFails DEF FailsSending

(* and when it goes on from a message it has heard: a label leads past     *)
(* nothing mandatory.                                                      *)
LEMMA HeardNext ==
    ASSUME IInv, HeardInv, NEW a \in Agent, Awaiting(Scenario[a]), config' = config, Grown,
           NEW c, Good(Scenario[a], c), next(a, c), c.paused_until = "off",
           Straight(a) => Heard(Scenario[a], sent'[Peer[a]], c.msg_index + 1)
    PROVE  HeardInv'
<1> DEFINE s == Scenario[a]
           i == NextIndex(s[c.msg_index], c.msg_index)
           S == sent'[Peer[a]]
           d == [c EXCEPT !.msg_index = i, !.recv_timeout = "off"]
<1>1. /\ c.msg_index \in DOMAIN s /\ DOMAIN s \subseteq Nat
      /\ DOMAIN s = 0..Size(a)-1 /\ Size(a) \in Nat
      /\ s[c.msg_index] \in Elements
  BY ScenarioIsArray DEF IInv, Good
<1>2. i \in Nat /\ \A j \in DOMAIN s : c.msg_index < j /\ j < i => ~Waited(s, j)
  <2> DEFINE e == s[c.msg_index]
  <2>1. CASE e.next >= 0 /\ e.test
    <3>1. e.next \in Nat /\ i = e.next
      BY <1>1, <2>1 DEF Elements, NextIndex
    <3>2. \A j \in DOMAIN s : c.msg_index < j /\ j < e.next => ~Waited(s, j)
      BY <1>1, <3>1 DEF Awaiting
    <3> QED
      BY <3>1, <3>2
  <2>2. CASE ~(e.next >= 0 /\ e.test)
    <3>1. i = c.msg_index + 1
      BY <2>2 DEF NextIndex
    <3> HIDE DEF i
    <3> QED
      BY <1>1, <3>1
  <2> QED
    BY <2>1, <2>2
<1> HIDE DEF i
<1>3. ASSUME Straight(a), NEW x \in Nat, x <= i
      PROVE  Heard(s, S, x)
  <2>1. ASSUME NEW j \in DOMAIN s, j < x, Waited(s, j)
        PROVE  \E m \in S : matches_scenario(s, j, m)
    <3>1. c.msg_index \in Nat /\ j \in Nat
      BY <1>1
    <3>2. j < i
      BY <1>2, <1>3, <2>1, <3>1
    <3>3. ~(c.msg_index < j)
      BY <1>2, <2>1, <3>2
    <3>4. j < c.msg_index + 1
      BY <3>1, <3>3
    <3> QED
      BY <1>3, <2>1, <3>4 DEF Heard
  <2> QED
    BY <2>1 DEF Heard
<1>4. CASE i >= Size(a)
  <2>1. terminate(a)
    BY <1>4 DEF next, i
  <2>2. /\ call' = [call EXCEPT ![a] = NoCall]
        /\ succeeded' = [succeeded EXCEPT ![a] = @ + 1]
    BY <2>1 DEF terminate, Delete
  <2>3. Scenario' = Scenario
    BY DEF Scenario
  <2>4. /\ ~call'[a].live
        /\ \A b \in Agent \ {a} : call'[b] = call[b] /\ succeeded'[b] = succeeded[b]
    BY <2>2, NewCallIsGood DEF IInv, CallsOK, CountsOK
  <2>5. ASSUME NEW b \in Agent, Straight(b)
        PROVE  /\ call'[b].live => Listened(Scenario[b], call'[b], sent'[Peer[b]])
               /\ succeeded'[b] > 0 => Heard(Scenario[b], sent'[Peer[b]], Size(b))
    <3>1. sent[Peer[b]] \subseteq sent'[Peer[b]]
      BY CallAssumption DEF Grown
    <3>2. CASE b = a
      BY <1>1, <1>3, <1>4, <2>4, <2>5, <3>2
    <3>3. CASE b # a
      BY <2>4, <2>5, <3>1, <3>3, HeardMore DEF HeardInv, Listened
    <3> QED
      BY <3>2, <3>3
  <2>6. \A b \in Agent : Straight(b)' = Straight(b) /\ Size(b)' = Size(b)
    BY <2>3 DEF Straight, Size
  <2> QED
    BY <2>3, <2>5, <2>6 DEF HeardInv
<1>5. CASE ~(i >= Size(a))
  <2>1. RunsOn(a, d)
    BY <1>5 DEF next, i
  <2>2. d.msg_index = i /\ d.paused_until = "off"
    BY DEF Good, CallType
  <2> HIDE DEF d
  <2>3. Straight(a) => Listened(s, d, S)
    BY <1>2, <1>3, <2>2 DEF Listened, AtPause
  <2> QED
    BY <2>1, <2>3, HeardReturns DEF RunsOn
<1> QED
  BY <1>4, <1>5

(* Every step of run() keeps it: only a pause and a send are left without  *)
(* a message.                                                              *)
LEMMA HeardRun ==
    ASSUME IInv, HeardInv, NEW a \in Agent, Awaiting(Scenario[a]), Step(a)
    PROVE  HeardInv'
<1> DEFINE c == call[a]
           s == Scenario[a]
           S == sent'[Peer[a]]
<1>1. /\ Good(s, c) /\ c.live /\ config' = config
      /\ config \in Configurations /\ DOMAIN s \subseteq Nat
      /\ Straight(a) => Listened(s, c, sent[Peer[a]])
  BY LiveIsGood, ScenarioIsArray DEF Step, run, Retransmit, GiveUp, StaysPaused, PauseEnds,
     ExecutePause, SendWaits, SendIsCongested, SendTimesOut, SendFails,
     ExecuteSend, ExecuteRecv, RecvTimesOut, Executes, Steps, Runs, IInv, HeardInv
<1>2. /\ c \in CallType /\ c.msg_index \in DOMAIN s /\ c.msg_index \in Nat
      /\ c.last_send_index \in DOMAIN s
  BY <1>1 DEF Good
<1>3. Straight(a) => \A i \in DOMAIN s : s[i].on_timeout \notin DOMAIN s
  BY <1>1 DEF Straight
<1> HIDE DEF c, s
<1>4. ASSUME Grown, Straight(a) PROVE Heard(s, S, c.msg_index) /\ AtPause(s, c)
  <2>1. sent[Peer[a]] \subseteq S
    BY <1>4, CallAssumption DEF Grown
  <2> QED
    BY <1>1, <1>4, <2>1, HeardMore DEF Listened
<1> HIDE DEF S
<1>5. ASSUME NEW d, Returns(a, d) \/ RunsOn(a, d), Grown,
             d.msg_index = c.msg_index, Straight(a) => AtPause(s, d)
      PROVE  HeardInv'
  <2>1. Straight(a) => Listened(s, d, S)
    BY <1>4, <1>5 DEF Listened
  <2> QED
    BY <1>1, <1>5, <2>1, HeardReturns DEF Returns, RunsOn, s, S
<1>6. ASSUME NEW d, abortCall(a, d) PROVE HeardInv'
  BY <1>1, <1>6, HeardAbort DEF abortCall
<1>7. ASSUME NEW d, Good(s, d), next(a, d), Grown, d.msg_index = c.msg_index,
             d.paused_until = "off", Straight(a) => ~Waited(s, c.msg_index)
      PROVE  HeardInv'
  <2>1. ASSUME Straight(a), NEW j \in DOMAIN s, j < c.msg_index + 1, Waited(s, j)
        PROVE  \E m \in S : matches_scenario(s, j, m)
    <3>1. j # c.msg_index
      BY <1>7, <2>1
    <3>2. j < c.msg_index
      BY <1>1, <1>2, <2>1, <3>1
    <3> QED
      BY <1>4, <1>7, <2>1, <3>2 DEF Heard
  <2>2. Straight(a) => Heard(s, S, d.msg_index + 1)
    BY <1>7, <2>1 DEF Heard
  <2> QED
    BY <1>1, <1>7, <2>2, HeardNext DEF s, S
<1>8. CASE Retransmit(a)
  <2> DEFINE d == [c EXCEPT !.next_retrans = "armed", !.nb_retrans = @ + 1]
  <2>1. UNCHANGED sent
    BY <1>8 DEF Retransmit
  <2>2. Grown
    BY <2>1, SentGrows
  <2>3. CASE RunsOn(a, d)
    <3>1. d.msg_index = c.msg_index /\ d.paused_until = c.paused_until
      BY <1>2 DEF CallType
    <3> HIDE DEF d
    <3> QED
      BY <1>4, <1>5, <2>2, <2>3, <3>1 DEF AtPause
  <2>4. CASE Fails(a, FALSE)
    BY <1>1, <2>2, <2>4, HeardFails
  <2> QED
    BY <1>8, <2>3, <2>4 DEF Retransmit, c
<1>9. CASE GiveUp(a)
  <2> DEFINE b == [c EXCEPT !.nb_retrans = @ + 1]
             label == s[b.last_send_index].on_timeout
             d == [b EXCEPT !.msg_index = label, !.next_retrans = "off",
                            !.recv_timeout = "off"]
  <2>1. b.last_send_index = c.last_send_index
    BY <1>2 DEF CallType
  <2>2. CASE label \in DOMAIN s
    <3>1. ~Straight(a)
      BY <1>2, <1>3, <2>1, <2>2
    <3>2. Returns(a, d) /\ UNCHANGED sent
      BY <1>9, <2>2 DEF GiveUp, s, c
    <3> HIDE DEF d
    <3>3. Grown
      BY <3>2, SentGrows
    <3> QED
      BY <1>1, <3>1, <3>2, <3>3, HeardReturns DEF Returns
  <2>3. CASE label \notin DOMAIN s
    <3>1. abortCall(a, b)
      BY <1>9, <2>3 DEF GiveUp, s, c
    <3> QED
      BY <1>6, <3>1
  <2> QED
    BY <2>2, <2>3
<1>10. CASE \/ StaysPaused(a) \/ SendWaits(a) \/ SendIsCongested(a) \/ ExecuteRecv(a)
  <2>1. PICK d : /\ Returns(a, d)
                 /\ \/ d = [c EXCEPT !.running = FALSE]
                    \/ d = c
                    \/ d = [c EXCEPT !.send_timeout = "armed"]
                    \/ d = [c EXCEPT !.recv_timeout = "armed"]
    BY <1>10 DEF StaysPaused, SendWaits, SendIsCongested, ExecuteRecv, c
  <2>2. UNCHANGED sent
    BY <1>10 DEF StaysPaused, SendWaits, SendIsCongested, ExecuteRecv
  <2>3. Grown
    BY <2>2, SentGrows
  <2>4. d.msg_index = c.msg_index /\ d.paused_until = c.paused_until
    BY <1>2, <2>1 DEF CallType
  <2> QED
    BY <1>4, <1>5, <2>1, <2>3, <2>4 DEF AtPause
<1>11. CASE ExecutePause(a)
  <2> DEFINE d == [c EXCEPT !.paused_until = "armed", !.running = FALSE]
  <2>1. Returns(a, d) /\ s[c.msg_index].type = "pause" /\ UNCHANGED sent
    BY <1>11 DEF ExecutePause, Executes, c, s
  <2>2. d.msg_index = c.msg_index
    BY <1>2 DEF CallType
  <2>3. Grown
    BY <2>1, SentGrows
  <2> HIDE DEF d
  <2> QED
    BY <1>5, <2>1, <2>2, <2>3 DEF AtPause
<1>12. CASE PauseEnds(a)
  <2> DEFINE d == [c EXCEPT !.paused_until = "off"]
  <2>1. next(a, d) /\ c.paused_until = "due" /\ UNCHANGED sent
    BY <1>12 DEF PauseEnds, c
  <2>2. Grown
    BY <2>1, SentGrows
  <2>3. d.msg_index = c.msg_index /\ d.paused_until = "off"
    BY <1>2 DEF CallType
  <2>4. Good(s, d)
    BY <1>1, TimersAreGood DEF Timer
  <2> HIDE DEF d
  <2>5. Straight(a) => ~Waited(s, c.msg_index)
    BY <1>4, <2>1, <2>2 DEF AtPause, Waited
  <2> QED
    BY <1>7, <2>1, <2>2, <2>3, <2>4, <2>5
<1>13. CASE SendTimesOut(a)
  BY <1>6, <1>13 DEF SendTimesOut
<1>14. CASE SendFails(a)
  <2>1. Grown
    BY <1>14, SentGrows DEF SendFails
  <2> QED
    BY <1>1, <1>14, <2>1, HeardFails DEF SendFails
<1>15. CASE ExecuteSend(a)
  <2> DEFINE i == c.msg_index
             e == s[i]
             d == AnswerTo(Sends(c, e.msg), i)
             t == IF e.retrans THEN "armed" ELSE "off"
             n == IF e.retrans THEN 0 ELSE d.nb_retrans
             f == [d EXCEPT !.send_timeout = "off",
                            !.last_send_index = i,
                            !.last_send_msg = e.msg,
                            !.next_retrans = t,
                            !.nb_retrans = n]
  <2>1. /\ next(a, f) /\ e.type = "send" /\ c.paused_until = "off"
        /\ sent' = [sent EXCEPT ![a] = @ \cup {e.msg}]
    BY <1>15 DEF ExecuteSend, Executes, c, s
  <2>2. Grown
    BY <2>1, SentGrows
  <2>3. e.msg \in Messages
    BY <1>1, <1>2, MessagesOf DEF s
  <2>4. Good(s, d)
    BY <1>1, <1>2, SendsIsGood, AnswerIsGood
  <2>5. d.msg_index = i /\ d.paused_until = "off"
    <3>1. Sends(c, e.msg) \in CallType
      BY <1>1, SendsIsGood DEF Good
    <3>2. Sends(c, e.msg).msg_index = i /\ Sends(c, e.msg).paused_until = "off"
      BY <1>2, <2>1 DEF Sends, CallType
    <3> QED
      BY <3>1, <3>2 DEF AnswerTo, CallType
  <2>6. t \in Timer /\ n \in Nat
    BY <2>4 DEF Good, CallType, Timer
  <2>7. ~Waited(s, i)
    BY <2>1 DEF Waited
  <2> HIDE DEF d, t, n, e
  <2>8. Good(s, f)
    BY <1>1, <1>2, <2>3, <2>4, <2>6, SentIsGood
  <2>9. f.msg_index = i /\ f.paused_until = "off"
    BY <2>4, <2>5 DEF Good, CallType
  <2> HIDE DEF f
  <2> QED
    BY <1>7, <2>1, <2>2, <2>7, <2>8, <2>9
<1>16. CASE RecvTimesOut(a)
  <2> DEFINE d == [c EXCEPT !.recv_timeout = "off"]
             label == s[d.msg_index].on_timeout
             e == [d EXCEPT !.msg_index = label]
  <2>1. d.msg_index = c.msg_index
    BY <1>2 DEF CallType
  <2>2. CASE label \in DOMAIN s
    <3>1. ~Straight(a)
      BY <1>2, <1>3, <2>1, <2>2
    <3>2. Returns(a, e) /\ UNCHANGED sent
      BY <1>16, <2>2 DEF RecvTimesOut, s, c
    <3> HIDE DEF e
    <3>3. Grown
      BY <3>2, SentGrows
    <3> QED
      BY <1>1, <3>1, <3>2, <3>3, HeardReturns DEF Returns
  <2>3. CASE label \notin DOMAIN s
    <3>1. abortCall(a, d)
      BY <1>16, <2>3 DEF RecvTimesOut, s, c
    <3> QED
      BY <1>6, <3>1
  <2> QED
    BY <2>2, <2>3
<1> QED
  BY <1>8, <1>9, <1>10, <1>11, <1>12, <1>13, <1>14, <1>15, <1>16 DEF Step, run

(* Every step of process_incoming() keeps it: what the call goes past the  *)
(* message that came matches, or it is optional.                           *)
LEMMA HeardIncoming ==
    ASSUME IInv, HeardInv, NEW a \in Agent, Awaiting(Scenario[a]),
           NEW m \in Messages, process_incoming(a, m)
    PROVE  HeardInv'
<1> DEFINE h == Handler(a)
           c == Established(h, m)
           s == Scenario[a]
           S == sent'[Peer[a]]
<1>1. /\ Good(s, h) /\ config \in Configurations /\ config' = config
      /\ DOMAIN s \subseteq Nat
  BY HandlerIsGood, ScenarioIsArray DEF process_incoming, IInv
<1>2. Straight(a) => Listened(s, h, sent[Peer[a]])
  <2>1. CASE call[a].live
    <3>1. h = [call[a] EXCEPT !.running = TRUE] /\ Good(s, call[a])
      BY <2>1, LiveIsGood DEF Handler
    <3>2. h.msg_index = call[a].msg_index /\ h.paused_until = call[a].paused_until
      BY <3>1 DEF Good, CallType
    <3> HIDE DEF h
    <3> QED
      BY <2>1, <3>2 DEF HeardInv, Listened, AtPause
  <2>2. CASE ~call[a].live
    <3>1. h.msg_index = 0 /\ h.paused_until = "off"
      BY <2>2 DEF Handler, NewCall
    <3> HIDE DEF h
    <3>2. \A j \in DOMAIN s : ~(j < 0)
      BY <1>1
    <3> QED
      BY <3>1, <3>2 DEF Listened, AtPause, Heard
  <2> QED
    BY <2>1, <2>2
<1>3. c.msg_index = h.msg_index /\ c.paused_until = h.paused_until
  BY <1>1 DEF Established, Good, CallType
<1>4. Good(s, c)
  <2>1. c = h \/ c = [h EXCEPT !.call_established = TRUE]
    BY DEF Established
  <2> HIDE DEF c, h, s
  <2> QED
    BY ZenonT(60), <1>1, <2>1 DEF Good, CallType
<1> HIDE DEF c, h, s
<1>5. ASSUME Grown, Straight(a) PROVE Heard(s, S, h.msg_index) /\ AtPause(s, h)
  <2>1. sent[Peer[a]] \subseteq S
    BY <1>5, CallAssumption DEF Grown
  <2> QED
    BY <1>2, <1>5, <2>1, HeardMore DEF Listened
<1> HIDE DEF S
<1>6. ASSUME NEW d, Returns(a, d), Grown, d.msg_index = h.msg_index,
             d.paused_until = h.paused_until
      PROVE  HeardInv'
  <2>1. Straight(a) => Listened(s, d, S)
    BY <1>5, <1>6 DEF Listened, AtPause
  <2> QED
    BY <1>1, <1>6, <2>1, HeardReturns DEF Returns, s, S
<1>7. CASE ReceiveRetransmission(a, m)
  <2> DEFINE answer == s[h.recv_retrans_send_index].msg
             d == Sends(h, answer)
  <2>1. /\ Returns(a, d) \/ Returns(a, h) \/ Fails(a, FALSE)
        /\ UNCHANGED sent \/ sent' = [sent EXCEPT ![a] = @ \cup {answer}]
    BY <1>7 DEF ReceiveRetransmission, h, s
  <2>2. Grown
    BY <2>1, SentGrows
  <2>3. d.msg_index = h.msg_index /\ d.paused_until = h.paused_until
    BY <1>1 DEF Sends, Good, CallType
  <2> HIDE DEF d, answer
  <2> QED
    BY <1>1, <1>6, <2>1, <2>2, <2>3, HeardFails
<1>8. CASE ReceiveDuplicate(a, m)
  <2>1. Returns(a, h) /\ UNCHANGED sent
    BY <1>8 DEF ReceiveDuplicate, h
  <2> QED
    BY <1>6, <2>1, SentGrows
<1>9. CASE ReceiveExpected(a, m)
  <2> DEFINE i == Min(Found(a, c, m))
             t == next_retrans(c, m, i)
             c2 == [c EXCEPT !.recvhash_msgindex_pairs = @ \cup {<<m, i>>},
                             !.next_retrans = t,
                             !.ack_is_pending = @ \/ m.code \in 200..298]
             c3 == [c2 EXCEPT !.last_recv_index = i,
                              !.last_recv_hash = m,
                              !.last_recv_msg = m]
             n == [c3 EXCEPT !.paused_until = "off", !.msg_index = i]
             o == [c3 EXCEPT !.running = FALSE]
  <2>1. /\ i \in DOMAIN s /\ i >= c.msg_index
        /\ \A j \in c.msg_index..i : s[j].optional \/ matches_scenario(s, j, m)
    BY <1>1, <1>4, <1>9, FoundIsThere DEF ReceiveExpected, c, h, s
  <2>2. t \in Timer
    BY <1>4 DEF next_retrans, Good, CallType, Timer
  <2>3. Returns(a, c2) \/ next(a, n) \/ Returns(a, o)
    BY <1>9 DEF ReceiveExpected, c, h, s
  <2>4. Grown /\ m \in sent'[Peer[a]]
    <3>1. UNCHANGED sent /\ m \in sent[Peer[a]]
      BY <1>9 DEF ReceiveExpected, Arrives
    <3> QED
      BY <3>1, SentGrows
  <2> HIDE DEF i, t
  <2>5. Good(s, c2)
    BY <1>1, <1>4, <2>1, <2>2, AcceptedIsGood
  <2>6. c2.msg_index = c.msg_index /\ c2.paused_until = c.paused_until
    BY <1>4 DEF Good, CallType
  <2> HIDE DEF c2
  <2>7. CASE Returns(a, c2)
    BY <1>3, <1>6, <2>4, <2>6, <2>7
  <2>8. Good(s, c3) /\ c3.msg_index = c.msg_index /\ c3.paused_until = c.paused_until
    <3>1. Good(s, c3)
      BY <1>1, <2>1, <2>5, LastReceivedIsGood
    <3> QED
      BY <2>5, <2>6, <3>1 DEF Good, CallType
  <2> HIDE DEF c3
  <2>9. CASE next(a, n)
    <3>1. Good(s, n) /\ n.msg_index = i /\ n.paused_until = "off"
      <4>1. n = [[c3 EXCEPT !.paused_until = "off"] EXCEPT !.msg_index = i]
        BY <2>8 DEF Good, CallType
      <4>2. Good(s, n)
        BY <1>1, <2>1, <2>8, IndexIsGood
      <4> QED
        BY <2>8, <4>2 DEF Good, CallType
    <3> HIDE DEF n
    <3>2. ASSUME Straight(a), NEW j \in DOMAIN s, j < i + 1, Waited(s, j)
          PROVE  \E r \in S : matches_scenario(s, j, r)
      <4>1. j \in Nat /\ i \in Nat /\ c.msg_index \in Nat
        BY <1>1, <1>4, <2>1 DEF Good
      <4>2. CASE j < c.msg_index
        BY <1>3, <1>5, <2>4, <3>2, <4>2 DEF Heard
      <4>3. CASE ~(j < c.msg_index)
        <5>1. j \in c.msg_index..i
          BY <3>2, <4>1, <4>3
        <5>2. matches_scenario(s, j, m)
          BY <2>1, <3>2, <5>1 DEF Waited
        <5> QED
          BY <2>4, <5>2 DEF S
      <4> QED
        BY <4>2, <4>3
    <3>3. Straight(a) => Heard(s, S, n.msg_index + 1)
      BY <3>1, <3>2 DEF Heard
    <3> QED
      BY <1>1, <2>4, <2>9, <3>1, <3>3, HeardNext DEF s, S
  <2>10. CASE Returns(a, o)
    <3>1. o.msg_index = c.msg_index /\ o.paused_until = c.paused_until
      BY <2>8 DEF Good, CallType
    <3> HIDE DEF o
    <3> QED
      BY <1>3, <1>6, <2>4, <2>10, <3>1
  <2> QED
    BY <2>3, <2>7, <2>9, <2>10
<1>10. CASE ReceiveUnexpected(a, m)
  <2>1. \/ Returns(a, c) /\ UNCHANGED sent
        \/ \E ms, b : FailsSending(a, ms, b)
    BY <1>10 DEF ReceiveUnexpected, automaticResponseMode, process_unexpected,
       abortCall, c, h
  <2> QED
    BY <1>1, <1>3, <1>6, <2>1, SentGrows, HeardAbort
<1> QED
  BY <1>7, <1>8, <1>9, <1>10 DEF process_incoming

(* The other steps leave a call where it is, or create one at the          *)
(* beginning.                                                              *)
LEMMA HeardOthers ==
    ASSUME IInv, HeardInv, NEW a \in Agent,
           \/ \E timer \in Timers : Elapse(a, timer)
           \/ Originate(a) \/ WakeUp(a) \/ DeadcallExpires(a)
    PROVE  HeardInv'
<1>1. /\ config' = config /\ call[a] \in CallType /\ Grown /\ UNCHANGED <<sent, succeeded>>
      /\ DOMAIN Scenario[a] \subseteq Nat
  BY ScenarioIsArray DEF Elapse, Originate, WakeUp, DeadcallExpires, IInv, CallsOK, Grown
<1>2. ASSUME NEW d, call' = [call EXCEPT ![a] = d], call[a].live,
             d.msg_index = call[a].msg_index,
             d.paused_until # "off" => call[a].paused_until # "off"
      PROVE  HeardInv'
  <2>1. Straight(a) => Listened(Scenario[a], d, sent'[Peer[a]])
    BY <1>1, <1>2 DEF HeardInv, Listened, AtPause
  <2> QED
    BY <1>1, <1>2, <2>1, HeardReturns
<1>3. ASSUME NEW timer \in Timers, Elapse(a, timer) PROVE HeardInv'
  <2> DEFINE d == [call[a] EXCEPT ![timer] = "due"]
  <2>1. call' = [call EXCEPT ![a] = d] /\ call[a].live /\ call[a][timer] = "armed"
    BY <1>3 DEF Elapse
  <2>2. d.msg_index = call[a].msg_index
    BY <1>1 DEF Timers, CallType
  <2>3. d.paused_until # "off" => call[a].paused_until # "off"
    BY <1>1, <2>1 DEF Timers, CallType
  <2> HIDE DEF d
  <2> QED
    BY <1>2, <2>1, <2>2, <2>3
<1>4. CASE WakeUp(a)
  <2> DEFINE d == [call[a] EXCEPT !.running = TRUE]
  <2>1. call' = [call EXCEPT ![a] = d] /\ call[a].live
    BY <1>4 DEF WakeUp
  <2>2. d.msg_index = call[a].msg_index /\ d.paused_until = call[a].paused_until
    BY <1>1 DEF CallType
  <2> HIDE DEF d
  <2> QED
    BY <1>2, <2>1, <2>2
<1>5. CASE Originate(a)
  <2>1. NewCall.msg_index = 0 /\ NewCall.paused_until = "off"
    BY DEF NewCall
  <2>2. \A j \in DOMAIN Scenario[a] : ~(j < 0)
    BY <1>1
  <2>3. Listened(Scenario[a], NewCall, sent'[Peer[a]])
    BY <2>1, <2>2 DEF Listened, AtPause, Heard
  <2> QED
    BY <1>1, <1>5, <2>3, HeardReturns DEF Originate
<1>6. CASE DeadcallExpires(a)
  <2>1. Scenario' = Scenario /\ call' = call
    BY <1>1, <1>6 DEF Scenario, DeadcallExpires
  <2> QED
    BY <1>1, <2>1 DEF HeardInv, Straight, Size
<1> QED
  BY <1>3, <1>4, <1>5, <1>6

(* A message that matches where a final answer is expected is one, because *)
(* the response is looked up by its transaction.                           *)
LEMMA MatchAnswers ==
    ASSUME IInv, NEW a \in Agent, Named(a), NEW k \in DOMAIN Scenario[a],
           NEW j \in DOMAIN Scenario[a], Waited(Scenario[a], j),
           FinalAnswer(Scenario[a][k].msg, Scenario[a][j].msg),
           NEW m \in Messages, matches_scenario(Scenario[a], j, m)
    PROVE  FinalAnswer(Scenario[a][k].msg, m)
<1> DEFINE s == Scenario[a]
<1>1. /\ m.code = s[j].msg.code
      /\ IsRequest(m) \/ s[j].txn => s[j].msg.method = m.method
  BY DEF matches_scenario
<1>2. CASE IsRequest(s[k].msg)
  <2>1. s[j].msg.code >= 200 /\ s[j].msg.method = s[k].msg.method
    BY <1>2 DEF FinalAnswer
  <2>2. s[j].txn
    BY <2>1 DEF Named, Waited, IsRequest
  <2> QED
    BY <1>1, <1>2, <2>1, <2>2 DEF FinalAnswer
<1>3. CASE ~IsRequest(s[k].msg)
  <2>1. s[j].msg = ACK
    BY <1>3 DEF FinalAnswer
  <2>2. m.code = 0 /\ m.method = "ACK"
    BY <1>1, <2>1 DEF ACK, Msg, IsRequest
  <2>3. m = ACK
    BY <2>2, MessagesAreRecords DEF ACK
  <2> QED
    BY <1>3, <2>3 DEF FinalAnswer
<1> QED
  BY <1>2, <1>3

(* In scenarios that wait for the answers to what they retransmit, with    *)
(* named transactions and no timeout that skips a part, a call counts as   *)
(* successful only when its peer has answered all that (process_incoming,  *)
(* next, terminate).                                                       *)
THEOREM SuccessIsAnswered ==
    ASSUME \A c \in Configurations, a \in Agent : Awaiting(c.scenario[a])
    PROVE  Spec => []SuccessMeansAnswered
<1>1. config \in Configurations => \A a \in Agent : Awaiting(Scenario[a])
  BY DEF Scenario
<1>2. Init => HeardInv
  BY NewCallIsGood DEF Init, HeardInv
<1>3. IInv /\ HeardInv /\ [Next]_vars => HeardInv'
  <2> SUFFICES ASSUME IInv, HeardInv, [Next]_vars PROVE HeardInv'
    OBVIOUS
  <2>1. CASE UNCHANGED vars
    <3>1. Scenario' = Scenario /\ call' = call /\ sent' = sent /\ succeeded' = succeeded
      BY <2>1 DEF Scenario, vars
    <3> QED
      BY <3>1 DEF HeardInv, Straight, Size
  <2>2. CASE Next
    <3> PICK a \in Agent :
          \/ Step(a)
          \/ \E m \in Messages : process_incoming(a, m)
          \/ Originate(a)
          \/ \E timer \in Timers : Elapse(a, timer)
          \/ WakeUp(a)
          \/ DeadcallExpires(a)
      BY <2>2 DEF Next
    <3>1. Awaiting(Scenario[a])
      BY <1>1 DEF IInv
    <3> QED
      BY <3>1, HeardRun, HeardIncoming, HeardOthers
  <2> QED
    BY <2>1, <2>2
<1>4. IInv /\ HeardInv => SuccessMeansAnswered
  <2> SUFFICES ASSUME IInv, HeardInv, NEW a \in Agent, Straight(a), Named(a),
                      succeeded[a] > 0, NEW k \in DOMAIN Scenario[a], Hard(Scenario[a], k)
               PROVE  \E answer \in sent[Peer[a]] : FinalAnswer(Scenario[a][k].msg, answer)
    BY DEF SuccessMeansAnswered, Answered, Hard
  <2> DEFINE s == Scenario[a]
  <2>1. Awaiting(s) /\ DOMAIN s = 0..Size(a)-1 /\ Size(a) \in Nat
    BY <1>1, ScenarioIsArray DEF IInv
  <2>2. PICK j \in DOMAIN s : Waited(s, j) /\ FinalAnswer(s[k].msg, s[j].msg)
    BY <2>1 DEF Awaiting
  <2>3. Heard(s, sent[Peer[a]], Size(a))
    BY DEF HeardInv
  <2>4. j < Size(a)
    BY <2>1
  <2>5. PICK m \in sent[Peer[a]] : matches_scenario(s, j, m)
    BY <2>2, <2>3, <2>4 DEF Heard
  <2>6. m \in Messages
    BY <2>5, CallAssumption DEF IInv
  <2> QED
    BY <2>2, <2>5, <2>6, MatchAnswers
<1> QED
  BY <1>2, <1>3, <1>4, Invariance, PTL DEF Spec

-----------------------------------------------------------------------------
(***************************************************************************)
(* TdmMap: the circuits of calls, for any number of calls and circuits.    *)
(***************************************************************************)
(* The table keeps its entries, and a call has the number of a circuit.    *)
TableOK == /\ tdm_map \in [Entry -> BOOLEAN]
           /\ tdm_map_number \in [Call -> 0..Circuits]
           /\ live \in SUBSET Call
           /\ overrun \in BOOLEAN

-----------------------------------------------------------------------------
(* The search only looks at indices of circuits.                           *)
LEMMA ProbeIsIndex ==
    ASSUME NEW random \in Index, NEW i \in Index
    PROVE  Probe(random, i) \in Index
<1>1. /\ Circuits \in Int /\ 0 < Circuits
      /\ UintModulus \in Int /\ 0 < UintModulus
      /\ random + i - 1 \in Int
  BY MapAssumption DEF Index
<1> DEFINE wrapped == (random + i - 1) % UintModulus
<1>2. wrapped \in Int
  BY <1>1
<1>3. wrapped % Circuits \in 0..Circuits - 1
  <2> HIDE DEF wrapped
  <2> QED
    BY <1>1, <1>2
<1> QED
  BY <1>3 DEF Probe, Index

(* What the search finds in the table is free.                             *)
LEMMA FoundIsFree ==
    ASSUME NEW random \in Index, FreeProbes(random) # {}
    PROVE  /\ get_tdm_map_number(random) \in 1..Circuits
           /\ get_tdm_map_number(random) - 1 \in Entry
                => ~ tdm_map[get_tdm_map_number(random) - 1]
<1> DEFINE first == Min(FreeProbes(random))
<1>1. FreeProbes(random) \in SUBSET Nat
  BY MapAssumption DEF FreeProbes, Index
<1>2. first \in FreeProbes(random)
  BY <1>1, MinIsLeast
<1>3. first \in Index /\ (Probe(random, first) \in Entry => ~ tdm_map[Probe(random, first)])
  BY <1>2 DEF FreeProbes
<1>4. Probe(random, first) \in 0..Circuits - 1
  BY <1>3, ProbeIsIndex DEF Index
<1>5. get_tdm_map_number(random) = Probe(random, first) + 1
  BY DEF get_tdm_map_number
<1>6. get_tdm_map_number(random) - 1 = Probe(random, first)
  BY <1>4, <1>5, MapAssumption
<1> QED
  BY <1>3, <1>4, <1>5, <1>6, MapAssumption

(* The number of a circuit, or 0.                                          *)
LEMMA NumberType ==
    ASSUME NEW random \in Index
    PROVE  get_tdm_map_number(random) \in 0..Circuits
<1>1. CASE FreeProbes(random) = {}
  BY <1>1, MapAssumption DEF get_tdm_map_number
<1>2. CASE FreeProbes(random) # {}
  BY <1>2, FoundIsFree, MapAssumption
<1> QED
  BY <1>1, <1>2

(* A remainder and its modulus.                                            *)
LEMMA Small ==
    ASSUME NEW m \in Nat, 0 < m, NEW a \in Nat, a < m
    PROVE  a % m = a
OBVIOUS

(* A number that goes once round the circuits is back where it was.        *)
LEMMA Turn ==
    ASSUME NEW m \in Nat, 0 < m, NEW a \in Nat, a < m
    PROVE  (a + m) % m = a
OBVIOUS

(* The search looks at every circuit when their number divides what        *)
(* unsigned arithmetic wraps at.                                           *)
LEMMA ProbesCover ==
    ASSUME UintModulus % Circuits = 0,
           NEW random \in Index, NEW n \in Index
    PROVE  \E i \in Index : Probe(random, i) = n
<1> USE DEF Index
<1>1. Circuits \in Nat /\ 0 < Circuits /\ UintModulus \in Nat /\ Circuits < UintModulus
  BY MapAssumption
<1>2. PICK q \in Nat : UintModulus = q * Circuits
  BY <1>1
<1>3. q >= 2
  <2>1. q # 0 /\ q # 1
    BY <1>1, <1>2
  <2> QED
    BY <2>1
<1>4. UintModulus >= 2 * Circuits
  BY <1>1, <1>2, <1>3
<1>5. CASE n >= random - 1 /\ n - random + 1 <= Circuits - 1
  <2> DEFINE i == n - random + 1
  <2>1. i \in Index /\ random + i - 1 = n
    BY <1>1, <1>5
  <2>2. n % UintModulus = n /\ n % Circuits = n
    BY <1>1, Small
  <2> QED
    BY <2>1, <2>2 DEF Probe
<1>6. CASE n < random - 1
  <2> DEFINE i == n - random + 1 + Circuits
  <2>1. i \in Index /\ random + i - 1 = n + Circuits
    BY <1>1, <1>6
  <2>2. (n + Circuits) % UintModulus = n + Circuits
    BY <1>1, <1>4, Small
  <2>3. (n + Circuits) % Circuits = n
    BY <1>1, Turn
  <2> QED
    BY <2>1, <2>2, <2>3 DEF Probe
<1>7. CASE random = 0 /\ n = Circuits - 1
  <2>1. 0 \in Index /\ random + 0 - 1 = -1
    BY <1>1, <1>7
  <2>2. (-1) % UintModulus = UintModulus - 1
    BY <1>1
  <2>3. (UintModulus - 1) % Circuits = Circuits - 1
    <3>1. q - 1 \in Nat /\ UintModulus - 1 = (q - 1) * Circuits + (Circuits - 1)
      BY <1>1, <1>2, <1>3
    <3> QED
      BY <1>1, <3>1
  <2> QED
    BY <1>7, <2>1, <2>2, <2>3 DEF Probe
<1> QED
  BY <1>1, <1>5, <1>6, <1>7

-----------------------------------------------------------------------------
(* A call or its end leave a table.                                        *)
LEMMA TableKept == TableOK /\ [TdmNext]_tdm_vars => TableOK'
<1> SUFFICES ASSUME TableOK, [TdmNext]_tdm_vars PROVE TableOK'
  OBVIOUS
<1>1. CASE Overruns
  <2>1. overrun' \in BOOLEAN
    BY <1>1 DEF Overruns
  <2> QED
    BY <1>1, <2>1 DEF Overruns, TableOK
<1>2. ASSUME NEW c \in Call, NEW random \in Index, CreateCall(c, random)
      PROVE  TableOK'
  <2> DEFINE n == get_tdm_map_number(random)
  <2>1. n \in 0..Circuits
    BY NumberType
  <2>2. CASE n = 0 \/ n - 1 \in Entry
    <3>1. /\ live' = live \cup {c} /\ tdm_map_number' = [tdm_map_number EXCEPT ![c] = n]
          /\ tdm_map' = IF n = 0 THEN tdm_map ELSE [tdm_map EXCEPT ![n - 1] = TRUE]
          /\ overrun' = overrun
      BY <1>2, <2>2 DEF CreateCall
    <3> HIDE DEF n
    <3>2. tdm_map' \in [Entry -> BOOLEAN]
      BY <3>1 DEF TableOK
    <3>3. tdm_map_number' \in [Call -> 0..Circuits] /\ live' \in SUBSET Call
      BY <2>1, <3>1 DEF TableOK
    <3> QED
      BY <3>1, <3>2, <3>3 DEF TableOK
  <2>3. CASE ~(n = 0 \/ n - 1 \in Entry)
    BY <1>1, <1>2, <2>3 DEF CreateCall
  <2> QED
    BY <2>2, <2>3
<1>3. ASSUME NEW c \in Call, DeleteCall(c) PROVE TableOK'
  <2>1. CASE tdm_map_number[c] \in Entry
    <3>1. /\ live' = live \ {c} /\ overrun' = overrun
          /\ tdm_map' = [tdm_map EXCEPT ![tdm_map_number[c]] = FALSE]
          /\ tdm_map_number' = [tdm_map_number EXCEPT ![c] = 0]
      BY <1>3, <2>1 DEF DeleteCall, Released
    <3>2. tdm_map' \in [Entry -> BOOLEAN]
      BY <3>1 DEF TableOK
    <3>3. tdm_map_number' \in [Call -> 0..Circuits] /\ live' \in SUBSET Call
      BY <3>1, MapAssumption DEF TableOK
    <3> QED
      BY <3>1, <3>2, <3>3 DEF TableOK
  <2>2. CASE tdm_map_number[c] \notin Entry
    BY <1>1, <1>3, <2>2 DEF DeleteCall
  <2> QED
    BY <2>1, <2>2
<1>4. CASE DeleteAutomaticCall
  <2>1. ASSUME NEW n \in Entry, tdm_map' = Released(n),
               UNCHANGED <<tdm_map_number, live, overrun>>
        PROVE  TableOK'
    BY <2>1 DEF Released, TableOK
  <2> QED
    BY <1>1, <1>4, <2>1 DEF DeleteAutomaticCall
<1>5. CASE UNCHANGED tdm_vars
  BY <1>5 DEF tdm_vars, TableOK
<1> QED
  BY <1>2, <1>3, <1>4, <1>5 DEF TdmNext

(* The table keeps its shape.                                              *)
LEMMA TableTypes == TdmSpec => []TableOK
<1>1. TdmInit => TableOK
  <2>1. overrun = FALSE => overrun \in BOOLEAN
    OBVIOUS
  <2>2. 0 \in 0..Circuits
    BY MapAssumption
  <2> QED
    BY <2>1, <2>2 DEF TdmInit, TableOK
<1> QED
  BY <1>1, TableKept, PTL DEF TdmSpec

(* StaysInTable: with fewer circuits than the table has entries, and       *)
(* without automatic calls, call.cpp, which tests no index, never reads or *)
(* writes outside of the table.  One circuit more is too many, as the      *)
(* destructor clears the entry behind that of the call.                    *)
THEOREM FewCircuitsStayInTable ==
    ASSUME Circuits < TableSize, ~Automatic
    PROVE  TdmSpec => []StaysInTable
<1>1. TdmInit => StaysInTable
  BY DEF TdmInit, StaysInTable
<1>2. ASSUME TableOK, StaysInTable, [TdmNext]_tdm_vars PROVE StaysInTable'
  <2>1. \A n \in 0..Circuits : n \in Entry /\ (n = 0 \/ n - 1 \in Entry)
    BY MapAssumption DEF Entry
  <2>2. ASSUME NEW c \in Call, NEW random \in Index, CreateCall(c, random)
        PROVE  overrun' = overrun
    BY <2>1, <2>2, NumberType DEF CreateCall
  <2>3. ASSUME NEW c \in Call, DeleteCall(c) PROVE overrun' = overrun
    <3>1. tdm_map_number[c] \in 0..Circuits
      BY <1>2 DEF TableOK
    <3> QED
      BY <2>1, <2>3, <3>1 DEF DeleteCall
  <2>4. overrun' = overrun
    BY <1>2, <2>2, <2>3 DEF TdmNext, DeleteAutomaticCall, tdm_vars
  <2> QED
    BY <1>2, <2>4 DEF StaysInTable
<1> QED
  BY <1>1, <1>2, TableTypes, PTL DEF TdmSpec

(* Whatever the modulus: a call that gets a circuit gets one of those of   *)
(* the map, which the table shows free.                                    *)
NewNumberIsFree ==
    [][\A c \in Call : c \in live' \ live /\ tdm_map_number'[c] # 0 =>
         /\ tdm_map_number'[c] \in 1..Circuits
         /\ ~tdm_map[tdm_map_number'[c] - 1]]_tdm_vars

(* A step in which a call begins is the creation of that call.             *)
LEMMA NewCallStep ==
    ASSUME TableOK, [TdmNext]_tdm_vars, NEW c \in Call, c \in live' \ live
    PROVE  \E random \in Index :
              LET n == get_tdm_map_number(random)
              IN  tdm_map_number'[c] = n /\ (n = 0 \/ n - 1 \in Entry)
<1>1. PICK d \in Call, random \in Index : CreateCall(d, random)
  BY DEF TdmNext, DeleteCall, DeleteAutomaticCall, Overruns, tdm_vars
<1>2. d = c
  BY <1>1 DEF CreateCall, Overruns
<1> QED
  BY <1>1, <1>2 DEF CreateCall, Overruns, TableOK

(* NewNumberIsFree (call::init): for every number of circuits.             *)
THEOREM NewCallsCircuitWasFree == TdmSpec => NewNumberIsFree
<1>1. ASSUME TableOK, [TdmNext]_tdm_vars, NEW c \in Call, c \in live' \ live,
             tdm_map_number'[c] # 0
      PROVE  /\ tdm_map_number'[c] \in 1..Circuits
             /\ ~tdm_map[tdm_map_number'[c] - 1]
  <2>1. PICK random \in Index :
          LET n == get_tdm_map_number(random)
          IN  tdm_map_number'[c] = n /\ (n = 0 \/ n - 1 \in Entry)
    BY <1>1, NewCallStep
  <2>2. FreeProbes(random) # {}
    BY <1>1, <2>1 DEF get_tdm_map_number
  <2> QED
    BY <1>1, <2>1, <2>2, FoundIsFree
<1>2. TableOK /\ [TdmNext]_tdm_vars =>
        [\A c \in Call : c \in live' \ live /\ tdm_map_number'[c] # 0 =>
           /\ tdm_map_number'[c] \in 1..Circuits
           /\ ~tdm_map[tdm_map_number'[c] - 1]]_tdm_vars
  BY <1>1
<1> QED
  BY <1>2, TableTypes, PTL DEF TdmSpec, NewNumberIsFree

(* TableDecides (get_tdm_map_number(), call.cpp:108-132), when the number  *)
(* of circuits divides 2^32.  For the others the search overlooks a        *)
(* circuit, so that the hypothesis cannot be left out.                     *)
THEOREM TableIsObeyed ==
    ASSUME UintModulus % Circuits = 0
    PROVE  TdmSpec => TableDecides
<1>1. ASSUME TableOK, [TdmNext]_tdm_vars, NEW c \in Call, c \in live' \ live
      PROVE  IF tdm_map_number'[c] = 0
               THEN \A i \in Index : tdm_map[i]
               ELSE ~tdm_map[tdm_map_number'[c] - 1]
  <2>1. PICK random \in Index :
          LET n == get_tdm_map_number(random)
          IN  tdm_map_number'[c] = n /\ (n = 0 \/ n - 1 \in Entry)
    BY <1>1, NewCallStep
  <2>2. CASE FreeProbes(random) = {}
    <3>1. tdm_map_number'[c] = 0
      BY <2>1, <2>2 DEF get_tdm_map_number
    <3>2. ASSUME NEW n \in Index
          PROVE  tdm_map[n]
      <4>1. PICK i \in Index : Probe(random, i) = n
        BY ProbesCover
      <4>2. i \notin FreeProbes(random)
        BY <2>2
      <4> QED
        BY <4>1, <4>2 DEF FreeProbes, Index
    <3> QED
      BY <3>1, <3>2
  <2>3. CASE FreeProbes(random) # {}
    BY <2>1, <2>3, FoundIsFree, MapAssumption
  <2> QED
    BY <2>2, <2>3
<1>2. TableOK /\ [TdmNext]_tdm_vars =>
        [\A c \in Call : c \in live' \ live =>
           IF tdm_map_number'[c] = 0
             THEN \A i \in Index : tdm_map[i]
             ELSE ~tdm_map[tdm_map_number'[c] - 1]]_tdm_vars
  BY <1>1
<1> QED
  BY <1>2, TableTypes, PTL DEF TdmSpec, TableDecides
=============================================================================
