------------------------------- MODULE MCCall -------------------------------
(* Small instances of Call: a client and a server with the scenarios that  *)
(* are built into sipp ('uac' and 'uas' of scenario.cpp), with few of the  *)
(* optional provisional responses.                                         *)
EXTENDS Call, Sequences, TLC

uac == "uac"
uas == "uas"

FromZero(seq) == [i \in 0..Len(seq)-1 |-> seq[i+1]]

Send(m)     == Element("send", m)
SendHard(m) == [Element("send", m) EXCEPT !.retrans = TRUE]
Recv(m)     == Element("recv", m)
RecvOpt(m)  == [Element("recv", m) EXCEPT !.optional = TRUE]
Pause       == Element("pause", NoMsg)
InTxn(e)    == [e EXCEPT !.txn = TRUE]

(* Default_scenario[0], with the responses named by transaction or not, and *)
(* a 100 that does not advance the state.                                   *)
UAC ==
  << SendHard(INVITE), RecvOpt(Msg(180, "INVITE")), Recv(Msg(200, "INVITE")),
     Send(ACK), Pause, SendHard(BYE), Recv(Msg(200, "BYE")) >>
UACTxn ==
  << InTxn(SendHard(INVITE)),
     [InTxn(RecvOpt(Msg(100, "INVITE"))) EXCEPT !.advance_state = FALSE],
     InTxn(RecvOpt(Msg(180, "INVITE"))),
     InTxn(Recv(Msg(200, "INVITE"))), InTxn(Send(ACK)), Pause,
     InTxn(SendHard(BYE)), InTxn(Recv(Msg(200, "BYE"))) >>
UACProvisionals ==
  << SendHard(INVITE), RecvOpt(Msg(100, "INVITE")), RecvOpt(Msg(180, "INVITE")),
     Recv(Msg(200, "INVITE")), Send(ACK), SendHard(BYE), Recv(Msg(200, "BYE")) >>

(* The same, which stays for a while after its end: its state can be seen.   *)
UACStays == UACTxn \o << Pause >>

(* Timeouts that jump to a label where the call is cancelled, a branch to   *)
(* the end, and optional messages that do not move the call on.             *)
UACLabels ==
  << [InTxn(SendHard(INVITE)) EXCEPT !.on_timeout = 7],
     [InTxn(RecvOpt(Msg(180, "INVITE"))) EXCEPT !.test = FALSE],
     [InTxn(Recv(Msg(200, "INVITE"))) EXCEPT !.on_timeout = 7],
     InTxn(Send(ACK)), Pause, InTxn(SendHard(BYE)),
     [InTxn(Recv(Msg(200, "BYE"))) EXCEPT !.next = 9],
     Send(CANCEL), Pause >>

(* Default_scenario[1].                                                     *)
UAS ==
  << Recv(INVITE), Send(Msg(180, "INVITE")), SendHard(Msg(200, "INVITE")),
     Recv(ACK), Recv(BYE), Send(Msg(200, "BYE")), Pause >>
UASProvisionals ==
  << Recv(INVITE), Send(Msg(100, "INVITE")), Send(Msg(180, "INVITE")),
     SendHard(Msg(200, "INVITE")), Recv(ACK), Recv(BYE), Send(Msg(200, "BYE")) >>
UASRefuses ==
  << Recv(INVITE), Send(Msg(100, "INVITE")), SendHard(Msg(486, "INVITE")), Recv(ACK) >>

Peers == [a \in {uac, uas} |-> IF a = uac THEN uas ELSE uac]
Config(uacScenario, uasScenario, options) ==
    [scenario |-> (uac :> FromZero(uacScenario) @@ uas :> FromZero(uasScenario)),
     options  |-> options]

(* What the passing run covers: congested sockets; labels; a server that    *)
(* refuses; -absorb_retrans with sends that fail.                           *)
Covered ==
    { Config(UACTxn, UAS, {"RecvTimeout", "SendTimeout", "DeadcallWait", "Congestion"}),
      Config(UACLabels, UAS, {"RecvTimeout", "DeadcallWait"}),
      Config(UACTxn, UASRefuses, {"RecvTimeout"}),
      Config(UACStays, UAS, {"RecvTimeout", "AbsorbRetrans", "SendErrors"}) }

Plain        == {Config(UAC, UAS, {"RecvTimeout", "DeadcallWait"})}
Transactions == {Config(UACTxn, UAS, {"RecvTimeout", "DeadcallWait"})}
Provisionals == {Config(UACProvisionals, UASProvisionals, {"RecvTimeout", "DeadcallWait"})}
Failing      == {Config(UACTxn, UAS, {"RecvTimeout", "DeadcallWait", "SendErrors"})}

(* The scenarios are of the kinds that are proved about for every size;     *)
(* only those without labels are known to acknowledge, and only those with  *)
(* named transactions to stop a retransmission for nothing but its answer.  *)
NamedResponses(s) ==
    \A i \in DOMAIN s : s[i].type = "recv" /\ ~IsRequest(s[i].msg) => s[i].txn
NoLabels(s) == \A i \in DOMAIN s : s[i].next = -1 /\ s[i].on_timeout = -1
ASSUME ScenariosAreProvedAbout ==
    /\ Roles
    /\ \A c \in Configurations, a \in Agent :
         LET s == c.scenario[a]
         IN  /\ Prompt(s) /\ Orderly(s) /\ Awaiting(s)
             /\ NamedResponses(s) => Settling(s)
             /\ NoLabels(s) => Acknowledging(s)
=============================================================================
