--------------------------- MODULE LooseSequence ---------------------------
(***************************************************************************)
(* loose_message_sequence: with -mc every message belongs to the one call, *)
(* and messages of different dialogs may come in any order.  A call skips  *)
(* what it received early, which it knows by comparing how often all calls *)
(* received an element with the number of calls.  Elements are numbered    *)
(* from 1.  The transport is UDP, where -mc absorbs what the call received *)
(* before and sends nothing again.                                         *)
(***************************************************************************)
EXTENDS Integers, Sequences, FiniteSets, FiniteSetsExt

CONSTANTS Scenarios,     \* sequences of [type, dialog, optional, class]
          Calls,         \* -m
          Copies,        \* bound on the copies of an optional message
          MaxStrays,     \* bound on messages out of order
          StrayCalls,    \* the calls in which peers send messages out of order
          LateOptionals, \* whether peers send optional messages the call is past
          None           \* a dialog without a Call-ID

ASSUME LooseAssumption ==
    /\ Calls \in Nat \ {0} /\ Copies \in Nat \ {0} /\ MaxStrays \in Nat
    /\ StrayCalls \subseteq Nat /\ LateOptionals \in BOOLEAN
    /\ \A s \in Scenarios :
          /\ Len(s) \in Nat \ {0} /\ DOMAIN s = 1..Len(s)
          /\ s[1].type = "send"
          /\ \A i \in DOMAIN s : /\ s[i].type \in {"send", "recv", "pause", "nop"}
                                 /\ s[i].optional \in BOOLEAN
                                 /\ s[i].optional => s[i].type = "recv"
                                 /\ s[i].dialog # None

VARIABLES scenario,
          calls,     \* cumulative_calls
          nb_recv,   \* element -> messages received, over all calls
          outcome,   \* of the call: "none", "open", "success", "failed"
          msg_index,
          paused,    \* paused_until is set
          call_ids,  \* dialog -> the peer whose Call-ID it has
          recvhash,  \* the messages of recvhash_msgindex_pairs
          before,    \* nb_recv when the call was created
          executed,  \* the elements that the call executed, other than <recv>
          delivered, \* the elements whose message its peer sent
          strays     \* messages sent out of order

position == <<msg_index, executed, outcome>>
callvars == <<position, paused, call_ids, recvhash, nb_recv>>
vars == <<scenario, calls, callvars, before, delivered, strays>>

Last == Len(scenario)
Elements == 1..Last
Type(i) == scenario[i].type
Dialog(i) == scenario[i].dialog
Optional(i) == scenario[i].optional
Receives(i) == Type(i) = "recv"
Sends(i) == Type(i) = "send"
Dialogs == {Dialog(i) : i \in {j \in Elements : Receives(j) \/ Sends(j)}}
Received(i) == nb_recv[i] - before[i]

(* The peer of dialog d has Call-ID d; copies of a message differ in their *)
(* hash.                                                                   *)
Message(i, copy) == [of |-> i, class |-> scenario[i].class, call_id |-> Dialog(i), copy |-> copy]

-----------------------------------------------------------------------------
(***************************************************************************)
(* What the scenario may be: the loader's check of optional messages, and  *)
(* that of the first call.                                                 *)
(***************************************************************************)
CheckOptionalRecv(s) ==
    \A i \in 2..Len(s) : s[i - 1].optional => s[i].type = "recv"

NextInSameOrDefault(s, i) ==
    {j \in (i + 1)..Len(s) : s[j].type \in {"pause", "nop"} \/ s[j].dialog = s[i].dialog}

(* Any optional message may come last in its dialog, but not in the scenario. *)
Problematic(s, i) ==
    /\ s[i].optional
    /\ \/ i = Len(s)
       \/ \E j \in NextInSameOrDefault(s, i) :
             /\ j = Min(NextInSameOrDefault(s, i))
             /\ s[j].type # "recv"

Loads(s) == CheckOptionalRecv(s) /\ \A i \in DOMAIN s : ~Problematic(s, i)

-----------------------------------------------------------------------------
(***************************************************************************)
(* Advancing.  n is the number of calls.                                   *)
(***************************************************************************)
Unreceived(recv, n, i) == ~Optional(i) /\ recv[i] < n

get_last_insequence_received_message(recv, n, from) ==
    IF Receives(from) /\ Unreceived(recv, n, from)
    THEN from
    ELSE Max({from} \cup
             {k \in (from + 1)..Last :
                /\ ~Optional(k)
                /\ \A j \in (from + 1)..k : ~Sends(j) /\ ~Unreceived(recv, n, j)})

(* A slip: next() does not look at what came early.                        *)
NextIndex_NoSkip(recv, n, i) == 1 + i

(* next().  Only <recv> moves on without a look at what came early, for    *)
(* process_incoming() has looked.                                          *)
NextIndex(recv, n, i) ==
    1 + IF Receives(i) THEN i ELSE get_last_insequence_received_message(recv, n, i)

(* The elements that next() and run() go through, up to one that waits.    *)
Reached(recv, n, first) ==
    LET reached[i \in 1..(Last + 1)] ==
            {i} \cup (IF i \in Elements /\ Type(i) \in {"send", "nop"}
                      THEN reached[NextIndex(recv, n, i)]
                      ELSE {})
    IN  reached[first]

(* A slip: the last element is not the end.                                *)
Runs_PastEnd(recv, n, first, ids, past) ==
    \E reached \in {Reached(recv, n, first)} :
    \E own \in {{i \in reached \cap Elements : ~Receives(i)}} :
       /\ msg_index' = Max(reached)
       /\ executed' = past \cup own
       /\ call_ids' = [d \in Dialogs |->
                         IF ids[d] = None /\ \E i \in own : Sends(i) /\ Dialog(i) = d
                         THEN d ELSE ids[d]]
       /\ paused' = (Max(reached) \in own)
       /\ outcome' = IF Max(reached) > Last + 1 THEN "success" ELSE "open"

(* The call goes through what it can and waits.  A dialog gets its Call-ID *)
(* with its first message that is sent.                                    *)
Runs(recv, n, first, ids, past) ==
    \E reached \in {Reached(recv, n, first)} :
    \E own \in {{i \in reached \cap Elements : ~Receives(i)}} :
       /\ msg_index' = Max(reached)
       /\ executed' = past \cup own
       /\ call_ids' = [d \in Dialogs |->
                         IF ids[d] = None /\ \E i \in own : Sends(i) /\ Dialog(i) = d
                         THEN d ELSE ids[d]]
       /\ paused' = (Max(reached) \in own)
       /\ outcome' = IF Max(reached) > Last THEN "success" ELSE "open"

-----------------------------------------------------------------------------
(***************************************************************************)
(* process_incoming()                                                      *)
(***************************************************************************)
matches_scenario(i, m) ==
    /\ Receives(i)
    /\ scenario[i].class = m.class
    /\ \A d \in Dialogs : call_ids[d] = m.call_id => d = Dialog(i)
    /\ call_ids[Dialog(i)] \in {None, m.call_id}

(* A slip: only what is to be received closes a dialog.                    *)
Blocks_NotSends(i, m) == /\ ~matches_scenario(i, m)
                         /\ Receives(i)
                         /\ Unreceived(nb_recv, calls, i)

(* An element that closes its dialog to the search.                        *)
Blocks(i, m) == /\ ~matches_scenario(i, m)
                /\ Receives(i) \/ Sends(i)
                /\ Unreceived(nb_recv, calls, i)

(* A slip: an element closes all dialogs, as without loose_message_sequence. *)
Candidates_Strict(m) ==
    {i \in msg_index..Last :
        /\ matches_scenario(i, m)
        /\ Optional(i) \/ Unreceived(nb_recv, calls, i)
        /\ \A j \in msg_index..(i - 1) : ~Blocks(j, m)}

(* The elements that take m; the search stops at the first.                *)
Candidates(m) ==
    {i \in msg_index..Last :
        /\ matches_scenario(i, m)
        /\ Optional(i) \/ Unreceived(nb_recv, calls, i)
        /\ \A j \in msg_index..(i - 1) : Dialog(j) = Dialog(i) => ~Blocks(j, m)}

(* A pause is forgotten: unless the call goes on, run() begins it again.   *)
Waits(i, last, ids) ==
    /\ msg_index' = IF i = msg_index THEN i ELSE last
    /\ paused' = FALSE
    /\ call_ids' = ids
    /\ UNCHANGED <<executed, outcome>>

Match(i, m) ==
    \E recv \in {[nb_recv EXCEPT ![i] = @ + 1]}, ids \in {[call_ids EXCEPT ![Dialog(i)] = m.call_id]} :
    \E last \in {get_last_insequence_received_message(recv, calls, msg_index)} :
       /\ nb_recv' = recv
       /\ recvhash' = recvhash \cup {m}
       /\ IF last < i \/ (i = msg_index /\ Optional(i))
          THEN Waits(i, last, ids)
          ELSE Runs(recv, calls, NextIndex(recv, calls, last), ids, executed)

(* process_unexpected() aborts the call.                                   *)
Unexpected(m) ==
    IF m \in recvhash
    THEN UNCHANGED callvars
    ELSE outcome' = "failed" /\ UNCHANGED <<msg_index, executed, paused, call_ids, recvhash, nb_recv>>

process_incoming(m) ==
    /\ outcome = "open"
    /\ IF Candidates(m) # {} THEN Match(Min(Candidates(m)), m) ELSE Unexpected(m)
    /\ UNCHANGED <<scenario, calls, before>>

-----------------------------------------------------------------------------
(***************************************************************************)
(* The call by itself.                                                     *)
(***************************************************************************)
NewCall ==
    /\ outcome # "open" /\ calls < Calls
    /\ calls' = calls + 1
    /\ before' = nb_recv
    /\ Runs(nb_recv, calls', 1, [d \in Dialogs |-> None], {})
    /\ recvhash' = {} /\ delivered' = {}
    /\ UNCHANGED <<scenario, nb_recv, strays>>

PauseEnds ==
    /\ outcome = "open" /\ paused
    /\ Runs(nb_recv, calls, NextIndex(nb_recv, calls, msg_index), call_ids, executed)
    /\ UNCHANGED <<scenario, calls, before, recvhash, nb_recv, delivered, strays>>

PauseAgain ==
    /\ outcome = "open" /\ ~paused /\ Type(msg_index) = "pause"
    /\ paused' = TRUE
    /\ UNCHANGED <<scenario, calls, position, call_ids, recvhash, nb_recv, before, delivered, strays>>

-----------------------------------------------------------------------------
(***************************************************************************)
(* The peers, one for each dialog.                                         *)
(***************************************************************************)
Own(i) == {j \in Elements : Dialog(j) = Dialog(i)}

(* Whether it is i's turn for its peer.                                    *)
InTurn(i) ==
    /\ \A j \in Own(i) : j < i => j \in executed \cup delivered \/ Optional(j)
    /\ \A j \in Own(i) \cap delivered : j < i \/ (j = i /\ Optional(i))

(* The next message, or an optional one again.                             *)
Deliver(i) ==
    /\ Receives(i) /\ InTurn(i)
    /\ Optional(i) => Received(i) < Copies /\ (LateOptionals \/ msg_index <= i)
    /\ process_incoming(Message(i, 0))
    /\ delivered' = delivered \cup {i}
    /\ UNCHANGED strays

(* UDP: a message comes again.  One that is like another that the scenario *)
(* expects later is taken for that other.                                  *)
Retransmit(i) ==
    /\ i \in delivered
    /\ Optional(i) => Received(i) < Copies
    /\ \A j \in Own(i) : scenario[j].class = scenario[i].class => j <= i
    /\ process_incoming(Message(i, 0))
    /\ UNCHANGED <<delivered, strays>>

(* Any other message, in turn or not, that was not sent before.            *)
Stray(i) ==
    /\ Receives(i)
    /\ strays < MaxStrays /\ calls \in StrayCalls
    /\ process_incoming(Message(i, strays + 1))
    /\ strays' = strays + 1
    /\ UNCHANGED delivered

-----------------------------------------------------------------------------
Init ==
    /\ scenario \in {s \in Scenarios : Loads(s)}
    /\ calls = 0 /\ strays = 0
    /\ nb_recv = [i \in Elements |-> 0] /\ before = nb_recv
    /\ outcome = "none" /\ msg_index = 1 /\ paused = FALSE
    /\ call_ids = [d \in Dialogs |-> None]
    /\ recvhash = {} /\ executed = {} /\ delivered = {}

MainLoop == NewCall \/ PauseEnds \/ PauseAgain

Next == \/ MainLoop
        \/ \E i \in Elements : Deliver(i) \/ Retransmit(i) \/ Stray(i)

(* The main loop opens the next call and runs the call when its pause is   *)
(* over; peers go on.                                                      *)
Spec == /\ Init /\ [][Next]_vars
        /\ WF_vars(MainLoop)
        /\ WF_vars(\E i \in Elements : ~Optional(i) /\ Deliver(i))

-----------------------------------------------------------------------------
(* The call waits at an element of its scenario, and pauses only at a      *)
(* <pause>, whatever was skipped on the way.                               *)
TypeOK ==
    /\ calls \in 0..Calls
    /\ outcome \in {"none", "open", "success", "failed"}
    /\ msg_index \in 1..(Last + 1) /\ (outcome = "open" => msg_index \in Elements)
    /\ nb_recv \in [Elements -> Nat] /\ before \in [Elements -> Nat]
    /\ paused \in BOOLEAN /\ (outcome = "open" /\ paused => Type(msg_index) = "pause")
    /\ call_ids \in [Dialogs -> Dialogs \cup {None}]
    /\ executed \subseteq {i \in Elements : ~Receives(i)}
    /\ delivered \subseteq {i \in Elements : Receives(i)}
    /\ recvhash \subseteq {Message(i, c) : i \in Elements, c \in 0..MaxStrays}
    /\ strays \in 0..MaxStrays

(* What some of it rests on.  Messages that the scenario cannot tell apart *)
(* must be mandatory ones of one dialog, for otherwise one is taken for    *)
(* the other; a call that pauses right before a message forgets the pause  *)
(* when the message comes.                                                 *)
Distinguishable ==
    \A s \in Scenarios : \A i, j \in DOMAIN s :
        /\ i # j /\ s[i].type = "recv" /\ s[j].type = "recv" /\ s[i].class = s[j].class
        => s[i].dialog = s[j].dialog /\ ~s[i].optional /\ ~s[j].optional

NoPauseBeforeMessage ==
    \A s \in Scenarios : \A i \in 2..Len(s) : s[i - 1].type = "pause" => s[i].type # "recv"

(* A call never waits at, or just before, a mandatory message that it      *)
(* received already: the post condition of                                 *)
(* get_last_insequence_received_message(), kept by every way to advance.   *)
NeverWaitsInVain ==
    outcome = "open" =>
        \A k \in msg_index..Last :
            Receives(k) /\ (\A j \in msg_index..k : Optional(j) <=> j < k) => Received(k) = 0

(* Every dialog keeps its order and the scenario waits for all of them     *)
(* before it sends: LooseSequence implements DialogOrders.                 *)
Orders == INSTANCE DialogOrders WITH
    count <- [i \in Elements |-> IF Receives(i) THEN Received(i)
                                 ELSE IF i \in executed THEN 1 ELSE 0]
OrdersSpec == Orders!Spec

(* While every peer sends its messages in the order of its own dialog,     *)
(* whatever the order between dialogs, no call fails and all come to their *)
(* end.                                                                    *)
OrderlyCallsSucceed ==
    /\ [](outcome = "failed" => strays > 0)
    /\ <>(strays > 0 \/ (calls = Calls /\ outcome = "success"))
=============================================================================
