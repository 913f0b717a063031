--------------------------- MODULE SocketBuffers ---------------------------
(***************************************************************************)
(* The bytes of one TCP connection between two processes: write_socket()   *)
(* of the one with its list ss_out of what the kernel has not taken yet,   *)
(* congestion and POLLOUT, and empty_socket() of the other with its list   *)
(* ss_in, out of which check_for_message() cuts messages.                  *)
(*                                                                         *)
(* A byte is <<m, i>>, the i-th one of message m.  The code compares the   *)
(* characters of bytes only.  ss_out is the bytes of its buffers in a row, *)
(* as nothing depends on where one of them ends.                           *)
(***************************************************************************)
EXTENDS Integers, Sequences, SequencesExt

CONSTANTS Messages,
          Traffics,  \* kinds of connections, and the characters of the messages there
          Capacity,  \* of the kernel, in bytes
          ReadSize,  \* -tcp_readsize
          MaxQueue,  \* bound on the messages on their way
          MaxBreaks  \* bound on how often the connection breaks

(* Of the characters, a number stands for a header Content-Length.         *)
CR == -1
LF == -2
ESC == -3
TEXT == -4

(* control: the connection of twin processes, whose messages end by ESC.   *)
ASSUME BuffersAssumption ==
    /\ {Capacity, ReadSize, MaxQueue} \subseteq Nat \ {0}
    /\ MaxBreaks \in Nat
    /\ \A t \in Traffics :
         t \in [control : BOOLEAN,
               chars   : [Messages -> Seq(Nat \cup {CR, LF, ESC, TEXT})]]

VARIABLES traffic, \* a member of Traffics
          tx,      \* the socket of the sender, and what the kernel has taken
          in,      \* ss_in of the receiver, a sequence of buffers
          msglen,  \* ss_msglen of the receiver, and pending_messages
          stale,   \* the receiver has still to find that a break happened
          got,     \* the last message that read_message() returned
          turn,    \* changes with each message
          torn,    \* a break has torn a message
          breaks

vars == <<traffic, tx, in, msglen, stale, got, turn, torn, breaks>>
rx == <<in, msglen, got, turn>>

Bytes(m) == [i \in DOMAIN traffic.chars[m] |-> <<m, i>>]
Char(b) == traffic.chars[b[1]][b[2]]
Chars(bytes) == [i \in DOMAIN bytes |-> Char(bytes[i])]
IsLast(b) == b[2] = Len(traffic.chars[b[1]])

(***************************************************************************)
(* The sender.                                                             *)
(***************************************************************************)
(* enter_congestion().  A slip: without the request for POLLOUT.           *)
Congested_NotPolled(x) == [x EXCEPT !.congested = TRUE]
Congested(x) == [x EXCEPT !.congested = TRUE, !.pollout = TRUE]

(* flush_socket(): what is left in out blocks when the socket is congested *)
(* then, and could not be sent otherwise.                                  *)
TakenByKernel(x, k) == [x EXCEPT !.wire = @ \o SubSeq(x.out, 1, k),
                                 !.out = SubSeq(@, k + 1, Len(@))]
Flushed(x) ==
    IF x.out = << >> THEN x
    ELSE IF x.congested THEN Congested(x)
    ELSE CASE x.line = "up" ->
                LET y == TakenByKernel(x, Min({Len(x.out), Capacity - Len(x.wire)}))
                IN  IF y.out = << >> THEN y ELSE Congested(y)
           [] x.line = "broken" -> [x EXCEPT !.line = "closed"]
           [] OTHER -> x
Fails(x) == x.out # << >> /\ ~x.congested

(* write_socket(): a message only goes out when nothing waits, and is      *)
(* given up when the connection is broken.  A slip: it does not wait.      *)
Written_Directly(x, bytes) ==
    LET y == Flushed([x EXCEPT !.out = bytes])
    IN  [y EXCEPT !.out = IF Fails(y) THEN x.out ELSE @ \o x.out]
Written(x, bytes) ==
    LET y == Flushed(x)
        z == Flushed([y EXCEPT !.out = bytes])
    IN  IF Fails(y) THEN y
        ELSE IF y.out # << >> THEN [y EXCEPT !.out = @ \o bytes]
        ELSE IF Fails(z) THEN [z EXCEPT !.out = << >>]
        ELSE z

(***************************************************************************)
(* The receiver.                                                           *)
(***************************************************************************)
(* buffer_read(): of several buffers that wait, the last one is replaced.  *)
Buffered(bufs, new) ==
    IF Len(bufs) <= 1 THEN Append(bufs, new)
    ELSE Append(SubSeq(bufs, 1, Len(bufs) - 1), new)

(* check_for_message(): the automaton that finds the end of the headers, 0 *)
(* if there is none.  Its states CFM_... are how much of the mark was       *)
(* found; another character than the one it waits for sends it back to the *)
(* beginning.                                                              *)
Mark(control) == IF control THEN <<ESC>> ELSE <<CR, LF, CR, LF>>
HeaderEnd(chars, mark) ==
    LET end[at \in (0..Len(chars)) \X (0..Len(mark))] ==
          IF at[2] = Len(mark) THEN at[1]
          ELSE IF at[1] = Len(chars) THEN 0
          ELSE end[<<at[1] + 1, IF chars[at[1] + 1] = mark[at[2] + 1] THEN at[2] + 1 ELSE 0>>]
    IN  end[<<0, 0>>]

(* The content that is to follow the headers, unless twin processes talk.  *)
ContentLength(chars, control, end) ==
    LET headers == {i \in 1..end : chars[i] >= 0}
    IN  IF control \/ headers = {} THEN 0 ELSE chars[Min(headers)]

(* The length of the message, 0 if it is not all there.  A slip: the       *)
(* content is not waited for.                                              *)
MessageLength_NotWaiting(chars, control, end) ==
    IF end = 0 THEN 0 ELSE end + ContentLength(chars, control, end)
MessageLength(chars, control, end) ==
    LET all == end + ContentLength(chars, control, end)
    IN  IF end = 0 \/ all > Len(chars) THEN 0 ELSE all

(* It merges buffers as far as it looks: all of them when there is no      *)
(* message, and while the headers or the content end with the first one;   *)
(* but not after the ESC.  A slip: buffers stay apart as long as no        *)
(* message is found.                                                       *)
Merged_WhenFound(bufs, end, n) ==
    IF bufs = << >> \/ n = 0 THEN bufs ELSE <<FlattenSeq(bufs)>>
Merged(bufs, end, n) ==
    LET enough == {k \in DOMAIN bufs :
                     /\ n > 0 /\ n <= Len(FlattenSeq(SubSeq(bufs, 1, k)))
                     /\ traffic.control \/ end < Len(FlattenSeq(SubSeq(bufs, 1, k)))}
        k == Min(enough \cup {Len(bufs)})
    IN  IF bufs = << >> THEN bufs
        ELSE <<FlattenSeq(SubSeq(bufs, 1, k))>> \o SubSeq(bufs, k + 1, Len(bufs))

Checked(bufs) ==
    \E flat \in {FlattenSeq(bufs)} : \E chars \in {Chars(flat)} :
      \E end \in {HeaderEnd(chars, Mark(traffic.control))} :
        /\ msglen' = MessageLength(chars, traffic.control, end)
        /\ in' = Merged(bufs, end, msglen')

(***************************************************************************)
(* The actions.                                                            *)
(***************************************************************************)
Init == /\ traffic \in Traffics
        /\ tx = [out |-> << >>, congested |-> FALSE, pollout |-> FALSE,
                 line |-> "up", wire |-> << >>]
        /\ in = << >> /\ msglen = 0
        /\ stale = FALSE
        /\ got = << >>
        /\ turn = 0
        /\ torn = FALSE
        /\ breaks = 0

Stream == FlattenSeq(in) \o tx.wire \o tx.out

(* The messages on their way, by their last bytes.                         *)
MessagesOf(bytes) ==
    LET of[i \in 0..Len(bytes)] ==
          IF i = 0 THEN << >>
          ELSE IF IsLast(bytes[i]) THEN Append(of[i - 1], bytes[i][1]) ELSE of[i - 1]
    IN  of[Len(bytes)]
InFlight == MessagesOf(Stream)

Write(m) ==
    /\ Len(InFlight) < MaxQueue
    /\ tx' = Written(tx, Bytes(m))
    /\ UNCHANGED <<traffic, rx, stale, torn, breaks>>

(* pollset_process() on POLLOUT.                                           *)
PollOut ==
    /\ tx.pollout
    /\ tx.line = "broken" \/ (tx.line = "up" /\ Len(tx.wire) < Capacity)
    /\ tx' = Flushed([tx EXCEPT !.pollout = FALSE, !.congested = FALSE])
    /\ UNCHANGED <<traffic, rx, stale, torn, breaks>>

(* read_error() of the sender.                                             *)
SenderReadError ==
    /\ tx.line = "broken"
    /\ tx' = [tx EXCEPT !.line = "closed"]
    /\ UNCHANGED <<traffic, rx, stale, torn, breaks>>

(* reset_connection(): ss_out stays.                                       *)
Reset ==
    /\ tx.line = "closed"
    /\ tx' = [tx EXCEPT !.line = "up"]
    /\ UNCHANGED <<traffic, rx, stale, torn, breaks>>

(* The connection breaks, what the kernel had taken is lost.               *)
Break ==
    /\ breaks < MaxBreaks /\ tx.line = "up"
    /\ tx' = [tx EXCEPT !.line = "broken", !.wire = << >>]
    /\ stale' = TRUE
    /\ torn' = (torn \/ (tx.out # << >> /\ Head(tx.out)[2] # 1))
    /\ breaks' = breaks + 1
    /\ UNCHANGED <<traffic, rx>>

(* empty_socket(), while no message waits to be processed.                 *)
Read ==
    /\ msglen = 0 /\ ~stale
    /\ tx.wire # << >>
    /\ \E k \in 1..Min({Len(tx.wire), ReadSize}) :
         /\ tx' = [tx EXCEPT !.wire = SubSeq(@, k + 1, Len(@))]
         /\ Checked(Buffered(in, SubSeq(tx.wire, 1, k)))
    /\ UNCHANGED <<traffic, got, turn, stale, torn, breaks>>

(* The receiver finds the break; the next bytes are read by a new socket.  *)
ReceiverReadError ==
    /\ msglen = 0 /\ stale
    /\ in' = << >>
    /\ stale' = FALSE
    /\ UNCHANGED <<traffic, tx, msglen, got, turn, torn, breaks>>

(* read_message(), for process_message().                                  *)
Deliver ==
    /\ msglen > 0
    /\ got' = SubSeq(Head(in), 1, msglen)
    /\ LET rest == SubSeq(Head(in), msglen + 1, Len(Head(in)))
       IN  Checked(IF rest = << >> THEN Tail(in) ELSE <<rest>> \o Tail(in))
    /\ turn' = 1 - turn
    /\ UNCHANGED <<traffic, tx, stale, torn, breaks>>

SenderLoop == PollOut \/ SenderReadError \/ Reset
ReceiverLoop == Read \/ ReceiverReadError \/ Deliver

Next == (\E m \in Messages : Write(m)) \/ SenderLoop \/ ReceiverLoop \/ Break

(* The main loops of both processes go round.                              *)
Spec == Init /\ [][Next]_vars /\ WF_vars(SenderLoop) /\ WF_vars(ReceiverLoop)

(***************************************************************************)
(* Properties.                                                             *)
(***************************************************************************)
AllBytes == UNION {{<<m, i>> : i \in DOMAIN traffic.chars[m]} : m \in Messages}

(* The types of the variables.                                             *)
TypeOK ==
    /\ traffic \in Traffics
    /\ DOMAIN tx = {"out", "congested", "pollout", "line", "wire"}
    /\ Range(tx.out) \subseteq AllBytes
    /\ Range(tx.wire) \subseteq AllBytes /\ Len(tx.wire) <= Capacity
    /\ {tx.congested, tx.pollout} \subseteq BOOLEAN
    /\ tx.line \in {"up", "broken", "closed"}
    /\ \A k \in DOMAIN in : in[k] # << >> /\ Range(in[k]) \subseteq AllBytes
    /\ msglen \in Nat /\ (msglen > 0 => in # << >> /\ msglen <= Len(Head(in)))
    /\ Range(got) \subseteq AllBytes
    /\ turn \in {0, 1}
    /\ {stale, torn} \subseteq BOOLEAN
    /\ breaks \in 0..MaxBreaks

(* A message by itself is found, all of it.                                *)
Framed(t) ==
    \A m \in Messages :
       LET chars == t.chars[m]
       IN  /\ Len(chars) > 0
           /\ MessageLength(chars, t.control, HeaderEnd(chars, Mark(t.control))) = Len(chars)

(* Whatever the kernel takes at a time and a read returns, whole messages  *)
(* are processed in the order in which they were written; a connection     *)
(* that breaks and is reset loses messages, and goes on with the next one, *)
(* unless the rest of a message was still in ss_out: reset_connection()    *)
(* does not drop it, and the new connection begins with it.                *)
Whole == IF got = << >> THEN "none"
         ELSE IF got = Bytes(got[1][1]) THEN got[1][1] ELSE "garbage"
Channel == INSTANCE MessageChannel WITH queue <- InFlight, delivered <- Whole
ChannelSpec == Channel!Spec

(* When a socket is read, at most one buffer waits, so that buffer_read()  *)
(* replaces none.                                                          *)
NoBufferReplaced == msglen = 0 => Len(in) <= 1

(* What is on its way comes out, or the connection breaks.                 *)
Arrives == \A t \in {0, 1} :
    InFlight # << >> /\ turn = t ~> turn # t \/ breaks > 0
=============================================================================
