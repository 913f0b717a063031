-------------------------- MODULE MCLooseSequence --------------------------
(* Every scenario of a few elements over two dialogs that begins by        *)
(* sending, and some longer ones after the tests of the feature.           *)
EXTENDS LooseSequence

CONSTANT MaxLen

Send(d) == [type |-> "send", dialog |-> d, optional |-> FALSE, class |-> 0]
Recv(d, c) == [type |-> "recv", dialog |-> d, optional |-> FALSE, class |-> c]
Opt(d, c) == [type |-> "recv", dialog |-> d, optional |-> TRUE, class |-> c]
Act(t) == [type |-> t, dialog |-> 0, optional |-> FALSE, class |-> 0]
Nop == Act("nop")
Pause == Act("pause")

(* Messages at different places differ.                                    *)
ElementAt(i) == {Send(1), Send(2), Recv(1, i), Recv(2, i), Opt(1, i), Opt(2, i), Nop, Pause}

RECURSIVE Short(_)
Short(n) == IF n = 1 THEN {<<Send(1)>>}
            ELSE {Append(s, e) : s \in Short(n - 1), e \in ElementAt(n)}

Tests == {
    << Send(1), Opt(2, 1), Recv(2, 2), Recv(1, 3), Pause, Nop, Send(2), Recv(2, 4), Recv(1, 5) >>,
    << Send(1), Recv(3, 1), Send(3), Recv(1, 2), Pause, Nop, Recv(2, 3), Recv(3, 4), Opt(2, 5), Recv(2, 6) >>,
    << Send(2), Recv(2, 1), Recv(2, 1), Send(1), Opt(1, 2), Opt(1, 3), Recv(1, 4), Recv(2, 5) >> }

All == UNION {Short(n) : n \in 2..MaxLen} \cup Tests

(* No pause right before a message: the other ones are MCLooseSequencePause's. *)
Some == {s \in All : \A i \in 2..Len(s) : s[i - 1].type = "pause" => s[i].type # "recv"}

PauseBeforeMessage == {
    << Send(1), Recv(1, 1), Pause, Recv(2, 2), Send(1), Recv(2, 3) >> }

(* What the proofs assume of the scenarios.                                *)
ASSUME ScenariosAreProvedAbout ==
    /\ Distinguishable
    /\ Scenarios = Some => NoPauseBeforeMessage
=============================================================================
