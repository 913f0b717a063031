-------------------------- MODULE MCSocketBuffers --------------------------
(* Messages with and without a content, the content of which looks like    *)
(* the end of headers, and the messages of twin processes.                 *)
EXTENDS SocketBuffers

CONSTANTS m1, m2

Sip == [control |-> FALSE,
        chars |-> (m1 :> <<2, CR, LF, CR, LF, CR, LF>>) @@ (m2 :> <<TEXT, CR, LF, CR, LF>>)]
Twin == [control |-> TRUE,
         chars |-> (m1 :> <<TEXT, CR, LF, CR, LF, ESC>>) @@ (m2 :> <<TEXT, ESC>>)]
Both == {Sip, Twin}

ASSUME AllFramed == \A t \in Traffics : Framed(t)
=============================================================================
