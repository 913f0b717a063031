----------------------------- MODULE MCSockets -----------------------------
(* Small instances of Sockets: the modes of the process with calls that    *)
(* share a socket, or have one each, or follow each other on it.           *)
EXTENDS Sockets

CONSTANTS c1, c2, c3, s1, s2, s3

Client(calls, multi, resets, close, limit) ==
    [calls |-> calls, multisocket |-> multi, server |-> FALSE, resets |-> resets,
     resetClose |-> close, maxSockets |-> limit, closecon |-> FALSE, setdest |-> FALSE]
WithServer(k) == [k EXCEPT !.server = TRUE]
WithClosecon(k) == [k EXCEPT !.closecon = TRUE]
WithSetdest(k) == [k EXCEPT !.setdest = TRUE]
Two == {c1, c2}

Covered ==
    {Client(Two, FALSE, 0, TRUE, 9), Client(Two, FALSE, 1, TRUE, 9),
     Client(Two, FALSE, 2, FALSE, 9), Client(Two, TRUE, 0, TRUE, 9),
     Client(Two, TRUE, 0, FALSE, 9), Client(Calls, TRUE, 0, TRUE, 3),
     Client(Two, TRUE, 0, TRUE, 2),
     WithClosecon(Client(Two, TRUE, 0, TRUE, 9)), WithClosecon(Client(Two, TRUE, 1, TRUE, 2)),
     WithClosecon(Client(Two, FALSE, 2, FALSE, 9)),
     WithSetdest(Client(Two, FALSE, 0, TRUE, 9)), WithSetdest(Client({c1}, TRUE, 1, FALSE, 9)),
     WithSetdest(Client(Calls, TRUE, 0, TRUE, 3)),
     WithServer(Client(Two, FALSE, 0, TRUE, 9)), WithServer(Client({c1}, FALSE, 0, FALSE, 9)),
     WithServer(Client({c1}, TRUE, 0, FALSE, 9))}

Closecon == {WithClosecon(Client(Two, TRUE, 0, TRUE, 9))}
=============================================================================
