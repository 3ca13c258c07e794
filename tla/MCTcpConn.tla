------------------------------ MODULE MCTcpConn ------------------------------
(* TcpConn for TLC.                                                        *)
EXTENDS TcpConn

Numbers == [h \in Host |-> IF h = "a" THEN 1 ELSE 11]

AB(x, y) == [h \in Host |-> IF h = "a" THEN x ELSE y]
Client == AB("active", "passive")
Both == AB("active", "active")
Nobody == AB({}, {})
Retries == {"rexmt", "finack"}

(* a writes n bytes, into segments of maxseg and a window of rcv.          *)
Sending(n, maxseg, rcv, users, ts) ==
    [opens |-> Client, bytes |-> AB(n, 0), users |-> users, timers |-> ts,
     fails |-> FALSE, snd |-> 4, rcv |-> rcv, maxseg |-> maxseg, phantom |-> 0]

(* At most one byte, and users who close.                                  *)
Closing(opens, n, users) ==
    [Sending(n, 1, 1, users, Retries) EXCEPT !.opens = opens]

Transfers ==
    { [Sending(3, 1, 1, Nobody, {"rexmt"}) EXCEPT !.fails = TRUE, !.snd = 2],
      Sending(3, 2, 4, Nobody, {"rexmt"}),
      Sending(3, 2, 1, Nobody, {"rexmt", "persist"}) }

Closes ==
    { Sending(2, 3, 1, AB({"close"}, {}), Retries \cup {"persist"}),
      Closing(Both, 1, AB({"close"}, {})),
      Closing(Both, 0, AB({"close"}, {"netclose"})),
      Closing(Client, 0, AB({"close"}, {"netclose"})),
      Closing(Client, 1, AB({"close", "netclose"}, {"abort", "clear"})),
      [Closing(Client, 0, AB({"netclose"}, {"netclose"})) EXCEPT
            !.bytes = AB(0, 1), !.timers = {"finack"}],
      [Closing(Client, 1, AB({"close"}, {})) EXCEPT
            !.timers = Retries \cup {"init", "rexmttl"}] }

Connections == Transfers \cup Closes

(* For the runs that show what goes wrong.                                 *)
OneAndClose == {Closing(Client, 1, AB({"close"}, {}))}
ThreeAtOnce == {Sending(3, 3, 5, Nobody, {"rexmt"})}

=============================================================================
