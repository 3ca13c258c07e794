----------------------------- MODULE MCNcpOpen -----------------------------
(* NcpOpen for TLC.  The socket pairs in the RFCs are those that answer    *)
(* the opens: 4 and 5 for the direct opens; the contact socket 1, the      *)
(* group 8 and the foreign numbers that follow from them for the ICP.      *)
EXTENDS NcpOpen

OneId == {1}
TwoIds == {1, 2}
OneUser == {"a"}

OneGroup == {8}

(* Duplex, between local 4, 5 and foreign 5, 4 of host 1.                  *)
Direct(op) == [type |-> "drct", dux |-> TRUE, op |-> op, lskt |-> 4, fskt |-> 4,
               host |-> 1, timo |-> FALSE]
DirectOpens == {Direct("init"), Direct("glsn")}
DirectRfcs == {<<4, 5>>, <<5, 4>>}

Icp(type, fskt) == [type |-> type, dux |-> TRUE, op |-> "init", lskt |-> 0,
                    fskt |-> fskt, host |-> 1, timo |-> TRUE]
IcpOpens == {Icp("serv", 0), Icp("user", 0)}
IcpRfcs == {<<1, 8>>, <<9, 10>>, <<8, 11>>, <<8, 1>>, <<11, 16>>, <<10, 17>>}
UserOpens == {Icp("user", 0)}
LoggerNums == {16, 17}

(* An ICP to an even contact socket, which kr_ouicp() refuses.             *)
BadOpens == {Icp("user", 2)}

=============================================================================
