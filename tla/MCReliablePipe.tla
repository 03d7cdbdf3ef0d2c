---------------------------- MODULE MCReliablePipe ----------------------------
(* Instances of ReliablePipe for TLC. *)
EXTENDS ReliablePipe

\* The formats between native peers, and a browser at either end.  Packets of
\* metrics are read as those of audio and video are.
AllSetups ==
    ({"data", "av", "input"} \X {"none"}) \union {<<"data", "sender">>, <<"metrics", "receiver">>}

\* The second packet has a payload.
Payloads == [p \in 1 .. MaxPackets |-> IF p = 2 THEN 1 ELSE 0]
===============================================================================
