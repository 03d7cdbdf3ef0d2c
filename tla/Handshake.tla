------------------------------ MODULE Handshake ------------------------------
(***************************************************************************)
(* How the two peers of a kyproto connection set up its control stream,    *)
(* with or without authentication.  Its first bytes are not control        *)
(* messages: the client sends one byte so that the server sees the stream, *)
(* or its token, which the server application accepts with one byte or     *)
(* rejects by closing the connection.                                      *)
(***************************************************************************)
EXTENDS Naturals, Sequences

CONSTANT Tokens     \* the lengths of the tokens that a client may present

ASSUME TokensAssumption == Tokens \subseteq Nat

VARIABLES
    conn,   \* the kynet connection: "open" or "closed"
    peer,   \* for each peer, the call it is in; then "running", "dropped",
            \* "rejected" or "failed"
    wire    \* for each peer, what it wrote to the control stream

handshakeVars == <<conn, peer, wire>>

Peers == {"server", "client"}
Other(p) == IF p = "server" THEN "client" ELSE "server"

TOKEN_MAX_LEN == 1024

\* ClientAuth::new
Valid(token) == token <= TOKEN_MAX_LEN

\* The length of a ClientAuth in MessagePack: an array of one string, whose
\* own length takes one to three bytes.
Serialized(token) ==
    1 + (IF token < 32 THEN 1 ELSE IF token < 256 THEN 2 ELSE 3) + token

\* Both applications agree on whether there is authentication.
HandshakeInit ==
    /\ conn = "open"
    /\ peer \in {[client |-> "connect", server |-> "accept"],
                 [client |-> "connect_with_auth", server |-> "accept_with_auth"]}
    /\ wire = [p \in Peers |-> <<>>]

-----------------------------------------------------------------------------
Write(p, msg) == wire' = [wire EXCEPT ![p] = Append(@, msg)]

\* p takes what comes next on the stream.
Read(p) == wire' = [wire EXCEPT ![Other(p)] = Tail(@)]

Enter(p, state) == peer' = [peer EXCEPT ![p] = state]

\* What has not been read is lost with the connection.
Closed == conn' = "closed" /\ wire' = [p \in Peers |-> <<>>]

ConnectPlain ==
    /\ conn = "open" /\ peer["client"] = "connect"
    /\ Write("client", [kind |-> "Dummy"])
    /\ Enter("client", "running")
    /\ UNCHANGED conn

\* Mutant of ConnectWithAuth: the client does not wait for the confirmation.
ConnectUnconfirmed(token) ==
    /\ conn = "open" /\ peer["client"] = "connect_with_auth"
    /\ Valid(token)
    /\ Write("client", [kind |-> "Auth", len |-> Serialized(token)])
    /\ Enter("client", "running")
    /\ UNCHANGED conn

ConnectWithAuth(token) ==
    /\ conn = "open" /\ peer["client"] = "connect_with_auth"
    /\ Valid(token)
    /\ Write("client", [kind |-> "Auth", len |-> Serialized(token)])
    /\ Enter("client", "confirming")
    /\ UNCHANGED conn

\* The client has read the byte that confirms the authentication.
Confirmed ==
    /\ peer["client"] = "confirming" /\ wire["server"] # <<>>
    /\ Read("client")
    /\ Enter("client", "running")
    /\ UNCHANGED conn

\* The server consumes the byte.
AcceptPlain ==
    /\ peer["server"] = "accept" /\ wire["client"] # <<>>
    /\ Read("server")
    /\ Enter("server", "running")
    /\ UNCHANGED conn

\* A ClientAuth that is too long is rejected at once, before it is read.
AcceptWithAuth ==
    /\ peer["server"] = "accept_with_auth" /\ wire["client"] # <<>>
    /\ IF Head(wire["client"]).len > TOKEN_MAX_LEN
       THEN Closed /\ Enter("server", "rejected")
       ELSE Read("server") /\ Enter("server", "deciding") /\ UNCHANGED conn

AcceptAuthentication ==
    /\ conn = "open" /\ peer["server"] = "deciding"
    /\ Write("server", [kind |-> "Confirm"])
    /\ Enter("server", "running")
    /\ UNCHANGED conn

RejectAuthentication ==
    /\ peer["server"] = "deciding"
    /\ Closed
    /\ Enter("server", "rejected")

\* The network or an application closes the connection.
Close ==
    /\ conn = "open"
    /\ Closed
    /\ UNCHANGED peer

\* Each of the calls above returns an error once the connection is closed.
HandshakeFails(p) ==
    /\ conn = "closed"
    /\ peer[p] \notin {"running", "dropped", "rejected", "failed"}
    /\ Enter(p, "failed")
    /\ UNCHANGED <<conn, wire>>

HandshakeNext ==
    \/ ConnectPlain
    \/ \E token \in Tokens : ConnectWithAuth(token)
    \/ Confirmed
    \/ AcceptPlain \/ AcceptWithAuth
    \/ AcceptAuthentication \/ RejectAuthentication
    \/ Close
    \/ \E p \in Peers : HandshakeFails(p)
=============================================================================
