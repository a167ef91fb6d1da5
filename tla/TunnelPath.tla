----------------------------- MODULE TunnelPath -----------------------------
(***************************************************************************)
(* One public connection of a tcp tunnel, end to end: the server accepts   *)
(* it and opens a yamux stream (internal/server/tcp.go, http.go), the      *)
(* client dials the local port (internal/client/client.go), and both       *)
(* splice (internal/netutil/splice.go).                                    *)
(*                                                                         *)
(*    public app -- conn -- server == stream == agent -- conn -- local app *)
(*                                                                         *)
(* The two halves mirror each other, so a node stands for either, and app, *)
(* conn and the counters of a node are those on its own side.  Bytes are   *)
(* counted in units: every buffer on the way keeps them in order.          *)
(*                                                                         *)
(* A stream has the states of yamux (v0.1.2, default configuration).  FIN  *)
(* and RST take no time of their own, for a receive buffer holds whatever  *)
(* was sent before; and both ends learn at once that the session is gone.  *)
(***************************************************************************)
EXTENDS Naturals

CONSTANTS
    MaxSend,    \* bound: what the app of each node sends
    Window      \* what fits in a socket's buffer or a stream's window

Nodes == {"server", "agent"}
Peer(n) == IF n = "server" THEN "agent" ELSE "server"

ASSUME BoundAssumption == MaxSend \in [Nodes -> Nat] /\ Window \in Nat \ {0}

VARIABLES
    pc,         \* the goroutine: spliceTCP of the server, handleStream
    copying,    \* the directions its Splice still copies
    conn,       \* the TCP connection to the node's own app
    inbound,    \* what the app sent and the node has not read
    outbound,   \* what the node wrote and the app has not read
    shut,       \* the node has ended its writes to the app
    stream,     \* the state of the node's end of the yamux stream
    recvBuf,    \* what arrived on it and was not read
    app,        \* "open"; "shut", done sending; or "gone"
    sent, got,  \* what the app sent and received
    ended,      \* the app has read an end of file
    session,    \* the yamux session is up
    fault,      \* something refused, failed or left early
    expired     \* yamux gave up a half-closed stream

tcp == <<conn, inbound, outbound, shut>>
yamux == <<stream, recvBuf, session, expired>>
apps == <<app, sent, got, ended>>
vars == <<pc, copying, tcp, yamux, apps, fault>>

States == {"none", "established", "localClose", "remoteClose", "closed", "reset"}
Writable == {"established", "remoteClose"}

TypeOK ==
    /\ pc \in [Nodes -> {"none", "open", "dial", "splice", "return", "returned"}]
    /\ copying \in [Nodes -> SUBSET {"up", "down"}]
    /\ conn \in [Nodes -> {"none", "open", "reset", "closed"}]
    /\ inbound \in [Nodes -> 0 .. Window]
    /\ outbound \in [Nodes -> 0 .. Window]
    /\ shut \in [Nodes -> BOOLEAN]
    /\ stream \in [Nodes -> States]
    /\ recvBuf \in [Nodes -> 0 .. Window]
    /\ app \in [Nodes -> {"open", "shut", "gone"}]
    /\ sent \in [Nodes -> Nat] /\ \A n \in Nodes : sent[n] <= MaxSend[n]
    /\ got \in [Nodes -> Nat] /\ \A n \in Nodes : got[n] <= MaxSend[Peer(n)]
    /\ ended \in [Nodes -> BOOLEAN]
    /\ session \in BOOLEAN /\ fault \in BOOLEAN /\ expired \in BOOLEAN

All(v) == [n \in Nodes |-> v]

Init ==
    /\ pc = All("none") /\ copying = All({})
    /\ conn = All("none") /\ inbound = All(0) /\ outbound = All(0)
    /\ shut = All(FALSE)
    /\ stream = All("none") /\ recvBuf = All(0)
    /\ app = All("open") /\ sent = All(0) /\ got = All(0) /\ ended = All(FALSE)
    /\ session = TRUE /\ fault = FALSE /\ expired = FALSE

-----------------------------------------------------------------------------
(* How the two goroutines start and end. *)

\* acceptTCP: a source that is not in a private tunnel's allowlist is closed,
\* with a RST if it has sent something already.
Accept ==
    /\ pc["server"] = "none"
    /\ \/ /\ pc' = [pc EXCEPT !["server"] = "open"]
          /\ conn' = [conn EXCEPT !["server"] = "open"]
          /\ UNCHANGED <<shut, fault>>
       \/ /\ pc' = [pc EXCEPT !["server"] = "returned"]
          /\ \E how \in {"closed", "reset"} :
                conn' = [conn EXCEPT !["server"] = how]
          /\ shut' = [shut EXCEPT !["server"] = TRUE]
          /\ fault' = TRUE
    /\ UNCHANGED <<copying, inbound, outbound, yamux, apps>>

StartSplice(n) ==
    /\ pc' = [pc EXCEPT ![n] = "splice"]
    /\ copying' = [copying EXCEPT ![n] = {"up", "down"}]

\* openDataStream: Open and the StreamHeader, which the agent reads first.
OpenStream ==
    /\ pc["server"] = "open"
    /\ IF session THEN StartSplice("server") /\ stream' = All("established")
                  ELSE /\ pc' = [pc EXCEPT !["server"] = "return"]
                       /\ UNCHANGED <<copying, stream>>
    /\ UNCHANGED <<tcp, recvBuf, session, expired, apps, fault>>

\* Serve accepts the stream; handleStream reads the header, unless the stream
\* went down before it did.
ReadHeader ==
    /\ pc["agent"] = "none"
    /\ stream["agent"] # "none"
    /\ \/ stream["agent"] # "reset" /\ pc' = [pc EXCEPT !["agent"] = "dial"]
       \/ stream["agent"] \notin Writable /\ pc' = [pc EXCEPT !["agent"] = "return"]
    /\ UNCHANGED <<copying, tcp, yamux, apps, fault>>

\* net.Dial of the local port.
DialLocal ==
    /\ pc["agent"] = "dial"
    /\ \/ /\ StartSplice("agent")
          /\ conn' = [conn EXCEPT !["agent"] = "open"]
          /\ UNCHANGED fault
       \/ /\ pc' = [pc EXCEPT !["agent"] = "return"]
          /\ fault' = TRUE
          /\ UNCHANGED <<copying, conn>>
    /\ UNCHANGED <<inbound, outbound, shut, yamux, apps>>

\* (*Stream).Close: a FIN.  A second one does nothing.
StreamClosed(n) ==
    CASE stream[n] = "established" ->
            [stream EXCEPT ![n] = "localClose", ![Peer(n)] = "remoteClose"]
      [] stream[n] = "remoteClose" -> All("closed")
      [] OTHER -> stream

\* The deferred stream.Close and conn.Close, once Splice's Wait is over.  A
\* socket closed with bytes unread sends a RST.
Close(n) ==
    /\ pc' = [pc EXCEPT ![n] = "returned"]
    /\ stream' = StreamClosed(n)
    /\ conn' = [conn EXCEPT ![n] = IF @ # "open" THEN @
                                   ELSE IF inbound[n] > 0 THEN "reset"
                                   ELSE "closed"]
    /\ shut' = [shut EXCEPT ![n] = conn[n] = "open" \/ @]
    /\ UNCHANGED <<copying, inbound, outbound, recvBuf, session, expired, apps,
                   fault>>

\* Slip: Splice returns when the first direction is done.
ReturnEarly(n) ==
    /\ \/ pc[n] = "splice" /\ copying[n] # {"up", "down"}
       \/ pc[n] = "return"
    /\ Close(n)

Return(n) ==
    /\ \/ pc[n] = "splice" /\ copying[n] = {}
       \/ pc[n] = "return"
    /\ Close(n)

-----------------------------------------------------------------------------
(* copyThenHalfClose, from the app to the stream and back. *)

\* Slip: what was written stays in the buffer, and is written again.
CopyUpAgain(n) ==
    /\ "up" \in copying[n]
    /\ conn[n] = "open" /\ inbound[n] > 0
    /\ stream[n] \in Writable /\ recvBuf[Peer(n)] < Window
    /\ recvBuf' = [recvBuf EXCEPT ![Peer(n)] = @ + 1]
    /\ UNCHANGED <<pc, copying, conn, inbound, outbound, shut, stream, session,
                   expired, apps, fault>>

CopyUp(n) ==
    /\ "up" \in copying[n]
    /\ conn[n] = "open" /\ inbound[n] > 0
    /\ stream[n] \in Writable /\ recvBuf[Peer(n)] < Window
    /\ inbound' = [inbound EXCEPT ![n] = @ - 1]
    /\ recvBuf' = [recvBuf EXCEPT ![Peer(n)] = @ + 1]
    /\ UNCHANGED <<pc, copying, conn, outbound, shut, stream, session, expired,
                   apps, fault>>

\* io.Copy is done: the app's end of file, an error of the read or of the
\* write, all alike.  A write that would fail is tried only when there is
\* something to write.
UpDone(n) ==
    /\ "up" \in copying[n]
    /\ \/ conn[n] = "reset"
       \/ inbound[n] = 0 /\ app[n] # "open"
       \/ inbound[n] > 0 /\ stream[n] \notin Writable
    /\ copying' = [copying EXCEPT ![n] = @ \ {"up"}]

\* Slip: only connections with a CloseWrite are half-closed.
EndUpTCPOnly(n) ==
    /\ UpDone(n)
    /\ UNCHANGED <<pc, tcp, yamux, apps, fault>>

EndUp(n) ==
    /\ UpDone(n)
    /\ stream' = StreamClosed(n)
    /\ UNCHANGED <<pc, tcp, recvBuf, session, expired, apps, fault>>

\* A write to an app that is gone is answered with a RST.
CopyDown(n) ==
    /\ "down" \in copying[n]
    /\ stream[n] # "reset" /\ recvBuf[n] > 0
    /\ conn[n] = "open" /\ outbound[n] < Window
    /\ recvBuf' = [recvBuf EXCEPT ![n] = @ - 1]
    /\ IF app[n] = "gone"
       THEN conn' = [conn EXCEPT ![n] = "reset"] /\ UNCHANGED outbound
       ELSE outbound' = [outbound EXCEPT ![n] = @ + 1] /\ UNCHANGED conn
    /\ UNCHANGED <<pc, copying, inbound, shut, stream, session, expired, apps,
                   fault>>

DownDone(n) ==
    /\ "down" \in copying[n]
    /\ \/ stream[n] = "reset"
       \/ recvBuf[n] = 0 /\ stream[n] \in {"remoteClose", "closed"}
       \/ recvBuf[n] > 0 /\ conn[n] = "reset"
    /\ copying' = [copying EXCEPT ![n] = @ \ {"down"}]

\* Slip: the end of one direction closes the whole connection.
EndDownOutright(n) ==
    /\ DownDone(n)
    /\ shut' = [shut EXCEPT ![n] = TRUE]
    /\ conn' = [conn EXCEPT ![n] = "reset"]
    /\ UNCHANGED <<pc, inbound, outbound, yamux, apps, fault>>

\* Slip: no half-close; the app hears of the end when everything is closed.
EndDownSilent(n) ==
    /\ DownDone(n)
    /\ UNCHANGED <<pc, tcp, yamux, apps, fault>>

EndDown(n) ==
    /\ DownDone(n)
    /\ shut' = [shut EXCEPT ![n] = TRUE]
    /\ UNCHANGED <<pc, conn, inbound, outbound, yamux, apps, fault>>

-----------------------------------------------------------------------------
(* The yamux session, and the programs at both ends. *)

\* StreamCloseTimeout (5 minutes): an end that closed and had no FIN in return
\* drops the stream.  Its own reader finds what is buffered and then a plain
\* end of file; the far end is reset.
CloseTimeout(n) ==
    /\ stream[n] = "localClose"
    /\ stream' = [stream EXCEPT ![n] = "closed", ![Peer(n)] = "reset"]
    /\ expired' = TRUE
    /\ UNCHANGED <<pc, copying, tcp, recvBuf, session, apps, fault>>

\* The session breaks: what is on its way may be lost, and every stream reads
\* as ended.
Cut ==
    /\ session
    /\ session' = FALSE
    /\ stream' = [n \in Nodes |-> IF stream[n] \in {"none", "reset"}
                                  THEN stream[n] ELSE "closed"]
    /\ recvBuf' \in {b \in [Nodes -> 0 .. Window] :
                        \A n \in Nodes : b[n] <= recvBuf[n]}
    /\ fault' = TRUE
    /\ UNCHANGED <<pc, copying, tcp, expired, apps>>

Send(n) ==
    /\ app[n] = "open" /\ conn[n] = "open"
    /\ sent[n] < MaxSend[n] /\ inbound[n] < Window
    /\ sent' = [sent EXCEPT ![n] = @ + 1]
    /\ inbound' = [inbound EXCEPT ![n] = @ + 1]
    /\ UNCHANGED <<pc, copying, conn, outbound, shut, yamux, app, got, ended,
                   fault>>

Shut(n) ==
    /\ app[n] = "open" /\ conn[n] = "open"
    /\ app' = [app EXCEPT ![n] = "shut"]
    /\ UNCHANGED <<pc, copying, tcp, yamux, sent, got, ended, fault>>

Receive(n) ==
    /\ app[n] # "gone" /\ conn[n] \in {"open", "closed"}
    /\ outbound[n] > 0
    /\ outbound' = [outbound EXCEPT ![n] = @ - 1]
    /\ got' = [got EXCEPT ![n] = @ + 1]
    /\ UNCHANGED <<pc, copying, conn, inbound, shut, yamux, app, sent, ended,
                   fault>>

SeeEnd(n) ==
    /\ app[n] # "gone" /\ conn[n] \in {"open", "closed"}
    /\ outbound[n] = 0 /\ shut[n] /\ ~ended[n]
    /\ ended' = [ended EXCEPT ![n] = TRUE]
    /\ UNCHANGED <<pc, copying, tcp, yamux, app, sent, got, fault>>

\* The app closes its socket or dies: a fault, unless it had sent and read all.
\* A socket closed with bytes unread sends a RST; otherwise it may.
Leave(n) ==
    /\ app[n] # "gone" /\ conn[n] # "none"
    /\ app' = [app EXCEPT ![n] = "gone"]
    /\ IF app[n] = "shut" /\ ended[n]
       THEN UNCHANGED <<conn, fault>>
       ELSE /\ fault' = TRUE
            /\ \/ conn' = [conn EXCEPT ![n] = "reset"]
               \/ outbound[n] = 0 /\ UNCHANGED conn
    /\ UNCHANGED <<pc, copying, inbound, outbound, shut, yamux, sent, got, ended>>

-----------------------------------------------------------------------------

UpStep(n) == CopyUp(n) \/ EndUp(n)
DownStep(n) == CopyDown(n) \/ EndDown(n)
Server == Accept \/ OpenStream \/ Return("server")
Agent == ReadHeader \/ DialLocal \/ Return("agent")
Read(n) == Receive(n) \/ SeeEnd(n)

Next ==
    \/ Server \/ Agent \/ Cut
    \/ \E n \in Nodes :
          \/ UpStep(n) \/ DownStep(n)
          \/ CloseTimeout(n)
          \/ Read(n) \/ Send(n) \/ Shut(n) \/ Leave(n)

Spec == Init /\ [][Next]_vars

\* Every goroutine runs, timers fire, and an app that stays reads what it is
\* sent.  No app has to send anything, or to end.
FairSpec ==
    /\ Spec
    /\ WF_vars(Server) /\ WF_vars(Agent)
    /\ \A n \in Nodes : /\ WF_vars(UpStep(n)) /\ WF_vars(DownStep(n))
                        /\ WF_vars(CloseTimeout(n)) /\ WF_vars(Read(n))

-----------------------------------------------------------------------------
(* What must hold. *)

Everything(n) == ended[n] => got[n] = sent[Peer(n)] /\ app[Peer(n)] # "open"

\* An end of file means that there was no more: as long as nothing broke, an
\* app that reads one has received all that the far app sent, and the far app
\* is done, however the two directions ended (copyThenHalfClose).
EOFMeansEverything == ~fault /\ ~expired => \A n \in Nodes : Everything(n)

\* To the two apps the tunnel is a connection: nothing is added, lost before an
\* end of file or brought after it, and the directions end one by one (Splice).
Path == INSTANCE Duplex WITH
    Ends <- Nodes, Other <- [n \in Nodes |-> Peer(n)], broken <- fault \/ expired
PathSpec == Path!Spec

\* What is sent arrives, also after the sender or the receiver has half-closed
\* (Splice waits for both directions).
SentArrives ==
    \A n \in Nodes : \A k \in 1 .. MaxSend[n] :
        sent[n] >= k ~> got[Peer(n)] >= k \/ fault \/ expired

\* The goroutine returns without an app to splice with: the local dial failed,
\* or the stream was gone before it.
NobodyThere(n) == pc[n] \in {"return", "returned"} /\ conn[n] = "none"

\* An app that waits for the end of what the far app sends is not left waiting,
\* nor is one whose far app was never reached: the half-close goes through the
\* stream and both connections (copyThenHalfClose, handleStream).
EndArrives ==
    \A n \in Nodes :
        (app[n] # "open" \/ NobodyThere(n)) /\ conn[Peer(n)] = "open"
            ~> ended[Peer(n)] \/ app[Peer(n)] = "gone" \/ conn[Peer(n)] = "reset"

\* When the app on its side is gone a goroutine lets go of the connection and
\* of the stream, though the far app may go on sending or say nothing for ever.
LetsGo ==
    \A n \in Nodes :
        app[n] = "gone" /\ pc[n] # "none" ~> pc[n] = "returned"

-----------------------------------------------------------------------------
(* The inductive invariant behind EOFMeansEverything. *)

Splicing(n) == pc[n] \in {"splice", "returned"}
OnTheWay(n) == inbound[n] + recvBuf[Peer(n)] + outbound[Peer(n)]

\* Nothing is made up on the way, whatever breaks.
NoSurplus == \A n \in Nodes : OnTheWay(n) + got[Peer(n)] <= sent[n]

\* Nothing is written to an app after the end of its connection was.
Quiet ==
    \A n \in Nodes :
        /\ copying[n] # {} => pc[n] = "splice"
        /\ shut[n] => Splicing(n) /\ "down" \notin copying[n]
        /\ ended[n] => shut[n] /\ outbound[n] = 0

\* How far a node is while nothing broke: n has ended its end of the stream
\* just when it has forwarded all that its app will send, and it has ended the
\* connection only after all that the stream will bring.
Stage(n) ==
    /\ pc[n] \notin {"splice"} => copying[n] = {}
    /\ pc[n] # "return" /\ conn[n] # "reset" /\ stream[n] # "reset"
    /\ stream[n] = "none" <=> stream[Peer(n)] = "none"
    /\ stream[n] = "none" => pc[n] \in {"none", "open"}
    /\ n = "server" /\ pc[n] \in {"none", "open"} => stream[n] = "none"
    /\ stream[n] = "closed" <=> stream[Peer(n)] = "closed"
    /\ stream[n] = "remoteClose" <=> stream[Peer(n)] = "localClose"
    /\ Splicing(n) /\ "up" \notin copying[n]
          <=> stream[n] \in {"localClose", "closed"}
    /\ Splicing(n) /\ "up" \notin copying[n] => app[n] # "open" /\ inbound[n] = 0
    /\ Splicing(n) /\ "down" \notin copying[n] =>
          stream[n] \in {"remoteClose", "closed"} /\ recvBuf[n] = 0
    /\ shut[n] => Splicing(n) /\ "down" \notin copying[n]
    /\ ended[n] => shut[n] /\ outbound[n] = 0
    /\ app[n] = "gone" => ended[n]

Intact ==
    ~fault /\ ~expired =>
        /\ session
        /\ \A n \in Nodes : Stage(n)
        /\ \A n \in Nodes : OnTheWay(n) + got[Peer(n)] = sent[n]

IInv == TypeOK /\ NoSurplus /\ Quiet /\ Intact

-----------------------------------------------------------------------------
(* What a comment says and the code does not do. *)

\* splice.go:21-24: an app "that has finished sending but is still waiting to
\* receive [...] still gets the reply", for as long as nothing breaks.
HalfCloseKeepsReply == ~fault => \A n \in Nodes : Everything(n)
=============================================================================
