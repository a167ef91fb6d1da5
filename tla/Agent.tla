------------------------------- MODULE Agent -------------------------------
(***************************************************************************)
(* lotun serve: the agent that keeps a list of tunnels registered          *)
(* (serveWithRetry and serveOnce in cmd/lotun/commands.go, on top of       *)
(* internal/client/client.go), against a server it knows only through the  *)
(* lease contract that ControlPlane implements.  A connection can break    *)
(* silently; each end notices in its own time, so the server may still     *)
(* hold the addresses of the last connection when the agent comes back.    *)
(*                                                                         *)
(* Every tunnel of the list names its address (a claimed subdomain or a    *)
(* remote port), which is where a reconnecting agent can meet itself.  The *)
(* server may be started with another token for a time: a token that stays *)
(* wrong is refused and retried without end.                               *)
(***************************************************************************)
EXTENDS Naturals

CONSTANTS
    Conns,        \* connections the two ends can know of at one time
    N,            \* tunnels in the client config's list
    MaxCuts,      \* bound: how often the network or the server fails
    MaxRefusals,  \* bound: how often the token, or a free address, is refused
    None

ASSUME AgentAssumption == N \in Nat /\ MaxCuts \in Nat /\ MaxRefusals \in Nat
ASSUME ConnAssumption == None \notin Conns

Tunnels == 1 .. N

\* In seconds.
minBackoff == 1
maxBackoff == 30

VARIABLES
    pc,         \* where serveWithRetry is
    conn,       \* the connection serveOnce or connectOverConn works on
    sockets,    \* connections that were dialled and not closed by the client
    next,       \* serveOnce: the next request of the list
    backoff,    \* the next wait
    cancelled,  \* ctx is done: SIGINT or SIGTERM
    alive,      \* connections that work
    inbox,      \* what a connection's server goroutine has yet to handle
    outbox,     \* what the client has yet to read
    cuts, refusals,
    open, owner, promised   \* the server: see AddressLease

Server == INSTANCE AddressLease WITH
    Clients <- Conns, Addresses <- Tunnels, Nobody <- None

agent == <<pc, conn, sockets, next, backoff>>
wires == <<alive, inbox, outbox>>
server == <<open, owner, promised>>
vars == <<agent, cancelled, wires, cuts, refusals, server>>

TypeOK ==
    /\ pc \in {"dial", "connect", "auth", "register", "await", "serve", "close",
               "lost", "wait", "stopped"}
    /\ conn \in Conns \cup {None}
    /\ sockets \in SUBSET Conns
    /\ next \in 1 .. N + 1
    /\ backoff \in minBackoff .. maxBackoff
    /\ cancelled \in BOOLEAN
    /\ alive \in SUBSET Conns
    /\ inbox \in [Conns -> {"none", "auth", "register"}]
    /\ outbox \in [Conns -> {"none", "ok", "error"}]
    /\ cuts \in 0 .. MaxCuts
    /\ refusals \in 0 .. MaxRefusals
    /\ open \in SUBSET Conns
    /\ owner \in [Tunnels -> Conns \cup {None}]
    /\ promised \in [Conns -> SUBSET Tunnels]

Init ==
    /\ pc = "dial" /\ conn = None /\ next = 1 /\ backoff = minBackoff
    /\ sockets = {}
    /\ cancelled = FALSE
    /\ alive = {}
    /\ inbox = [c \in Conns |-> "none"]
    /\ outbox = [c \in Conns |-> "none"]
    /\ cuts = 0 /\ refusals = 0
    /\ Server!Init

-----------------------------------------------------------------------------
(* The agent. *)

\* What is written to a connection that broke is lost.
Send(m) == inbox' = IF conn \in alive THEN [inbox EXCEPT ![conn] = m] ELSE inbox
Read(c) == outbox' = [outbox EXCEPT ![c] = "none"]

\* Connect: tls.Dial or net.Dial, which can fail.
Dial ==
    /\ pc = "dial"
    /\ \/ \E c \in Conns \ (open \cup sockets) :
             /\ inbox[c] = "none"
             /\ conn' = c
             /\ sockets' = sockets \cup {c}
             /\ alive' = alive \cup {c}
             /\ Read(c)
             /\ pc' = "connect"
       \/ /\ cuts < MaxCuts
          /\ pc' = "lost"
          /\ UNCHANGED <<conn, sockets, alive, outbox>>
    /\ cuts' = IF pc' = "lost" THEN cuts + 1 ELSE cuts
    /\ next' = 1
    /\ UNCHANGED <<backoff, cancelled, inbox, refusals, server>>

\* connectOverConn: yamux.Client, the control stream and the Auth message.
OpenControl ==
    /\ pc = "connect"
    /\ pc' = "auth"
    /\ Send("auth")
    /\ UNCHANGED <<conn, sockets, next, backoff, cancelled, alive, outbox, cuts,
                   refusals, server>>

\* The session and the socket are closed, and serveOnce returns an error.
Hangup ==
    /\ pc' = "lost"
    /\ conn' = None
    /\ sockets' = sockets \ {conn}
    /\ alive' = alive \ {conn}
    /\ Read(conn)
    /\ UNCHANGED <<next, backoff, cancelled, inbox, cuts, refusals, server>>

\* connectOverConn: Open or the write of Auth fails on a broken connection.
FailOpen ==
    /\ pc = "connect"
    /\ conn \notin alive
    /\ Hangup

\* AuthOK: the client is there, and its Close is deferred.
Welcome ==
    /\ pc = "auth"
    /\ outbox[conn] = "ok"
    /\ pc' = "register"
    /\ Read(conn)
    /\ UNCHANGED <<conn, sockets, next, backoff, cancelled, alive, inbox, cuts,
                   refusals, server>>

\* Slip: a failed handshake is returned without closing what was dialled.
FailAuthOpen ==
    /\ pc = "auth"
    /\ outbox[conn] = "error" \/ conn \notin alive
    /\ pc' = "lost"
    /\ conn' = None
    /\ Read(conn)
    /\ UNCHANGED <<sockets, next, backoff, cancelled, alive, inbox, cuts, refusals,
                   server>>

\* connectOverConn: the reply to Auth is an Error, or cannot be read.
FailAuth ==
    /\ pc = "auth"
    /\ outbox[conn] = "error" \/ conn \notin alive
    /\ Hangup

\* serveOnce's loop: register the next request, or serve when all are done.
\* ctx is not looked at here.
Register ==
    /\ pc = "register"
    /\ IF next <= N THEN pc' = "await" /\ Send("register")
                    ELSE pc' = "serve" /\ UNCHANGED inbox
    /\ UNCHANGED <<conn, sockets, next, backoff, cancelled, alive, outbox, cuts,
                   refusals, server>>

\* Slip: an Error is logged and the next tunnel registered.
ReceiveLenient ==
    /\ pc = "await"
    /\ outbox[conn] # "none"
    /\ Read(conn)
    /\ pc' = "register"
    /\ next' = next + 1
    /\ UNCHANGED <<conn, sockets, backoff, cancelled, alive, inbox, cuts, refusals,
                   server>>

\* The reply to Register.  An Error ends serveOnce.
Receive ==
    /\ pc = "await"
    /\ outbox[conn] # "none"
    /\ Read(conn)
    /\ pc' = IF outbox[conn] = "ok" THEN "register" ELSE "close"
    /\ next' = IF outbox[conn] = "ok" THEN next + 1 ELSE next
    /\ UNCHANGED <<conn, sockets, backoff, cancelled, alive, inbox, cuts, refusals,
                   server>>

\* Slip: Serve has no watcher that closes the session when ctx is done.
NoticeBreakOnly ==
    /\ pc \in {"await", "serve"} /\ conn \notin alive
    /\ pc' = "close"
    /\ UNCHANGED <<conn, sockets, next, backoff, cancelled, wires, cuts, refusals,
                   server>>

\* A request or sess.Accept returns an error: the connection broke, or Serve's
\* watcher closed the session because ctx is done.
Notice ==
    /\ \/ pc \in {"await", "serve"} /\ conn \notin alive
       \/ pc = "serve" /\ cancelled
    /\ pc' = "close"
    /\ UNCHANGED <<conn, sockets, next, backoff, cancelled, wires, cuts, refusals,
                   server>>

\* Slip: serveOnce returns without closing the client.
CloseNothing ==
    /\ pc = "close"
    /\ pc' = "lost"
    /\ conn' = None
    /\ Read(conn)
    /\ UNCHANGED <<sockets, next, backoff, cancelled, alive, inbox, cuts, refusals,
                   server>>

\* The deferred cl.Close of serveOnce.
Close ==
    /\ pc = "close"
    /\ Hangup

\* Slip: an error of serveOnce is taken for the end.
LostGivesUp ==
    /\ pc = "lost"
    /\ pc' = "stopped"
    /\ UNCHANGED <<conn, sockets, next, backoff, cancelled, wires, cuts, refusals,
                   server>>

\* serveOnce has returned.  Whether it ran for longer than maxBackoff is left
\* open: a session can break at any age, and a dial can hang.
Lost ==
    /\ pc = "lost"
    /\ \/ cancelled /\ pc' = "stopped" /\ UNCHANGED backoff
       \/ ~cancelled /\ pc' = "wait" /\ backoff' \in {backoff, minBackoff}
    /\ UNCHANGED <<conn, sockets, next, cancelled, wires, cuts, refusals, server>>

\* Slip: the doubling has no cap.
WaitUncapped ==
    /\ pc = "wait"
    /\ \/ cancelled /\ pc' = "stopped" /\ UNCHANGED backoff
       \/ pc' = "dial" /\ backoff' = backoff * 2
    /\ UNCHANGED <<conn, sockets, next, cancelled, wires, cuts, refusals, server>>

\* The select on ctx.Done and the timer, then the doubling.
Wait ==
    /\ pc = "wait"
    /\ \/ cancelled /\ pc' = "stopped" /\ UNCHANGED backoff
       \/ /\ pc' = "dial"
          /\ backoff' = IF backoff < maxBackoff
                        THEN IF backoff * 2 > maxBackoff THEN maxBackoff
                             ELSE backoff * 2
                        ELSE backoff
    /\ UNCHANGED <<conn, sockets, next, cancelled, wires, cuts, refusals, server>>

AgentStep ==
    \/ Dial \/ OpenControl \/ FailOpen \/ Welcome \/ FailAuth
    \/ Register \/ Receive \/ Notice \/ Close
    \/ Lost \/ Wait

Cancel ==
    /\ ~cancelled
    /\ cancelled' = TRUE
    /\ UNCHANGED <<agent, wires, cuts, refusals, server>>

-----------------------------------------------------------------------------
(* The server, one goroutine for each connection. *)

\* The address a connection asks for: requests come in the order of the list.
Asked(c) == CHOOSE i \in Tunnels : promised[c] = 1 .. i - 1

Answer(c, m) ==
    /\ inbox' = [inbox EXCEPT ![c] = "none"]
    /\ outbox' = IF c \in alive THEN [outbox EXCEPT ![c] = m] ELSE outbox

ServeAuth(c) ==
    /\ inbox[c] = "auth"
    /\ Server!Open(c)
    /\ Answer(c, "ok")
    /\ UNCHANGED <<agent, cancelled, alive, cuts, refusals>>

\* The token is not the one the server was started with: it answers Error and
\* closes the connection.
ServeReject(c) ==
    /\ inbox[c] = "auth"
    /\ refusals < MaxRefusals
    /\ refusals' = refusals + 1
    /\ Answer(c, "error")
    /\ alive' = alive \ {c}
    /\ UNCHANGED <<agent, cancelled, cuts, server>>

ServeTake(c) ==
    /\ inbox[c] = "register"
    /\ Server!Take(c, Asked(c))
    /\ UNCHANGED <<agent, cancelled, wires, cuts, refusals>>

ServeGrant(c) ==
    /\ inbox[c] = "register"
    /\ Server!Promise(c, Asked(c))
    /\ Answer(c, "ok")
    /\ UNCHANGED <<agent, cancelled, alive, cuts, refusals>>

\* The address is somebody's, for one this agent's last connection's.
ServeRefuse(c) ==
    /\ inbox[c] = "register"
    /\ owner[Asked(c)] \notin {None, c}
    /\ Answer(c, "error")
    /\ UNCHANGED <<agent, cancelled, alive, cuts, refusals, server>>

\* Registration fails after the address was taken: net.Listen.
ServeFail(c) ==
    /\ inbox[c] = "register"
    /\ refusals < MaxRefusals
    /\ refusals' = refusals + 1
    /\ Server!GiveBack(c, Asked(c))
    /\ Answer(c, "error")
    /\ UNCHANGED <<agent, cancelled, alive, cuts>>

\* The server notices that a connection is gone, and cleans up.
ServeExit(c) ==
    /\ c \notin alive
    /\ \/ Server!Close(c)
       \/ c \notin open /\ inbox[c] # "none" /\ UNCHANGED server
    /\ inbox' = [inbox EXCEPT ![c] = "none"]
    /\ UNCHANGED <<agent, cancelled, alive, outbox, cuts, refusals>>

ServerStep(c) ==
    \/ ServeAuth(c) \/ ServeReject(c)
    \/ ServeTake(c) \/ ServeGrant(c) \/ ServeRefuse(c) \/ ServeFail(c)
    \/ ServeExit(c)

\* The connection breaks, and neither end knows yet.
Cut(c) ==
    /\ c \in alive /\ cuts < MaxCuts
    /\ cuts' = cuts + 1
    /\ alive' = alive \ {c}
    /\ UNCHANGED <<agent, cancelled, inbox, outbox, refusals, server>>

\* lotund dies and is started again, with an empty registry.
Restart ==
    /\ cuts < MaxCuts
    /\ cuts' = cuts + 1
    /\ alive' = {}
    /\ inbox' = [c \in Conns |-> "none"]
    /\ open' = {}
    /\ owner' = [i \in Tunnels |-> None]
    /\ promised' = [c \in Conns |-> {}]
    /\ UNCHANGED <<agent, cancelled, outbox, refusals>>

-----------------------------------------------------------------------------

Next ==
    \/ AgentStep
    \/ Cancel
    \/ \E c \in Conns : ServerStep(c) \/ Cut(c)
    \/ Restart

Spec == Init /\ [][Next]_vars

\* The agent and the server's goroutines run on; a keepalive finds out about
\* a connection that is gone.
FairSpec ==
    /\ Spec
    /\ WF_vars(AgentStep)
    /\ \A c \in Conns : WF_vars(ServerStep(c))

-----------------------------------------------------------------------------
(* What must hold. *)

\* An agent that forwards traffic on a working connection has every tunnel of
\* its list: one that failed takes the others down with it (serveOnce).
ServingMeansAll ==
    pc = "serve" /\ conn \in alive => \A i \in Tunnels : owner[i] = conn

\* The agent never leaves a connection behind: every way out of connectOverConn,
\* and of serveOnce once the client is there, closes what was dialled, or a
\* long run of retries would hold one socket for each.
NoConnectionLeft == sockets \subseteq {conn}

\* When the failures stop, every tunnel comes back, though the server may take
\* the agent's own last connection for another client at first
\* (serveWithRetry).
ServesAgain == pc # "stopped" ~> pc = "serve" \/ cancelled

\* SIGINT ends the agent wherever it is.
CancelStops == cancelled ~> pc = "stopped"

\* An agent that stopped gives its addresses back.
StoppedReleases == pc = "stopped" ~> \A i \in Tunnels : owner[i] = None

-----------------------------------------------------------------------------
(* The inductive invariant behind the two invariants above. *)

Holding == {"connect", "auth", "register", "await", "serve", "close"}

\* The agent holds a connection just where somebody is there to close it, and
\* only one that was not closed can work.
Held == (conn = None <=> pc \notin Holding) /\ alive \subseteq sockets

\* An address that was promised is owned, and promises come in list order.
Promises ==
    \A c \in Conns :
        /\ c \notin open => promised[c] = {}
        /\ \A i \in promised[c] : owner[i] = c
        /\ \E k \in 0 .. N :
              promised[c] = 1 .. k /\ (inbox[c] = "register" => k < N)

\* The first k addresses are promised, or were before the server cleaned up.
Had(k) == IF conn \in alive THEN conn \in open /\ promised[conn] = 1 .. k
                            ELSE promised[conn] \in {{}, 1 .. k}

\* Request and reply take turns on the connection held, and a reply is the one
\* to the request that the agent waits for.
Turn ==
    /\ pc = "connect" =>
          /\ next = 1
          /\ promised[conn] = {}
          /\ inbox[conn] = "none" /\ outbox[conn] = "none"
    /\ pc = "auth" =>
          /\ next = 1
          /\ promised[conn] = {}
          /\ \/ inbox[conn] = "auth" /\ outbox[conn] = "none"
             \/ inbox[conn] = "none" /\ outbox[conn] = "ok" /\ Had(0)
             \/ inbox[conn] = "none" /\ outbox[conn] = "error"
             \/ inbox[conn] = "none" /\ outbox[conn] = "none" /\ conn \notin alive
    /\ pc = "register" =>
          inbox[conn] = "none" /\ outbox[conn] = "none" /\ Had(next - 1)
    /\ pc = "await" =>
          /\ next <= N
          /\ \/ inbox[conn] = "register" /\ outbox[conn] = "none" /\ Had(next - 1)
             \/ inbox[conn] = "none" /\ outbox[conn] = "ok" /\ Had(next)
             \/ inbox[conn] = "none" /\ outbox[conn] = "error"
             \/ inbox[conn] = "none" /\ outbox[conn] = "none" /\ conn \notin alive
    /\ pc = "serve" => inbox[conn] = "none" /\ Had(N)

IInv == TypeOK /\ Held /\ NoConnectionLeft /\ Promises /\ Turn
=============================================================================
