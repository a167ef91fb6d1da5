---------------------------- MODULE ControlPlane ----------------------------
(***************************************************************************)
(* The server side of lotun: the registry of tunnels                       *)
(* (internal/server/registry.go), the goroutine that serves each control   *)
(* connection (internal/server/server.go), the public listener of each tcp *)
(* tunnel (internal/server/tcp.go) and the shutdown goroutine of Run.      *)
(*                                                                         *)
(* Every control connection is a process with a program counter: a step    *)
(* ends where the code gives up a mutex, enters the kernel or writes to    *)
(* the client, so other connections, the shutdown goroutine and the        *)
(* environment run in between.  A session is a slot: it is used again by a *)
(* later connection once the goroutine of the earlier one has returned.    *)
(*                                                                         *)
(* A tunnel is identified by its address (the subdomain or the public      *)
(* port) and the session that owns it, which is what its random 64-bit id  *)
(* stands for; its password and allowlist belong to the data plane.        *)
(***************************************************************************)
EXTENDS Naturals, FiniteSets

CONSTANTS
    Sessions,          \* control connections alive at one time
    Names,             \* subdomains
    Words,             \* the subdomains names.Generate can draw
    Unlucky,           \* can a thousand draws all miss a name that is free?
    PortMin, PortMax,  \* tcpPortMin and tcpPortMax of the server's config
    Requests,          \* the Register messages clients send
    None,              \* nil, "" or not found
    Foreign            \* owner of a socket another program has bound

Ports == PortMin .. PortMax
Addresses == Names \cup Ports
Owners == Sessions \cup {None}

\* A listening socket, named by what keeps it apart from every other one open
\* at the same time.
Listener == [port: Ports, owner: Sessions]

\* Port 0 asks for an ephemeral port and is not an address a client can use.
ASSUME PortAssumption == PortMin \in Nat \ {0} /\ PortMax \in Nat
ASSUME NameAssumption == Words \subseteq Names /\ Names \cap Nat = {}
ASSUME OwnerAssumption == /\ None \notin Sessions \cup Addresses \cup Listener
                          /\ Foreign \notin Owners

\* unlisted: a private registration with an empty allowlist.
Register == [type: {"http", "tcp", "other"}, domain: Names \cup {None},
             remotePort: Nat, localPort: Nat, unlisted: BOOLEAN]

ASSUME RequestAssumption == Requests \subseteq Register /\ None \notin Register
ASSUME DrawAssumption == Unlucky \in BOOLEAN

VARIABLES
    regMu,         \* who holds Registry.mu between two steps
    httpBySub,     \* Registry.httpBySub: subdomain -> owner of its tunnel
    tcpByPort,     \* Registry.tcpByPort: port -> owner of its tunnel
    claims,        \* the names the claims store reports as claimed
    storeMu,       \* who holds FileStore.mu between two steps
    tcpListeners,  \* Server.tcpListeners: port -> owner of the tracked listener
    bound,         \* the kernel: port -> owner of the socket listening on it
    link,          \* the yamux session as the server sees it
    pc,            \* where each connection's goroutine is
    req,           \* the Register message being handled
    addr,          \* local: the name resolved, then the address recorded
    freed,         \* local: the ports RemoveSession returned, still to close
    victim,        \* local: the listener closeTCP took out of tcpListeners
    told,          \* the addresses a connection was answered Registered for
    phase,         \* how far the shutdown goroutine is
    doomed         \* local: the listeners closeAllTCP still has to close

registry == <<httpBySub, tcpByPort>>
store == <<claims, storeMu>>
sockets == <<tcpListeners, bound>>
shutdown == <<phase, doomed>>
locals == <<req, addr, freed, victim>>
vars == <<regMu, registry, store, sockets, link, pc, locals, told, shutdown>>

Idle == {"none", "auth", "sessClose"}
Registering == {"lock", "resolve", "commit", "listen", "track", "undo", "reply"}
Serving == {"read", "save"} \cup Registering
Cleaning == {"cleanup", "close", "unbind"}

TypeOK ==
    /\ regMu \in Owners
    /\ httpBySub \in [Names -> Owners]
    /\ tcpByPort \in [Ports -> Owners]
    /\ claims \in SUBSET Names
    /\ storeMu \in Owners
    /\ tcpListeners \in [Ports -> Owners]
    /\ bound \in [Ports -> Owners \cup {Foreign}]
    /\ link \in [Sessions -> {"closed", "up", "down"}]
    /\ pc \in [Sessions -> Idle \cup Serving \cup Cleaning]
    /\ req \in [Sessions -> Requests \cup {None}]
    /\ addr \in [Sessions -> Addresses \cup {None}]
    /\ freed \in [Sessions -> SUBSET Ports]
    /\ victim \in [Sessions -> Listener \cup {None}]
    /\ told \in [Sessions -> SUBSET Addresses]
    /\ phase \in {"running", "cancelled", "swapped"}
    /\ doomed \in SUBSET Listener

\* NewRegistry and New: empty tables over the claims that store.Open loaded.
Init ==
    /\ regMu = None
    /\ httpBySub = [n \in Names |-> None]
    /\ tcpByPort = [p \in Ports |-> None]
    /\ claims \in SUBSET Names
    /\ storeMu = None
    /\ tcpListeners = [p \in Ports |-> None]
    /\ bound = [p \in Ports |-> None]
    /\ link = [s \in Sessions |-> "closed"]
    /\ pc = [s \in Sessions |-> "none"]
    /\ req = [s \in Sessions |-> None]
    /\ addr = [s \in Sessions |-> None]
    /\ freed = [s \in Sessions |-> {}]
    /\ victim = [s \in Sessions |-> None]
    /\ told = [s \in Sessions |-> {}]
    /\ phase = "running"
    /\ doomed = {}

-----------------------------------------------------------------------------
(* Steps of one connection's goroutine. *)

Goto(s, from, to) ==
    /\ pc[s] = from
    /\ pc' = [pc EXCEPT ![s] = to]

\* acceptControl hands a connection to a goroutine while the control listener
\* is open; the goroutine starts yamux and accepts the control stream.
Connect(s) ==
    /\ phase = "running"
    /\ Goto(s, "none", "auth")
    /\ link' = [link EXCEPT ![s] = "up"]
    /\ UNCHANGED <<regMu, registry, store, sockets, locals, told, shutdown>>

\* authenticate: until AuthOK is written no cleanup is deferred, so a refusal
\* or an I/O error goes straight to the deferred sess.Close and conn.Close.
Authenticate(s) ==
    /\ \/ link[s] = "up" /\ Goto(s, "auth", "read")
       \/ Goto(s, "auth", "sessClose")
    /\ UNCHANGED <<regMu, registry, store, sockets, link, locals, told,
                   shutdown>>

\* serveControl reads a Register message and calls handleRegister.
Receive(s, r) ==
    /\ link[s] = "up"
    /\ Goto(s, "read", "lock")
    /\ req' = [req EXCEPT ![s] = r]
    /\ UNCHANGED <<regMu, registry, store, sockets, link, addr, freed, victim,
                   told, shutdown>>

\* freeName: a drawn name that is neither claimed nor routed.  When a thousand
\* draws find none it takes one more word unchecked: always when none is free,
\* and with bad luck when some are.
DrawnNames ==
    LET free == {n \in Words : httpBySub[n] = None /\ n \notin claims}
    IN  IF free # {} /\ ~Unlucky THEN free ELSE Words

\* Register takes Registry.mu.
Lock(s) ==
    /\ regMu = None
    /\ regMu' = s
    /\ Goto(s, "lock", "resolve")
    /\ UNCHANGED <<registry, store, sockets, link, locals, told, shutdown>>

\* Register returns: the deferred Unlock, and the request is done with.
Unlock(s) ==
    /\ regMu' = None
    /\ req' = [req EXCEPT ![s] = None]

\* Register, up to the switch: with Registry.mu held it asks the claims store,
\* and waits for a save that is under way.
Resolve(s) ==
    /\ storeMu = None
    /\ \/ /\ Goto(s, "resolve", "commit")
          /\ \/ /\ req[s].domain = None
                /\ \E n \in DrawnNames : addr' = [addr EXCEPT ![s] = n]
             \/ /\ req[s].domain \in claims
                /\ addr' = [addr EXCEPT ![s] = req[s].domain]
          /\ UNCHANGED <<regMu, req>>
       \/ /\ Goto(s, "resolve", "reply")
          /\ req[s].domain \notin claims \cup {None}    \* ErrNotClaimed
          /\ Unlock(s)
          /\ UNCHANGED addr
    /\ UNCHANGED <<registry, store, sockets, link, freed, victim, told,
                   shutdown>>

\* Slip: allocPort does not look whether the wanted port is in use.
AllocPortInUse(want, localPort) ==
    LET free == {p \in Ports : tcpByPort[p] = None}
    IN  IF want # 0 THEN {want} \cap Ports
        ELSE IF localPort \in free THEN {localPort}
        ELSE {p \in free : \A q \in free : p <= q}

\* allocPort: the port the request gets, or {} when it gets none.
AllocPort(want, localPort) ==
    LET free == {p \in Ports : tcpByPort[p] = None}
    IN  IF want # 0 THEN {want} \cap free
        ELSE IF localPort \in free THEN {localPort}
        ELSE {p \in free : \A q \in free : p <= q}

\* Slip: no check that the subdomain is in use.
CommitHTTPInUse(s) ==
    /\ pc[s] = "commit"
    /\ req[s].type = "http"
    /\ httpBySub' = [httpBySub EXCEPT ![addr[s]] = s]
    /\ pc' = [pc EXCEPT ![s] = "reply"]
    /\ Unlock(s)
    /\ UNCHANGED <<tcpByPort, store, sockets, link, addr, freed, victim, told,
                   shutdown>>

CommitHTTP(s) ==
    /\ pc[s] = "commit"
    /\ req[s].type = "http"
    /\ httpBySub[addr[s]] = None
    /\ httpBySub' = [httpBySub EXCEPT ![addr[s]] = s]
    /\ pc' = [pc EXCEPT ![s] = "reply"]
    /\ Unlock(s)
    /\ UNCHANGED <<tcpByPort, store, sockets, link, addr, freed, victim, told,
                   shutdown>>

\* Slip: a wanted port is taken without the range check of allocPort.
CommitTCPAnyPort(s, p) ==
    /\ pc[s] = "commit"
    /\ req[s].type = "tcp" /\ ~req[s].unlisted
    /\ tcpByPort[p] = None
    /\ LET port == IF req[s].remotePort # 0 THEN req[s].remotePort ELSE p
       IN  /\ tcpByPort' = [tcpByPort EXCEPT ![port] = s]
           /\ addr' = [addr EXCEPT ![s] = port]
    /\ pc' = [pc EXCEPT ![s] = "listen"]
    /\ Unlock(s)
    /\ UNCHANGED <<httpBySub, store, sockets, link, freed, victim, told,
                   shutdown>>

CommitTCP(s, p) ==
    /\ pc[s] = "commit"
    /\ req[s].type = "tcp" /\ ~req[s].unlisted
    /\ p \in AllocPort(req[s].remotePort, req[s].localPort)
    /\ tcpByPort' = [tcpByPort EXCEPT ![p] = s]
    /\ addr' = [addr EXCEPT ![s] = p]
    /\ pc' = [pc EXCEPT ![s] = "listen"]
    /\ Unlock(s)
    /\ UNCHANGED <<httpBySub, store, sockets, link, freed, victim, told,
                   shutdown>>

\* ErrSubdomainInUse, ErrAllowIPsRequired and the errors of allocPort.
Refused(r, name) ==
    \/ r.type = "http" /\ httpBySub[name] # None
    \/ /\ r.type = "tcp"
       /\ r.unlisted \/ AllocPort(r.remotePort, r.localPort) = {}

Refuse(s) ==
    /\ Goto(s, "commit", "reply")
    /\ Refused(req[s], addr[s])
    /\ addr' = [addr EXCEPT ![s] = None]
    /\ Unlock(s)
    /\ UNCHANGED <<registry, store, sockets, link, freed, victim, told,
                   shutdown>>

\* Register records nothing for any other type, and handleRegister's default
\* case removes it again before it answers Error.
CommitOther(s) ==
    /\ Goto(s, "commit", "undo")
    /\ req[s].type \notin {"http", "tcp"}
    /\ addr' = [addr EXCEPT ![s] = None]
    /\ Unlock(s)
    /\ UNCHANGED <<registry, store, sockets, link, freed, victim, told,
                   shutdown>>

\* startTCPTunnel: net.Listen, which fails while the port is bound.
Listen(s) ==
    /\ \/ /\ Goto(s, "listen", "track")
          /\ bound[addr[s]] = None
          /\ bound' = [bound EXCEPT ![addr[s]] = s]
       \/ /\ Goto(s, "listen", "undo")
          /\ bound[addr[s]] # None
          /\ UNCHANGED bound
    /\ UNCHANGED <<regMu, registry, store, tcpListeners, link, locals, told,
                   shutdown>>

\* startTCPTunnel: remember the listener under tcpMu, then start acceptTCP.
Track(s) ==
    /\ Goto(s, "track", "reply")
    /\ tcpListeners' = [tcpListeners EXCEPT ![addr[s]] = s]
    /\ UNCHANGED <<regMu, registry, store, bound, link, locals, told, shutdown>>

\* Slip: a failed listen is answered without Registry.Remove.
UndoNothing(s) ==
    /\ regMu = None
    /\ Goto(s, "undo", "reply")
    /\ addr' = [addr EXCEPT ![s] = None]
    /\ UNCHANGED <<regMu, registry, store, sockets, link, req, freed, victim,
                   told, shutdown>>

\* Slip: a failed listen removes the whole session, not the one tunnel.
UndoSession(s) ==
    /\ regMu = None
    /\ Goto(s, "undo", "reply")
    /\ tcpByPort' = [p \in Ports |->
                        IF tcpByPort[p] = s THEN None ELSE tcpByPort[p]]
    /\ addr' = [addr EXCEPT ![s] = None]
    /\ UNCHANGED <<regMu, httpBySub, store, sockets, link, req, freed, victim,
                   told, shutdown>>

\* Registry.Remove of the tunnel just recorded, under mu.
Undo(s) ==
    /\ regMu = None
    /\ Goto(s, "undo", "reply")
    /\ tcpByPort' = [p \in Ports |->
                        IF p = addr[s] /\ tcpByPort[p] = s THEN None
                        ELSE tcpByPort[p]]
    /\ addr' = [addr EXCEPT ![s] = None]
    /\ UNCHANGED <<regMu, httpBySub, store, sockets, link, req, freed, victim,
                   told, shutdown>>

\* WriteMessage of the reply: Registered when there is an address, otherwise
\* OK, Error or TunnelList.  On a write error serveControl returns.
Reply(s) ==
    /\ \/ /\ link[s] = "up"
          /\ Goto(s, "reply", "read")
          /\ told' = [told EXCEPT ![s] = @ \cup ({addr[s]} \ {None})]
          /\ addr' = [addr EXCEPT ![s] = None]
       \/ /\ link[s] = "down"
          /\ Goto(s, "reply", "cleanup")
          /\ UNCHANGED <<told, addr>>
    /\ UNCHANGED <<regMu, registry, store, sockets, link, req, freed, victim,
                   shutdown>>

\* handleClaim and handleUnclaim, under FileStore.mu.  A claim that is held is
\* refused; otherwise the map changes, and the mutex is kept until it is saved.
HandleClaim(s, n) ==
    /\ link[s] = "up"
    /\ storeMu = None
    /\ claims' = claims \cup {n}
    /\ \/ n \in claims /\ Goto(s, "read", "reply") /\ UNCHANGED storeMu
       \/ n \notin claims /\ Goto(s, "read", "save") /\ storeMu' = s
    /\ UNCHANGED <<regMu, registry, sockets, link, locals, told, shutdown>>

HandleUnclaim(s, n) ==
    /\ link[s] = "up"
    /\ storeMu = None
    /\ claims' = claims \ {n}
    /\ Goto(s, "read", "save")
    /\ storeMu' = s
    /\ UNCHANGED <<regMu, registry, sockets, link, locals, told, shutdown>>

\* Slip: a save returns without giving the store's mutex back.
SavedLocked(s) ==
    /\ Goto(s, "save", "reply")
    /\ UNCHANGED <<regMu, registry, store, sockets, link, locals, told,
                   shutdown>>

\* save returns, with an error or without: the map stays as it was changed (see
\* ClaimStore).
Saved(s) ==
    /\ Goto(s, "save", "reply")
    /\ storeMu' = None
    /\ UNCHANGED <<regMu, registry, claims, sockets, link, locals, told,
                   shutdown>>

\* handleList reads the registry under mu and changes nothing.  A message the
\* server does not expect is answered with Error, which changes nothing either.
HandleList(s) ==
    /\ link[s] = "up"
    /\ regMu = None
    /\ Goto(s, "read", "reply")
    /\ UNCHANGED <<regMu, registry, store, sockets, link, locals, told,
                   shutdown>>

\* serveControl returns: the connection is gone, or a frame does not decode.
Exit(s) ==
    /\ Goto(s, "read", "cleanup")
    /\ UNCHANGED <<regMu, registry, store, sockets, link, locals, told,
                   shutdown>>

\* Slip: the cleanup forgets the http tunnels.
RemoveSessionPortsOnly(s) ==
    /\ regMu = None
    /\ Goto(s, "cleanup", "close")
    /\ tcpByPort' = [p \in Ports |->
                        IF tcpByPort[p] = s THEN None ELSE tcpByPort[p]]
    /\ freed' = [freed EXCEPT ![s] = {p \in Ports : tcpByPort[p] = s}]
    /\ told' = [told EXCEPT ![s] = {}]
    /\ addr' = [addr EXCEPT ![s] = None]
    /\ UNCHANGED <<regMu, httpBySub, store, sockets, link, req, victim,
                   shutdown>>

\* The deferred cleanup: RemoveSession takes every tunnel of the session out
\* of both tables in one critical section and returns the ports.
RemoveSession(s) ==
    /\ regMu = None
    /\ Goto(s, "cleanup", "close")
    /\ httpBySub' = [n \in Names |->
                        IF httpBySub[n] = s THEN None ELSE httpBySub[n]]
    /\ tcpByPort' = [p \in Ports |->
                        IF tcpByPort[p] = s THEN None ELSE tcpByPort[p]]
    /\ freed' = [freed EXCEPT ![s] = {p \in Ports : tcpByPort[p] = s}]
    /\ told' = [told EXCEPT ![s] = {}]
    /\ addr' = [addr EXCEPT ![s] = None]
    /\ UNCHANGED <<regMu, store, sockets, link, req, victim, shutdown>>

\* closeTCP, under tcpMu: whatever listener is tracked for the port now is
\* taken out of the map, to be closed after the unlock.
CloseTCP(s, p) ==
    /\ pc[s] = "close"
    /\ p \in freed[s]
    /\ freed' = [freed EXCEPT ![s] = @ \ {p}]
    /\ tcpListeners' = [tcpListeners EXCEPT ![p] = None]
    /\ LET owner == tcpListeners[p]
       IN  \/ /\ owner # None
              /\ pc' = [pc EXCEPT ![s] = "unbind"]
              /\ victim' = [victim EXCEPT ![s] = [port |-> p, owner |-> owner]]
           \/ /\ owner = None
              /\ UNCHANGED <<pc, victim>>
    /\ UNCHANGED <<regMu, registry, store, bound, link, req, addr, told,
                   shutdown>>

\* What Close does to a listener's socket; a second Close is an error.
Closed(l) == [bound EXCEPT ![l.port] = IF @ = l.owner THEN None ELSE @]

\* Slip: the listener is forgotten, and never closed.
UnbindNothing(s) ==
    /\ Goto(s, "unbind", "close")
    /\ victim' = [victim EXCEPT ![s] = None]
    /\ UNCHANGED <<regMu, registry, store, sockets, link, req, addr, freed,
                   told, shutdown>>

\* closeTCP, after the unlock: ln.Close.
Unbind(s) ==
    /\ Goto(s, "unbind", "close")
    /\ bound' = Closed(victim[s])
    /\ victim' = [victim EXCEPT ![s] = None]
    /\ UNCHANGED <<regMu, registry, store, tcpListeners, link, req, addr, freed,
                   told, shutdown>>

\* The deferred sess.Close and conn.Close end the goroutine.
CloseSession(s) ==
    /\ \/ Goto(s, "sessClose", "none")
       \/ freed[s] = {} /\ Goto(s, "close", "none")
    /\ link' = [link EXCEPT ![s] = "closed"]
    /\ UNCHANGED <<regMu, registry, store, sockets, locals, told, shutdown>>

-----------------------------------------------------------------------------
(* The shutdown goroutine of Run. *)

\* ctx is done: ctrlLn.Close and httpSrv.Close.
Cancel ==
    /\ phase = "running"
    /\ phase' = "cancelled"
    /\ UNCHANGED <<regMu, registry, store, sockets, link, pc, locals, told,
                   doomed>>

\* closeAllTCP, under tcpMu: a new empty map replaces the tracked listeners.
SwapListeners ==
    /\ phase = "cancelled"
    /\ phase' = "swapped"
    /\ doomed' = {l \in Listener : tcpListeners[l.port] = l.owner}
    /\ tcpListeners' = [p \in Ports |-> None]
    /\ UNCHANGED <<regMu, registry, store, bound, link, pc, locals, told>>

\* closeAllTCP, after the unlock, closes them in the map's random order.
CloseDoomed(l) ==
    /\ l \in doomed
    /\ doomed' = doomed \ {l}
    /\ bound' = Closed(l)
    /\ UNCHANGED <<regMu, registry, store, tcpListeners, link, pc, locals, told,
                   phase>>

-----------------------------------------------------------------------------
(* The environment: connections break, other programs use the ports. *)

Drop(s) ==
    /\ link[s] = "up"
    /\ link' = [link EXCEPT ![s] = "down"]
    /\ UNCHANGED <<regMu, registry, store, sockets, pc, locals, told, shutdown>>

ForeignSocket(p) ==
    /\ \/ bound[p] = None /\ bound' = [bound EXCEPT ![p] = Foreign]
       \/ bound[p] = Foreign /\ bound' = [bound EXCEPT ![p] = None]
    /\ UNCHANGED <<regMu, registry, store, tcpListeners, link, pc, locals, told,
                   shutdown>>

-----------------------------------------------------------------------------

\* The steps of a goroutine that need nothing from its client.
Step(s) ==
    \/ Lock(s) \/ Resolve(s) \/ Saved(s)
    \/ CommitHTTP(s) \/ CommitOther(s) \/ Refuse(s)
    \/ \E p \in Ports : CommitTCP(s, p) \/ CloseTCP(s, p)
    \/ Listen(s) \/ Track(s) \/ Undo(s) \/ Reply(s)
    \/ RemoveSession(s) \/ Unbind(s) \/ CloseSession(s)

\* What a client makes the goroutine do.
Serve(s) ==
    \/ Connect(s)
    \/ Authenticate(s)
    \/ \E r \in Requests : Receive(s, r)
    \/ \E n \in Names : HandleClaim(s, n) \/ HandleUnclaim(s, n)
    \/ HandleList(s)
    \/ Exit(s)

Shutdown ==
    \/ Cancel \/ SwapListeners
    \/ \E l \in doomed : CloseDoomed(l)

Environment ==
    \/ \E s \in Sessions : Drop(s)
    \/ \E p \in Ports : ForeignSocket(p)

Next ==
    \/ \E s \in Sessions : Step(s) \/ Serve(s)
    \/ Shutdown
    \/ Environment

Spec == Init /\ [][Next]_vars

\* Go's scheduler runs every runnable goroutine, and a sync.Mutex goes to a
\* waiter that has been starved for a millisecond: a step that is possible
\* again and again happens.  A read on a dead connection returns an error.
Fairness ==
    /\ \A s \in Sessions : SF_vars(Step(s))
    /\ \A s \in Sessions : WF_vars(link[s] = "down" /\ Exit(s))
    /\ WF_vars(SwapListeners \/ \E l \in doomed : CloseDoomed(l))

FairSpec == Spec /\ Fairness

-----------------------------------------------------------------------------
(* What must hold. *)

\* s owns up to l: its handler has yet to track it, it is tracked and the
\* registry or the session's cleanup still knows the port, or a goroutine is
\* about to close it.
Accounted(l) ==
    \/ pc[l.owner] = "track" /\ addr[l.owner] = l.port
    \/ /\ tcpListeners[l.port] = l.owner
       /\ tcpByPort[l.port] = l.owner \/ l.port \in freed[l.owner]
    \/ \E t \in Sessions : victim[t] = l
    \/ l \in doomed

\* No public listener leaks: whatever the order of registrations, failures,
\* disconnects and shutdown, a socket the server has bound is one that some
\* goroutine still knows and will close (startTCPTunnel, closeTCP,
\* closeAllTCP).
NoOrphanListener ==
    \A l \in Listener : bound[l.port] = l.owner => Accounted(l)

\* A session that was answered Registered for a port and has not gone away
\* has its listener open and tracked, and the port routes to it: no other
\* session's failed registration or late cleanup takes it away.  Shutdown
\* closes listeners under live sessions, so this speaks of a running server.
AnsweredPortsListen ==
    phase = "running" =>
        \A s \in Sessions : \A p \in told[s] \cap Ports :
            tcpByPort[p] = s /\ tcpListeners[p] = s /\ bound[p] = s

\* The routing tables hold exactly what clients were answered, plus the
\* registrations being handled: a failed registration leaves no route behind,
\* an answered name keeps its route, and a session that is cleaned up has no
\* route (Register, Remove, RemoveSession).
RoutesMatchAnswers ==
    /\ \A s \in Sessions : \A n \in told[s] \cap Names : httpBySub[n] = s
    /\ \A n \in Names : \A s \in Sessions :
          httpBySub[n] = s => n \in told[s] \cup {addr[s]}
    /\ \A p \in Ports : \A s \in Sessions :
          tcpByPort[p] = s => p \in told[s] \cup {addr[s]}

\* l is in the hands of a goroutine that is about to close it.
Closing(l) == (\E t \in Sessions : victim[t] = l) \/ l \in doomed

\* A goroutine that is done with its connection leaves nothing behind, however
\* it came to the end: no mutex, no route, no tracked listener,
\* and no socket but one that another goroutine is about to close
\* (handleControlConn and its deferred calls).
NothingLeftBehind ==
    \A s \in Sessions : pc[s] \in Idle =>
        /\ regMu # s /\ storeMu # s
        /\ \A n \in Names : httpBySub[n] # s
        /\ \A p \in Ports :
              /\ tcpByPort[p] # s /\ tcpListeners[p] # s
              /\ bound[p] = s => Closing([port |-> p, owner |-> s])

-----------------------------------------------------------------------------
(* The inductive invariant behind the four invariants above. *)

\* Registry.mu is held between two steps by a goroutine in Register only, and
\* FileStore.mu by one that saves.
Locked ==
    \A s \in Sessions :
        /\ regMu = s <=> pc[s] \in {"resolve", "commit"}
        /\ storeMu = s <=> pc[s] = "save"

\* What addr means at each place of the handler.
LocalAddress ==
    \A s \in Sessions :
        /\ pc[s] \notin Registering \cup {"cleanup"} => addr[s] = None
        /\ pc[s] \in {"lock", "resolve"} => addr[s] = None
        /\ pc[s] = "commit" => addr[s] \in Names
        /\ pc[s] \in {"listen", "track"} => addr[s] \in Ports
        /\ pc[s] = "undo" => addr[s] \in Ports \cup {None}
        /\ pc[s] \in {"listen", "track", "undo"} /\ addr[s] # None =>
              tcpByPort[addr[s]] = s /\ addr[s] \notin told[s]
        /\ pc[s] \in {"listen", "undo"} /\ addr[s] # None =>
              tcpListeners[addr[s]] # s
        /\ pc[s] = "reply" /\ addr[s] \in Names => httpBySub[addr[s]] = s
        /\ pc[s] = "reply" /\ addr[s] \in Ports => tcpByPort[addr[s]] = s

\* Who can own a route, and that an answered address is routed.
RouteOwners ==
    /\ \A s \in Sessions : told[s] # {} => pc[s] \in Serving \cup {"cleanup"}
    /\ \A s \in Sessions, n \in Names :
          /\ n \in told[s] => httpBySub[n] = s
          /\ httpBySub[n] = s =>
                \/ n \in told[s]
                \/ addr[s] = n /\ pc[s] \in {"reply", "cleanup"}
    /\ \A s \in Sessions, p \in Ports :
          /\ p \in told[s] => tcpByPort[p] = s
          /\ tcpByPort[p] = s =>
                \/ p \in told[s]
                \/ /\ addr[s] = p
                   /\ pc[s] \in {"listen", "track", "undo", "reply", "cleanup"}

\* The locals of the cleanup and of closeAllTCP are empty outside them.
CleanupLocals ==
    /\ \A s \in Sessions : pc[s] \notin {"close", "unbind"} => freed[s] = {}
    /\ \A s \in Sessions : pc[s] = "unbind" <=> victim[s] # None
    /\ phase # "swapped" => doomed = {}

\* A goroutine knows a socket while it has yet to track it, while it is
\* tracked, while closeTCP holds it, or while closeAllTCP does.  Whoever knows
\* a socket finds it open, and no two know the same one.
TrackedOpen ==
    /\ \A s \in Sessions : pc[s] = "track" =>
          bound[addr[s]] = s /\ tcpListeners[addr[s]] # s
    /\ \A p \in Ports, s \in Sessions : tcpListeners[p] = s => bound[p] = s

\* l is open, and none of the first two know it.
Taken(l) ==
    /\ bound[l.port] = l.owner
    /\ tcpListeners[l.port] # l.owner
    /\ ~(pc[l.owner] = "track" /\ addr[l.owner] = l.port)

VictimOpen ==
    \A l \in Listener, s \in Sessions : victim[s] = l =>
        /\ Taken(l)
        /\ l \notin doomed
        /\ \A t \in Sessions : victim[t] = l => t = s

DoomedOpen == \A l \in doomed : Taken(l)

\* A tracked listener belongs to a route or to a cleanup under way.
TrackedAreKnown ==
    \A p \in Ports, s \in Sessions :
        tcpListeners[p] = s => tcpByPort[p] = s \/ p \in freed[s]

\* Until shutdown, a route past its registration and a port in a cleanup have
\* their own listener tracked.
RunningTracked ==
    phase = "running" =>
        \A p \in Ports, s \in Sessions :
            /\ /\ tcpByPort[p] = s
               /\ ~(pc[s] \in {"listen", "track", "undo"} /\ addr[s] = p)
               => tcpListeners[p] = s
            /\ p \in freed[s] => tcpListeners[p] = s

IInv ==
    /\ TypeOK
    /\ Locked
    /\ LocalAddress
    /\ RouteOwners
    /\ CleanupLocals
    /\ TrackedOpen
    /\ VictimOpen
    /\ DoomedOpen
    /\ TrackedAreKnown
    /\ RunningTracked
    /\ NoOrphanListener

-----------------------------------------------------------------------------
(* Progress and refinement. *)

\* A connection that broke gives everything back: its routes, its ports and
\* its sockets (the deferred cleanup of handleControlConn).
BrokenSessionsRelease ==
    \A s \in Sessions :
        link[s] = "down" ~> /\ \A n \in Names : httpBySub[n] # s
                           /\ \A p \in Ports : tcpByPort[p] # s /\ bound[p] # s

\* Every registration is answered, or its connection is cleaned up: no path
\* through handleRegister, handleClaim or handleUnclaim keeps Registry.mu or the
\* store's mutex, which Register waits for with the former held.
RegistrationsEnd ==
    \A s \in Sessions : pc[s] = "lock" ~> pc[s] \in {"read", "cleanup"}

\* Who is served, and who has each address, for the lease contract.
InService == Serving \cup {"cleanup"}
Served == {s \in Sessions : pc[s] \in InService}
AddressOwner == [a \in Addresses |-> IF a \in Names THEN httpBySub[a]
                                     ELSE tcpByPort[a]]

\* The registry keeps the lease contract: an address has one owner, a failed
\* registration gives back what it took, an answered address stays until the
\* session ends, and then all of them go in one step.
Lease == INSTANCE AddressLease WITH
    Clients <- Sessions, Nobody <- None,
    open <- Served, owner <- AddressOwner, promised <- told
LeaseSpec == Lease!Spec

(* What the documentation says and the code does not do. *)

\* server.go:170-173: on close a session closes "their tcp listeners", those
\* of its own tunnels.
ClosesOwnListeners ==
    \A s \in Sessions : victim[s] # None => victim[s].owner = s

\* docs/DESIGN.md: a claim "prevents random-assignment collisions": a random
\* name is not a claimed one while an unclaimed word is free.
RandomNamesAvoidClaims ==
    [][\A s \in Sessions, n \in Names :
          /\ httpBySub[n] # s /\ httpBySub'[n] = s
          /\ req[s].domain = None
          /\ \E m \in Words : httpBySub[m] = None /\ m \notin claims
          => n \notin claims]_vars

\* docs/protocol.md:78, README.md:130 and guide.md:212: an omitted remote port
\* "defaults to localPort": the registration gets that port or none.
OmittedPortIsLocalPort ==
    [][\A s \in Sessions :
          /\ pc[s] = "commit" /\ req[s].type = "tcp" /\ req[s].remotePort = 0
          /\ pc'[s] = "listen"
          => addr'[s] = req[s].localPort]_vars
=============================================================================
