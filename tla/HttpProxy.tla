------------------------------ MODULE HttpProxy ------------------------------
(***************************************************************************)
(* The public HTTP handler (internal/server/http.go): it looks a subdomain *)
(* up, checks the password of a private tunnel, and passes the request on  *)
(* through the reverse proxy cached for the tunnel.  The registry is known *)
(* by the lease contract that ControlPlane implements, so tunnels come and *)
(* go between any two steps of a request.                                  *)
(*                                                                         *)
(* A tunnel's random id is the session and the name: a session is used     *)
(* once, and keeps a name until it is removed.  What a proxy does with its *)
(* streams (idle ones are used again, a request that met a dead one is     *)
(* tried again) is net/http's Transport.                                   *)
(***************************************************************************)
EXTENDS Naturals, FiniteSets

CONSTANTS
    Sessions,   \* control connections, each used once
    Private,    \* those whose tunnels are private, each with its own password
    Names,      \* subdomains
    Requests,   \* public requests under way at one time
    MaxIdle,    \* bound: MaxIdleConnsPerHost of a transport
    None

Tunnels == Sessions \X Names
Owners == Sessions \cup {None}

ASSUME SessionAssumption == Private \subseteq Sessions /\ None \notin Sessions
ASSUME TunnelAssumption == None \notin Tunnels /\ MaxIdle \in Nat

VARIABLES
    open, owner, promised,  \* the registry: see AddressLease
    link,     \* the session: "new", "up" or "closed", by whichever side
    pc,       \* where ServeHTTP is
    host,     \* the request's subdomain
    creds,    \* whose password it carries
    tn,       \* the tunnel looked up
    rp,       \* the tunnel that the reverse proxy was made for
    via,      \* the tunnel whose stream carries the request
    status,   \* what it was answered
    proxies,  \* httpProxy.proxies: the tunnels with a reverse proxy
    idle,     \* tunnel -> the idle streams of its proxy's transport
    seen      \* who owned the subdomain at some time since the request came

Registry == INSTANCE AddressLease WITH
    Clients <- Sessions, Addresses <- Names, Nobody <- None

registry == <<open, owner, promised>>
locals == <<pc, tn, rp, via, status>>
request == <<host, creds>>
cache == <<proxies, idle>>
vars == <<registry, link, locals, request, cache, seen>>

Sent == {"fresh", "reused"}

TypeOK ==
    /\ open \in SUBSET Sessions
    /\ owner \in [Names -> Owners]
    /\ promised \in [Sessions -> SUBSET Names]
    /\ link \in [Sessions -> {"new", "up", "closed"}]
    /\ pc \in [Requests -> {"done", "lookup", "auth", "proxy", "dial"} \cup Sent]
    /\ host \in [Requests -> Names]
    /\ creds \in [Requests -> Owners]
    /\ tn \in [Requests -> Tunnels \cup {None}]
    /\ rp \in [Requests -> Tunnels \cup {None}]
    /\ via \in [Requests -> Tunnels \cup {None}]
    /\ status \in [Requests -> {0, 200, 401, 404, 502}]
    /\ proxies \in SUBSET Tunnels
    /\ idle \in [Tunnels -> 0 .. MaxIdle]
    /\ seen \in [Requests -> SUBSET Owners]

Init ==
    /\ Registry!Init
    /\ link = [s \in Sessions |-> "new"]
    /\ pc = [r \in Requests |-> "done"]
    /\ host \in [Requests -> Names]
    /\ creds = [r \in Requests |-> None]
    /\ tn = [r \in Requests |-> None]
    /\ rp = [r \in Requests |-> None]
    /\ via = [r \in Requests |-> None]
    /\ status = [r \in Requests |-> 0]
    /\ proxies = {}
    /\ idle = [t \in Tunnels |-> 0]
    /\ seen = [r \in Requests |-> {}]

-----------------------------------------------------------------------------
(* ServeHTTP, for one request. *)

Goto(r, from, to) ==
    /\ pc[r] \in from
    /\ pc' = [pc EXCEPT ![r] = to]

Answer(r, code) == status' = [status EXCEPT ![r] = code]
Forget(local, r) == [local EXCEPT ![r] = None]

\* A request for a subdomain of the base arrives; any other Host is answered
\* 404 at once (subdomainFromHost).
Arrive(r, n, c) ==
    /\ Goto(r, {"done"}, "lookup")
    /\ host' = [host EXCEPT ![r] = n]
    /\ creds' = [creds EXCEPT ![r] = c]
    /\ seen' = [seen EXCEPT ![r] = {owner[n]}]
    /\ via' = Forget(via, r)
    /\ Answer(r, 0)
    /\ UNCHANGED <<registry, link, tn, rp, cache>>

\* Slip: the second result of LookupHTTP is ignored.
LookupUnchecked(r) ==
    /\ Goto(r, {"lookup"}, "auth")
    /\ tn' = [tn EXCEPT ![r] = <<owner[host[r]], host[r]>>]
    /\ UNCHANGED <<registry, link, rp, via, status, request, cache, seen>>

\* LookupHTTP, under the registry's mutex.
Lookup(r) ==
    /\ \/ /\ owner[host[r]] # None
          /\ Goto(r, {"lookup"}, "auth")
          /\ tn' = [tn EXCEPT ![r] = <<owner[host[r]], host[r]>>]
          /\ UNCHANGED status
       \/ /\ owner[host[r]] = None
          /\ Goto(r, {"lookup"}, "done")
          /\ Answer(r, 404)
          /\ UNCHANGED tn
    /\ UNCHANGED <<registry, link, rp, via, request, cache, seen>>

\* basicAuthOK: the password of the tunnel looked up.
Authorized(r) == tn[r][1] \in Private => creds[r] = tn[r][1]

Authenticate(r) ==
    /\ \/ /\ Goto(r, {"auth"}, "proxy")
          /\ Authorized(r)
          /\ UNCHANGED <<tn, status>>
       \/ /\ Goto(r, {"auth"}, "done")
          /\ ~Authorized(r)
          /\ tn' = Forget(tn, r)
          /\ Answer(r, 401)
    /\ UNCHANGED <<registry, link, rp, via, request, cache, seen>>

\* Slip: the cache is keyed by the subdomain.
ProxyForName(r) ==
    /\ Goto(r, {"proxy"}, "dial")
    /\ LET hits == {t \in proxies : t[2] = host[r]}
       IN  IF hits # {}
           THEN /\ \E t \in hits : rp' = [rp EXCEPT ![r] = t]
                /\ UNCHANGED proxies
           ELSE /\ rp' = [rp EXCEPT ![r] = tn[r]]
                /\ proxies' = proxies \cup {tn[r]}
    /\ tn' = Forget(tn, r)
    /\ UNCHANGED <<registry, link, via, status, request, idle, seen>>

\* proxyFor, under the cache's mutex: the proxy of this tunnel, made on first
\* use and never dropped.
ProxyFor(r) ==
    /\ Goto(r, {"proxy"}, "dial")
    /\ rp' = [rp EXCEPT ![r] = tn[r]]
    /\ proxies' = proxies \cup {tn[r]}
    /\ tn' = Forget(tn, r)
    /\ UNCHANGED <<registry, link, via, status, request, idle, seen>>

\* Slip: one transport for all proxies, which dial the same placeholder host.
ReuseAny(r) ==
    /\ \E t \in Tunnels :
          /\ idle[t] > 0
          /\ idle' = [idle EXCEPT ![t] = @ - 1]
          /\ via' = [via EXCEPT ![r] = t]
    /\ Goto(r, {"dial"}, "reused")
    /\ UNCHANGED <<registry, link, tn, rp, status, request, proxies, seen>>

\* The transport has an idle stream, alive or not.
Reuse(r) ==
    /\ Goto(r, {"dial"}, "reused")
    /\ idle[rp[r]] > 0
    /\ idle' = [idle EXCEPT ![rp[r]] = @ - 1]
    /\ via' = [via EXCEPT ![r] = rp[r]]
    /\ UNCHANGED <<registry, link, tn, rp, status, request, proxies, seen>>

\* openDataStream: Open fails on a session that is gone, and ReverseProxy
\* answers 502.
OpenStream(r) ==
    /\ pc[r] = "dial"
    /\ idle[rp[r]] = 0
    /\ \/ /\ link[rp[r][1]] = "up"
          /\ Goto(r, {"dial"}, "fresh")
          /\ via' = [via EXCEPT ![r] = rp[r]]
          /\ UNCHANGED <<rp, status>>
       \/ /\ link[rp[r][1]] # "up"
          /\ Goto(r, {"dial"}, "done")
          /\ rp' = Forget(rp, r)
          /\ Answer(r, 502)
          /\ UNCHANGED via
    /\ UNCHANGED <<registry, link, tn, request, cache, seen>>

\* The local service answers, and the stream is kept or closed.
Respond(r) ==
    /\ Goto(r, Sent, "done")
    /\ link[via[r][1]] = "up"
    /\ rp' = Forget(rp, r)
    /\ Answer(r, 200)
    /\ \/ /\ idle[via[r]] < MaxIdle
          /\ idle' = [idle EXCEPT ![via[r]] = @ + 1]
       \/ UNCHANGED idle
    /\ UNCHANGED <<registry, link, tn, via, request, proxies, seen>>

\* The stream ends without an answer: the service closed it, the client could
\* not dial, or the session is gone.  A stream used again may have been dead
\* before it carried anything: the transport takes another one.
Lose(r) ==
    /\ \/ /\ Goto(r, Sent, "done")
          /\ rp' = Forget(rp, r)
          /\ Answer(r, 502)
       \/ /\ Goto(r, {"reused"}, "dial")
          /\ UNCHANGED <<rp, status>>
    /\ via' = Forget(via, r)
    /\ UNCHANGED <<registry, link, tn, request, cache, seen>>

\* The transport's reader finds an idle stream closed by the other side.
DropIdle(t) ==
    /\ idle[t] > 0
    /\ idle' = [idle EXCEPT ![t] = @ - 1]
    /\ UNCHANGED <<registry, link, locals, request, proxies, seen>>

-----------------------------------------------------------------------------
(* The control plane, as far as a request can tell. *)

\* Requests under way see who owns their subdomain.
Watch == seen' = [r \in Requests |->
                    IF pc[r] = "done" THEN seen[r]
                    ELSE seen[r] \cup {owner'[host[r]]}]

Connect(s) ==
    /\ link[s] = "new"
    /\ link' = [link EXCEPT ![s] = "up"]
    /\ Registry!Open(s)
    /\ UNCHANGED <<locals, request, cache, seen>>

\* Register records the tunnel.  That the client is answered later changes
\* nothing for a request.
Register(s, n) ==
    /\ Registry!Take(s, n)
    /\ Watch
    /\ UNCHANGED <<link, locals, request, cache>>

\* RemoveSession, while the session's streams still work or not.
RemoveSession(s) ==
    /\ Registry!Close(s)
    /\ Watch
    /\ UNCHANGED <<link, locals, request, cache>>

\* Slip: the cleanup does not close the session.
KeepSession(s) ==
    /\ link[s] = "up" /\ s \notin open
    /\ UNCHANGED vars

\* The deferred sess.Close runs after the cleanup: every stream ends.
CloseSession(s) ==
    /\ link[s] = "up" /\ s \notin open
    /\ link' = [link EXCEPT ![s] = "closed"]
    /\ UNCHANGED <<registry, locals, request, cache, seen>>

\* The connection breaks, and the registry does not know yet.
Break(s) ==
    /\ link[s] = "up"
    /\ link' = [link EXCEPT ![s] = "closed"]
    /\ UNCHANGED <<registry, locals, request, cache, seen>>

-----------------------------------------------------------------------------

\* The handler's own steps, which need nothing from the local service.
Handle(r) ==
    \/ Lookup(r) \/ Authenticate(r) \/ ProxyFor(r)
    \/ Reuse(r) \/ OpenStream(r)

Next ==
    \/ \E r \in Requests :
          \/ \E n \in Names, c \in Private \cup {None} : Arrive(r, n, c)
          \/ Handle(r) \/ Respond(r) \/ Lose(r)
    \/ \E t \in Tunnels : DropIdle(t)
    \/ \E s \in Sessions :
          \/ Connect(s) \/ RemoveSession(s) \/ CloseSession(s) \/ Break(s)
          \/ \E n \in Names : Register(s, n)

Spec == Init /\ [][Next]_vars

\* Handlers run, a read on a dead stream returns, and a connection that is
\* cleaned up is closed.  No service has to answer.
FairSpec ==
    /\ Spec
    /\ \A r \in Requests :
          /\ WF_vars(Handle(r))
          /\ WF_vars(pc[r] \in Sent /\ link[via[r][1]] # "up" /\ Lose(r))
    /\ \A t \in Tunnels : WF_vars(link[t[1]] # "up" /\ DropIdle(t))
    /\ \A s \in Sessions : WF_vars(CloseSession(s))

-----------------------------------------------------------------------------
(* What must hold. *)

\* A request is answered by a tunnel that had its subdomain at some time since
\* the request came, and told 404 only if at some such time no tunnel had it:
\* whatever the cache, the pools of streams and a lookup gone stale have kept
\* of earlier owners (LookupHTTP, proxyFor).
RightTunnel ==
    \A r \in Requests :
        /\ status[r] = 200 => via[r][1] \in seen[r] /\ via[r][2] = host[r]
        /\ status[r] = 404 => None \in seen[r]

\* No request reaches a private tunnel without that tunnel's own password, not
\* even if the subdomain changes hands after the check (ServeHTTP).
PasswordChecked ==
    \A r \in Requests :
        /\ pc[r] \in Sent \/ status[r] = 200
        /\ via[r][1] \in Private
        => creds[r] = via[r][1]

\* Once a session is removed the requests it carries end, and the cached
\* proxy keeps no stream of it, though no service ever answers.
GoneIsQuiet ==
    \A s \in Sessions :
        link[s] # "new" /\ s \notin open ~>
            /\ \A r \in Requests : pc[r] \in Sent => via[r][1] # s
            /\ \A n \in Names : idle[<<s, n>>] = 0
-----------------------------------------------------------------------------
(* The inductive invariant behind the two invariants above. *)

\* t had the subdomain during the request, and the password was right.
Checked(r, t) ==
    /\ t \in Tunnels /\ t[1] \in seen[r] /\ t[2] = host[r]
    /\ t[1] \in Private => creds[r] = t[1]

Resolved(r) ==
    /\ pc[r] # "done" => owner[host[r]] \in seen[r] /\ status[r] = 0
    /\ pc[r] \in {"auth", "proxy"} =>
          tn[r] \in Tunnels /\ tn[r][1] \in seen[r] /\ tn[r][2] = host[r]
    /\ pc[r] = "proxy" => Checked(r, tn[r])
    /\ pc[r] \in {"dial"} \cup Sent => Checked(r, rp[r])
    /\ pc[r] \in Sent => via[r] = rp[r]
    /\ status[r] = 200 => Checked(r, via[r])
    /\ status[r] = 404 => None \in seen[r]

IInv == TypeOK /\ \A r \in Requests : Resolved(r)
=============================================================================
