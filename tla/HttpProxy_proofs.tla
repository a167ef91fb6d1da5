-------------------------- MODULE HttpProxy_proofs --------------------------
(***************************************************************************)
(* Proofs that a request is answered by a tunnel of its own subdomain, and *)
(* with the right password, for any number of sessions, subdomains,        *)
(* requests and idle streams.                                              *)
(***************************************************************************)
EXTENDS HttpProxy, TLAPS

\* The tunnel looked up, the one of the proxy and the one of the stream are the
\* same, and had the subdomain during the request (ServeHTTP, proxyFor).
LEMMA Invariance == Spec => []IInv
<1>. USE SessionAssumption, TunnelAssumption
<1>1. Init => IInv
  BY DEF Init, IInv, TypeOK, Resolved, Registry!Init, Owners, Sent, Tunnels
<1>2. IInv /\ [Next]_vars => IInv'
  <2>. SUFFICES ASSUME IInv, [Next]_vars PROVE IInv'
    OBVIOUS
  <2>. USE DEF IInv, registry, locals, request, cache, Sent, Owners
  <2>1. ASSUME NEW r \in Requests, NEW n \in Names,
           NEW c \in Private \cup {None}, Arrive(r, n, c) PROVE IInv'
    <3>1. TypeOK'
      BY <2>1 DEF Arrive, Goto, Answer, Forget, TypeOK, Tunnels
    <3>2. ASSUME NEW q \in Requests PROVE Resolved(q)'
      BY <2>1 DEF Arrive, Goto, Answer, Forget, TypeOK, Resolved, Checked
    <3>. QED
      BY <3>1, <3>2
  <2>2. ASSUME NEW r \in Requests, Lookup(r) PROVE IInv'
    <3>0. owner[host[r]] # None => <<owner[host[r]], host[r]>> \in Tunnels
      BY <2>2 DEF TypeOK, Tunnels
    <3>1. TypeOK'
      BY <2>2, <3>0 DEF Lookup, Goto, Answer, TypeOK
    <3>2. ASSUME NEW q \in Requests PROVE Resolved(q)'
      BY <2>2, <3>0 DEF Lookup, Goto, Answer, TypeOK, Resolved, Checked
    <3>. QED
      BY <3>1, <3>2
  <2>3. ASSUME NEW r \in Requests, Authenticate(r) PROVE IInv'
    <3>1. TypeOK'
      BY <2>3 DEF Authenticate, Authorized, Goto, Answer, Forget, TypeOK,
         Tunnels
    <3>2. ASSUME NEW q \in Requests PROVE Resolved(q)'
      BY <2>3 DEF Authenticate, Authorized, Goto, Answer, Forget, TypeOK,
         Resolved, Checked
    <3>. QED
      BY <3>1, <3>2
  <2>4. ASSUME NEW r \in Requests, ProxyFor(r) PROVE IInv'
    <3>0. tn[r] \in Tunnels
      BY <2>4 DEF ProxyFor, Goto, Resolved
    <3>1. TypeOK'
      BY <2>4, <3>0 DEF ProxyFor, Goto, Forget, TypeOK
    <3>2. ASSUME NEW q \in Requests PROVE Resolved(q)'
      BY <2>4 DEF ProxyFor, Goto, Forget, TypeOK, Resolved, Checked
    <3>. QED
      BY <3>1, <3>2
  <2>5. ASSUME NEW r \in Requests, Reuse(r) PROVE IInv'
    <3>0. rp[r] \in Tunnels
      BY <2>5 DEF Reuse, Goto, Resolved, Checked
    <3>1. TypeOK'
      BY <2>5, <3>0 DEF Reuse, Goto, TypeOK
    <3>2. ASSUME NEW q \in Requests PROVE Resolved(q)'
      BY <2>5 DEF Reuse, Goto, TypeOK, Resolved, Checked
    <3>. QED
      BY <3>1, <3>2
  <2>6. ASSUME NEW r \in Requests, OpenStream(r) PROVE IInv'
    <3>0. rp[r] \in Tunnels
      BY <2>6 DEF OpenStream, Resolved, Checked
    <3>1. TypeOK'
      BY <2>6, <3>0 DEF OpenStream, Goto, Answer, Forget, TypeOK
    <3>2. ASSUME NEW q \in Requests PROVE Resolved(q)'
      BY <2>6 DEF OpenStream, Goto, Answer, Forget, TypeOK, Resolved, Checked
    <3>. QED
      BY <3>1, <3>2
  <2>7. ASSUME NEW r \in Requests, Respond(r) PROVE IInv'
    <3>1. TypeOK'
      BY <2>7 DEF Respond, Goto, Answer, Forget, TypeOK, Tunnels
    <3>2. ASSUME NEW q \in Requests PROVE Resolved(q)'
      BY <2>7 DEF Respond, Goto, Answer, Forget, TypeOK, Resolved, Checked
    <3>. QED
      BY <3>1, <3>2
  <2>8. ASSUME NEW r \in Requests, Lose(r) PROVE IInv'
    <3>1. TypeOK'
      BY <2>8 DEF Lose, Goto, Answer, Forget, TypeOK
    <3>2. ASSUME NEW q \in Requests PROVE Resolved(q)'
      BY <2>8 DEF Lose, Goto, Answer, Forget, TypeOK, Resolved, Checked
    <3>. QED
      BY <3>1, <3>2
  <2>9. ASSUME NEW t \in Tunnels, DropIdle(t) PROVE IInv'
    <3>1. TypeOK'
      BY <2>9 DEF DropIdle, TypeOK, Tunnels
    <3>2. ASSUME NEW q \in Requests PROVE Resolved(q)'
      BY <2>9 DEF DropIdle, TypeOK, Resolved, Checked
    <3>. QED
      BY <3>1, <3>2
  <2>10. ASSUME NEW s \in Sessions, Connect(s) PROVE IInv'
    <3>1. TypeOK'
      BY <2>10 DEF Connect, Registry!Open, TypeOK, Tunnels
    <3>2. ASSUME NEW q \in Requests PROVE Resolved(q)'
      BY <2>10 DEF Connect, Registry!Open, TypeOK, Resolved, Checked
    <3>. QED
      BY <3>1, <3>2
  <2>11. ASSUME NEW s \in Sessions, RemoveSession(s) PROVE IInv'
    <3>1. TypeOK'
      BY <2>11 DEF RemoveSession, Watch, Registry!Close, TypeOK, Tunnels
    <3>2. ASSUME NEW q \in Requests PROVE Resolved(q)'
      BY <2>11 DEF RemoveSession, Watch, Registry!Close, TypeOK, Resolved,
         Checked
    <3>. QED
      BY <3>1, <3>2
  <2>12. ASSUME NEW s \in Sessions, CloseSession(s) PROVE IInv'
    <3>1. TypeOK'
      BY <2>12 DEF CloseSession, TypeOK, Tunnels
    <3>2. ASSUME NEW q \in Requests PROVE Resolved(q)'
      BY <2>12 DEF CloseSession, TypeOK, Resolved, Checked
    <3>. QED
      BY <3>1, <3>2
  <2>13. ASSUME NEW s \in Sessions, Break(s) PROVE IInv'
    <3>1. TypeOK'
      BY <2>13 DEF Break, TypeOK, Tunnels
    <3>2. ASSUME NEW q \in Requests PROVE Resolved(q)'
      BY <2>13 DEF Break, TypeOK, Resolved, Checked
    <3>. QED
      BY <3>1, <3>2
  <2>14. ASSUME NEW s \in Sessions, NEW n \in Names, Register(s, n) PROVE IInv'
    <3>1. TypeOK'
      BY <2>14 DEF Register, Watch, Registry!Take, TypeOK, Tunnels
    <3>2. ASSUME NEW q \in Requests PROVE Resolved(q)'
      BY <2>14 DEF Register, Watch, Registry!Take, TypeOK, Resolved, Checked
    <3>. QED
      BY <3>1, <3>2
  <2>15. CASE UNCHANGED vars
    <3>1. TypeOK'
      BY <2>15 DEF vars, TypeOK, Tunnels
    <3>2. ASSUME NEW q \in Requests PROVE Resolved(q)'
      BY <2>15 DEF vars, TypeOK, Resolved, Checked
    <3>. QED
      BY <3>1, <3>2
  <2>. QED
    BY <2>1, <2>2, <2>3, <2>4, <2>5, <2>6, <2>7, <2>8, <2>9, <2>10, <2>11,
       <2>12, <2>13, <2>14, <2>15 DEF Next, Handle
<1>. QED
  BY <1>1, <1>2, PTL DEF Spec

\* Every reachable state is well typed.
THEOREM TypeCorrect == Spec => []TypeOK
<1>1. IInv => TypeOK
  BY DEF IInv
<1>. QED
  BY <1>1, Invariance, PTL

\* A request is answered by a tunnel that had its subdomain since it came,
\* whatever the cache and the idle streams keep of others (proxyFor).
THEOREM AnsweredByTheRightTunnel == Spec => []RightTunnel
<1>1. IInv => RightTunnel
  BY DEF IInv, Resolved, Checked, RightTunnel
<1>. QED
  BY <1>1, Invariance, PTL

\* A private tunnel is reached with its own password only (ServeHTTP).
THEOREM PasswordAlwaysChecked == Spec => []PasswordChecked
<1>1. IInv => PasswordChecked
  BY DEF IInv, Resolved, Checked, PasswordChecked, Sent
<1>. QED
  BY <1>1, Invariance, PTL
=============================================================================
