------------------------ MODULE ControlPlane_proofs ------------------------
(***************************************************************************)
(* Proofs about ControlPlane, for every set of sessions, names, ports and  *)
(* requests.                                                               *)
(***************************************************************************)
EXTENDS ControlPlane, TLAPS

\* The two facts about the constants that keep the kinds of values apart.
LEMMA Kinds ==
    /\ Ports \subseteq Nat
    /\ Names \cap Ports = {}
    /\ Words \subseteq Names
    /\ None \notin Sessions /\ None \notin Names /\ None \notin Ports
    /\ Foreign \notin Sessions /\ Foreign # None
    /\ None \notin Requests
    /\ None \notin Listener
BY PortAssumption, NameAssumption, OwnerAssumption, RequestAssumption
   DEF Ports, Addresses, Owners, Listener
-----------------------------------------------------------------------------
(* Type correctness. *)

\* NewRegistry and New build well-typed, empty tables.
LEMMA TypeInit == Init => TypeOK
<1> SUFFICES ASSUME Init PROVE TypeOK
  OBVIOUS
<1> USE DEF Init, Owners, Idle
<1>1. regMu \in Owners /\ claims \in SUBSET Names /\ doomed \in SUBSET Listener
  OBVIOUS
<1>2. /\ httpBySub \in [Names -> Owners]
      /\ tcpByPort \in [Ports -> Owners]
      /\ tcpListeners \in [Ports -> Owners]
      /\ bound \in [Ports -> Owners \cup {Foreign}]
  OBVIOUS
<1>3. /\ link \in [Sessions -> {"closed", "up", "down"}]
      /\ pc \in [Sessions -> Idle \cup Serving \cup Cleaning]
  OBVIOUS
<1>4. /\ req \in [Sessions -> Requests \cup {None}]
      /\ addr \in [Sessions -> Addresses \cup {None}]
      /\ freed \in [Sessions -> SUBSET Ports]
      /\ victim \in [Sessions -> Listener \cup {None}]
      /\ told \in [Sessions -> SUBSET Addresses]
  OBVIOUS
<1>q. QED
  BY <1>1, <1>2, <1>3, <1>4 DEF TypeOK

\* Each step of a handler, of the shutdown and of the environment keeps types.
LEMMA TypeStep == TypeOK /\ [Next]_vars => TypeOK'
<1> SUFFICES ASSUME TypeOK, [Next]_vars PROVE TypeOK'
  OBVIOUS
<1> USE Kinds, RequestAssumption DEF TypeOK, Owners, Addresses, Idle,
      Serving, Registering, Cleaning, Goto, registry, store, sockets, shutdown,
      locals
<1>1. ASSUME NEW s \in Sessions, Connect(s) PROVE TypeOK'
  BY <1>1 DEF Connect
<1>2. ASSUME NEW s \in Sessions, Authenticate(s) PROVE TypeOK'
  BY <1>2 DEF Authenticate
<1>3. ASSUME NEW s \in Sessions, Resolve(s) PROVE TypeOK'
  <2>1. /\ regMu' \in {regMu, None}
        /\ pc' \in {[pc EXCEPT ![s] = "commit"], [pc EXCEPT ![s] = "reply"]}
        /\ req' \in {req, [req EXCEPT ![s] = None]}
    BY <1>3 DEF Resolve, Unlock
  <2>2. addr' = addr \/ \E n \in Names : addr' = [addr EXCEPT ![s] = n]
    BY <1>3 DEF Resolve, DrawnNames
  <2>3. UNCHANGED <<httpBySub, tcpByPort, claims, storeMu, tcpListeners, bound,
                    link, freed, victim, told, phase, doomed>>
    BY <1>3 DEF Resolve
  <2>. QED
    BY <2>1, <2>2, <2>3
<1>4. ASSUME NEW s \in Sessions, CommitHTTP(s) PROVE TypeOK'
  BY <1>4 DEF CommitHTTP, Unlock
<1>5. ASSUME NEW s \in Sessions, CommitOther(s) PROVE TypeOK'
  BY <1>5 DEF CommitOther, Unlock
<1>6. ASSUME NEW s \in Sessions, Refuse(s) PROVE TypeOK'
  BY <1>6 DEF Refuse, Unlock
<1>7. ASSUME NEW s \in Sessions, Listen(s) PROVE TypeOK'
  BY <1>7 DEF Listen
<1>8. ASSUME NEW s \in Sessions, Track(s) PROVE TypeOK'
  BY <1>8 DEF Track
<1>9. ASSUME NEW s \in Sessions, Undo(s) PROVE TypeOK'
  BY <1>9 DEF Undo
<1>10. ASSUME NEW s \in Sessions, Reply(s) PROVE TypeOK'
  BY <1>10 DEF Reply
<1>11. ASSUME NEW s \in Sessions, HandleList(s) PROVE TypeOK'
  BY <1>11 DEF HandleList
<1>12. ASSUME NEW s \in Sessions, Exit(s) PROVE TypeOK'
  BY <1>12 DEF Exit
<1>13. ASSUME NEW s \in Sessions, RemoveSession(s) PROVE TypeOK'
  BY <1>13 DEF RemoveSession
<1>14. ASSUME NEW s \in Sessions, Unbind(s) PROVE TypeOK'
  BY <1>14 DEF Unbind, Closed
<1>15. ASSUME NEW s \in Sessions, CloseSession(s) PROVE TypeOK'
  BY <1>15 DEF CloseSession
<1>16. ASSUME NEW s \in Sessions, Drop(s) PROVE TypeOK'
  BY <1>16 DEF Drop
<1>17. ASSUME NEW s \in Sessions, NEW p \in Ports, CommitTCP(s, p)
      PROVE TypeOK'
  BY <1>17 DEF CommitTCP, Unlock, AllocPort
<1>18. ASSUME NEW s \in Sessions, NEW p \in Ports, CloseTCP(s, p)
      PROVE TypeOK'
  <2>1. tcpListeners[p] = None \/ [port |-> p, owner |-> tcpListeners[p]] \in Listener
    BY DEF Listener
  <2>2. victim' \in [Sessions -> Listener \cup {None}]
    BY <1>18, <2>1 DEF CloseTCP
  <2>q. QED
    BY <1>18, <2>2 DEF CloseTCP
<1>19. ASSUME NEW s \in Sessions, NEW r \in Requests, Receive(s, r)
      PROVE TypeOK'
  BY <1>19 DEF Receive
<1>20. ASSUME NEW s \in Sessions, NEW n \in Names,
             HandleClaim(s, n) \/ HandleUnclaim(s, n)
      PROVE TypeOK'
  BY <1>20 DEF HandleClaim, HandleUnclaim
<1>21. CASE Cancel
  BY <1>21 DEF Cancel
<1>22. CASE SwapListeners
  BY <1>22 DEF SwapListeners
<1>23. ASSUME NEW s \in Sessions, Lock(s) \/ Saved(s) PROVE TypeOK'
  BY <1>23 DEF Lock, Saved
<1>24. ASSUME NEW d \in doomed, CloseDoomed(d) PROVE TypeOK'
  <2>1. bound' \in [Ports -> Owners \cup {Foreign}]
    BY <1>24 DEF CloseDoomed, Closed
  <2>q. QED
    BY <1>24, <2>1 DEF CloseDoomed
<1>25. ASSUME NEW p \in Ports, ForeignSocket(p) PROVE TypeOK'
  BY <1>25 DEF ForeignSocket
<1>26. CASE UNCHANGED vars
  BY <1>26 DEF vars
<1>q. QED
  BY <1>1, <1>2, <1>3, <1>4, <1>5, <1>6, <1>7, <1>8, <1>9, <1>10, <1>11,
     <1>12, <1>13, <1>14, <1>15, <1>16, <1>17, <1>18, <1>19, <1>20, <1>21,
     <1>22, <1>23, <1>24, <1>25, <1>26
  DEF Next, Step, Serve, Shutdown, Environment

\* Every reachable state is well typed: in particular allocPort never lets a
\* port outside the server's range become a public one, for any range and any
\* set of Register messages.
THEOREM TypeCorrect == Spec => []TypeOK
  BY TypeInit, TypeStep, PTL DEF Spec

-----------------------------------------------------------------------------
(* The inductive invariant, part by part. *)

\* closeTCP moves only a goroutine that is closing the ports it freed.
LEMMA CloseTCPMoves ==
    ASSUME TypeOK, NEW s \in Sessions, NEW p \in Ports, CloseTCP(s, p)
    PROVE  \A t \in Sessions :
              pc'[t] = pc[t] \/ (pc[t] = "close" /\ pc'[t] = "unbind")
BY DEF CloseTCP, TypeOK

\* startTCPTunnel binds its own tunnel's port, or leaves every socket alone.
LEMMA ListenMoves ==
    ASSUME TypeOK, NEW s \in Sessions, Listen(s), bound[addr[s]] = None,
           addr[s] \in Ports
    PROVE  /\ bound'[addr[s]] = s
           /\ \A p \in Ports : p # addr[s] => bound'[p] = bound[p]
           /\ \A t \in Sessions : pc'[t] = "track" => t = s \/ pc[t] = "track"
           /\ pc[s] = "listen"
           /\ UNCHANGED <<addr, tcpListeners>>
BY DEF Listen, Goto, TypeOK, locals

\* Other programs take and free only ports the server has not bound.
LEMMA ForeignSocketMoves ==
    ASSUME TypeOK, NEW p \in Ports, ForeignSocket(p)
    PROVE  /\ \A q \in Ports : bound[q] \in Sessions => bound'[q] = bound[q]
           /\ UNCHANGED <<pc, addr, tcpListeners>>
BY Kinds DEF ForeignSocket, TypeOK, locals

\* The handler's address means what its place says.
LEMMA LocalAddressStep == IInv /\ [Next]_vars => LocalAddress'
<1> SUFFICES ASSUME IInv, [Next]_vars PROVE LocalAddress'
  OBVIOUS
<1>0. TypeOK /\ TypeOK' /\ LocalAddress /\ RouteOwners /\ CleanupLocals /\ TrackedAreKnown
  BY TypeStep DEF IInv
<1> USE <1>0, Kinds DEF TypeOK, Owners, Addresses, Idle, Serving,
      Registering, Cleaning, Goto, registry, store, sockets, shutdown, locals,
      LocalAddress, RouteOwners, CleanupLocals, TrackedAreKnown
<1>1. ASSUME NEW s \in Sessions, Connect(s) PROVE LocalAddress'
  BY <1>1 DEF Connect
<1>2. ASSUME NEW s \in Sessions, Authenticate(s) PROVE LocalAddress'
  BY <1>2 DEF Authenticate
<1>3. ASSUME NEW s \in Sessions, Resolve(s) PROVE LocalAddress'
  BY <1>3 DEF Resolve, DrawnNames
<1>4. ASSUME NEW s \in Sessions, CommitHTTP(s) PROVE LocalAddress'
  BY <1>4 DEF CommitHTTP, Unlock
<1>5. ASSUME NEW s \in Sessions, CommitOther(s) PROVE LocalAddress'
  BY <1>5 DEF CommitOther, Unlock
<1>6. ASSUME NEW s \in Sessions, Refuse(s) PROVE LocalAddress'
  BY <1>6 DEF Refuse, Unlock
<1>7. ASSUME NEW s \in Sessions, Listen(s) PROVE LocalAddress'
  BY <1>7 DEF Listen
<1>8. ASSUME NEW s \in Sessions, Track(s) PROVE LocalAddress'
  BY <1>8 DEF Track
<1>9. ASSUME NEW s \in Sessions, Undo(s) PROVE LocalAddress'
  BY <1>9 DEF Undo
<1>10. ASSUME NEW s \in Sessions, Reply(s) PROVE LocalAddress'
  <2>1. pc[s] = "reply" /\ UNCHANGED <<registry, sockets, victim>>
    BY <1>10 DEF Reply
  <2>2. CASE link[s] = "up"
    <3>1. /\ pc' = [pc EXCEPT ![s] = "read"]
          /\ told' = [told EXCEPT ![s] = @ \cup ({addr[s]} \ {None})]
          /\ addr' = [addr EXCEPT ![s] = None]
      BY <1>10, <2>2 DEF Reply
    <3>q. QED
      BY <2>1, <3>1
  <2>3. CASE link[s] # "up"
    <3>1. pc' = [pc EXCEPT ![s] = "cleanup"] /\ UNCHANGED <<told, addr>>
      BY <1>10, <2>3 DEF Reply
    <3>q. QED
      BY <2>1, <3>1
  <2>q. QED
    BY <2>2, <2>3
<1>11. ASSUME NEW s \in Sessions, HandleList(s) PROVE LocalAddress'
  BY <1>11 DEF HandleList
<1>12. ASSUME NEW s \in Sessions, Exit(s) PROVE LocalAddress'
  BY <1>12 DEF Exit
<1>13. ASSUME NEW s \in Sessions, RemoveSession(s) PROVE LocalAddress'
  BY <1>13 DEF RemoveSession
<1>14. ASSUME NEW s \in Sessions, Unbind(s) PROVE LocalAddress'
  BY <1>14 DEF Unbind, Closed
<1>15. ASSUME NEW s \in Sessions, CloseSession(s) PROVE LocalAddress'
  BY <1>15 DEF CloseSession
<1>16. ASSUME NEW s \in Sessions, Drop(s) PROVE LocalAddress'
  BY <1>16 DEF Drop
<1>17. ASSUME NEW s \in Sessions, NEW p \in Ports, CommitTCP(s, p)
      PROVE LocalAddress'
  BY <1>17 DEF CommitTCP, Unlock, AllocPort
<1>18. ASSUME NEW s \in Sessions, NEW p \in Ports, CloseTCP(s, p)
      PROVE LocalAddress'
  BY <1>18 DEF CloseTCP
<1>19. ASSUME NEW s \in Sessions, NEW r \in Requests, Receive(s, r)
      PROVE LocalAddress'
  BY <1>19 DEF Receive
<1>20. ASSUME NEW s \in Sessions, NEW n \in Names,
             HandleClaim(s, n) \/ HandleUnclaim(s, n)
      PROVE LocalAddress'
  BY <1>20 DEF HandleClaim, HandleUnclaim
<1>21. CASE Cancel
  BY <1>21 DEF Cancel
<1>22. CASE SwapListeners
  BY <1>22 DEF SwapListeners
<1>23. ASSUME NEW s \in Sessions, Lock(s) \/ Saved(s) PROVE LocalAddress'
  BY <1>23 DEF Lock, Saved
<1>24. ASSUME NEW d \in doomed, CloseDoomed(d) PROVE LocalAddress'
  BY <1>24 DEF CloseDoomed, Closed
<1>25. ASSUME NEW p \in Ports, ForeignSocket(p) PROVE LocalAddress'
  BY <1>25 DEF ForeignSocket
<1>26. CASE UNCHANGED vars
  BY <1>26 DEF vars
<1>q. QED
  BY <1>1, <1>2, <1>3, <1>4, <1>5, <1>6, <1>7, <1>8, <1>9, <1>10, <1>11,
     <1>12, <1>13, <1>14, <1>15, <1>16, <1>17, <1>18, <1>19, <1>20, <1>21,
     <1>22, <1>23, <1>24, <1>25, <1>26
  DEF Next, Step, Serve, Shutdown, Environment

\* Routes stay with those who were answered or are registering.
LEMMA RouteOwnersStep == IInv /\ [Next]_vars => RouteOwners'
<1> SUFFICES ASSUME IInv, [Next]_vars PROVE RouteOwners'
  OBVIOUS
<1>0. TypeOK /\ TypeOK' /\ LocalAddress /\ RouteOwners
  BY TypeStep DEF IInv
<1>a. ASSUME NEW s \in Sessions, NEW p \in Ports, CloseTCP(s, p)
      PROVE RouteOwners'
  <2>1. UNCHANGED <<httpBySub, tcpByPort, addr, told>>
    BY <1>a DEF CloseTCP, registry
  <2>q. QED
    BY <1>0, <1>a, <2>1, CloseTCPMoves DEF RouteOwners, Serving, Registering
<1>b. ASSUME NEW s \in Sessions, Lock(s) \/ Saved(s) PROVE RouteOwners'
  <2>1. /\ UNCHANGED <<httpBySub, tcpByPort, addr, told>>
        /\ pc[s] \in {"lock", "save"}
        /\ \E to \in {"resolve", "reply"} : pc' = [pc EXCEPT ![s] = to]
    BY <1>b DEF Lock, Saved, Goto, registry, locals
  <2>. QED
    BY <1>0, <2>1 DEF RouteOwners, Serving, Registering, TypeOK
<1> USE <1>0, Kinds DEF TypeOK, Owners, Addresses, Idle, Serving,
      Registering, Cleaning, Goto, registry, store, sockets, shutdown, locals,
      LocalAddress, RouteOwners
<1>1. ASSUME NEW s \in Sessions, Connect(s) PROVE RouteOwners'
  BY <1>1 DEF Connect
<1>2. ASSUME NEW s \in Sessions, Authenticate(s) PROVE RouteOwners'
  BY <1>2 DEF Authenticate
<1>3. ASSUME NEW s \in Sessions, Resolve(s) PROVE RouteOwners'
  <2>1. /\ UNCHANGED <<httpBySub, tcpByPort, told>>
        /\ pc[s] = "resolve" /\ addr[s] = None
        /\ pc'[s] \in {"commit", "reply"}
        /\ \A t \in Sessions : t # s => pc'[t] = pc[t] /\ addr'[t] = addr[t]
    BY <1>3 DEF Resolve
  <2>2. /\ \A t \in Sessions : told'[t] # {} => pc'[t] \in Serving \cup {"cleanup"}
        /\ \A t \in Sessions, n \in Names :
              httpBySub'[n] = t => n \in told'[t] \/ t # s
        /\ \A t \in Sessions, p \in Ports :
              tcpByPort'[p] = t => p \in told'[t] \/ t # s
    BY <2>1
  <2>. QED
    BY <2>1, <2>2
<1>4. ASSUME NEW s \in Sessions, CommitHTTP(s) PROVE RouteOwners'
  BY <1>4 DEF CommitHTTP, Unlock
<1>5. ASSUME NEW s \in Sessions, CommitOther(s) PROVE RouteOwners'
  BY <1>5 DEF CommitOther, Unlock
<1>6. ASSUME NEW s \in Sessions, Refuse(s) PROVE RouteOwners'
  BY <1>6 DEF Refuse, Unlock
<1>7. ASSUME NEW s \in Sessions, Listen(s) PROVE RouteOwners'
  <2>1. /\ UNCHANGED <<httpBySub, tcpByPort, addr, told>>
        /\ pc[s] = "listen"
        /\ \E to \in {"track", "undo"} : pc' = [pc EXCEPT ![s] = to]
    BY <1>7 DEF Listen
  <2>. QED
    BY <2>1
<1>8. ASSUME NEW s \in Sessions, Track(s) PROVE RouteOwners'
  BY <1>8 DEF Track
<1>9. ASSUME NEW s \in Sessions, Undo(s) PROVE RouteOwners'
  BY <1>9 DEF Undo
<1>10. ASSUME NEW s \in Sessions, Reply(s) PROVE RouteOwners'
  <2>1. pc[s] = "reply" /\ UNCHANGED <<registry, sockets, victim>>
    BY <1>10 DEF Reply
  <2>2. CASE link[s] = "up"
    <3>1. /\ pc' = [pc EXCEPT ![s] = "read"]
          /\ told' = [told EXCEPT ![s] = @ \cup ({addr[s]} \ {None})]
          /\ addr' = [addr EXCEPT ![s] = None]
      BY <1>10, <2>2 DEF Reply
    <3>q. QED
      BY <2>1, <3>1
  <2>3. CASE link[s] # "up"
    <3>1. pc' = [pc EXCEPT ![s] = "cleanup"] /\ UNCHANGED <<told, addr>>
      BY <1>10, <2>3 DEF Reply
    <3>q. QED
      BY <2>1, <3>1
  <2>q. QED
    BY <2>2, <2>3
<1>11. ASSUME NEW s \in Sessions, HandleList(s) PROVE RouteOwners'
  BY <1>11 DEF HandleList
<1>12. ASSUME NEW s \in Sessions, Exit(s) PROVE RouteOwners'
  BY <1>12 DEF Exit
<1>13. ASSUME NEW s \in Sessions, RemoveSession(s) PROVE RouteOwners'
  BY <1>13 DEF RemoveSession
<1>14. ASSUME NEW s \in Sessions, Unbind(s) PROVE RouteOwners'
  BY <1>14 DEF Unbind, Closed
<1>15. ASSUME NEW s \in Sessions, CloseSession(s) PROVE RouteOwners'
  <2>1. /\ pc[s] \in {"sessClose", "close"} /\ pc' = [pc EXCEPT ![s] = "none"]
        /\ UNCHANGED <<registry, addr, told>>
    BY <1>15 DEF CloseSession
  <2>q. QED
    BY <2>1
<1>16. ASSUME NEW s \in Sessions, Drop(s) PROVE RouteOwners'
  BY <1>16 DEF Drop
<1>17. ASSUME NEW s \in Sessions, NEW p \in Ports, CommitTCP(s, p)
      PROVE RouteOwners'
  BY <1>17 DEF CommitTCP, Unlock, AllocPort
<1>18. ASSUME NEW s \in Sessions, NEW r \in Requests, Receive(s, r)
      PROVE RouteOwners'
  BY <1>18 DEF Receive
<1>19. ASSUME NEW s \in Sessions, NEW n \in Names,
             HandleClaim(s, n) \/ HandleUnclaim(s, n)
      PROVE RouteOwners'
  BY <1>19 DEF HandleClaim, HandleUnclaim
<1>20. CASE Cancel
  BY <1>20 DEF Cancel
<1>21. CASE SwapListeners
  BY <1>21 DEF SwapListeners
<1>22. ASSUME NEW d \in doomed, CloseDoomed(d) PROVE RouteOwners'
  BY <1>22 DEF CloseDoomed, Closed
<1>23. ASSUME NEW p \in Ports, ForeignSocket(p) PROVE RouteOwners'
  BY <1>23 DEF ForeignSocket
<1>24. CASE UNCHANGED vars
  BY <1>24 DEF vars
<1>s. ASSUME NEW s \in Sessions, Step(s) PROVE RouteOwners'
  BY <1>a, <1>3, <1>4, <1>5, <1>6, <1>7, <1>8, <1>9, <1>10, <1>13, <1>14,
     <1>15, <1>17, <1>b, <1>s DEF Step
<1>v. ASSUME NEW s \in Sessions, Serve(s) PROVE RouteOwners'
  BY <1>1, <1>2, <1>11, <1>12, <1>18, <1>19, <1>v DEF Serve
<1>q. QED
  BY <1>s, <1>v, <1>16, <1>20, <1>21, <1>22, <1>23, <1>24
  DEF Next, Shutdown, Environment

\* A goroutine's step that takes or gives back a mutex.
Locking(s) ==
    \/ Lock(s) \/ Resolve(s) \/ Saved(s)
    \/ CommitHTTP(s) \/ CommitOther(s) \/ Refuse(s)
    \/ \E p \in Ports : CommitTCP(s, p)
    \/ \E n \in Names : HandleClaim(s, n) \/ HandleUnclaim(s, n)

\* No other step has to do with who is in Register, and who saves.
LEMMA NotLocking ==
    ASSUME TypeOK, [Next]_vars, \A s \in Sessions : ~Locking(s)
    PROVE  /\ regMu' = regMu /\ storeMu' = storeMu
           /\ \A t \in Sessions : \A at \in {"resolve", "commit", "save"} :
                 pc'[t] = at <=> pc[t] = at
<1> DEFINE Goal == /\ regMu' = regMu /\ storeMu' = storeMu
                   /\ \A t \in Sessions :
                         \A at \in {"resolve", "commit", "save"} :
                            pc'[t] = at <=> pc[t] = at
<1> USE DEF store
<1>1. ASSUME NEW s \in Sessions, Step(s) PROVE Goal
  <2>1. \/ Listen(s) \/ Track(s) \/ Undo(s) \/ Reply(s) \/ RemoveSession(s)
        \/ Unbind(s) \/ CloseSession(s) \/ \E p \in Ports : CloseTCP(s, p)
    BY <1>1 DEF Step, Locking
  <2>2. /\ regMu' = regMu /\ storeMu' = storeMu
        /\ \/ pc' = pc
           \/ /\ pc[s] \notin {"resolve", "commit", "save"}
              /\ \E to \in {"none", "read", "cleanup", "track", "undo", "reply",
                            "close", "unbind"} :
                    pc' = [pc EXCEPT ![s] = to]
    BY <2>1 DEF Listen, Track, Undo, Reply, RemoveSession, Unbind, CloseSession,
                CloseTCP, Goto
  <2>. QED
    BY <2>2 DEF TypeOK
<1>2. ASSUME NEW s \in Sessions, Serve(s) PROVE Goal
  <2>1. \/ Connect(s) \/ Authenticate(s) \/ (\E r \in Requests : Receive(s, r))
        \/ HandleList(s) \/ Exit(s)
    BY <1>2 DEF Serve, Locking
  <2>2. /\ regMu' = regMu /\ storeMu' = storeMu
        /\ pc[s] \notin {"resolve", "commit", "save"}
        /\ \E to \in {"auth", "read", "sessClose", "lock", "reply", "cleanup"} :
              pc' = [pc EXCEPT ![s] = to]
    BY <2>1 DEF Connect, Authenticate, Receive, HandleList, Exit, Goto
  <2>. QED
    BY <2>2 DEF TypeOK
<1>3. ASSUME Shutdown \/ Environment PROVE Goal
  BY <1>3 DEF Shutdown, Environment, Cancel, SwapListeners, CloseDoomed, Drop,
              ForeignSocket
<1>4. ASSUME UNCHANGED vars PROVE Goal
  BY <1>4 DEF vars
<1>. QED
  BY <1>1, <1>2, <1>3, <1>4 DEF Next

\* Register and a save are the only ways to the mutexes, and every way out of
\* them gives the mutex back.
LEMMA LockedStep == IInv /\ [Next]_vars => Locked'
<1> SUFFICES ASSUME IInv, [Next]_vars PROVE Locked'
  OBVIOUS
<1>0. TypeOK /\ Locked /\ None \notin Sessions
  BY Kinds DEF IInv
<1>1. ASSUME NEW s \in Sessions, Lock(s) PROVE Locked'
  BY <1>0, <1>1 DEF Lock, Goto, Locked, TypeOK, store
<1>2. ASSUME NEW s \in Sessions, Resolve(s) PROVE Locked'
  <2>1. pc[s] = "resolve" /\ storeMu' = storeMu
    BY <1>2 DEF Resolve, Goto, store
  <2>2. \/ regMu' = regMu /\ pc' = [pc EXCEPT ![s] = "commit"]
        \/ regMu' = None /\ pc' = [pc EXCEPT ![s] = "reply"]
    BY <1>2 DEF Resolve, Goto, Unlock
  <2>. QED
    BY <1>0, <2>1, <2>2 DEF Locked, TypeOK
<1>3. ASSUME NEW s \in Sessions,
             \/ CommitHTTP(s) \/ CommitOther(s) \/ Refuse(s)
             \/ \E p \in Ports : CommitTCP(s, p)
      PROVE Locked'
  <2>1. /\ pc[s] = "commit" /\ regMu' = None /\ storeMu' = storeMu
        /\ \E to \in {"reply", "undo", "listen"} : pc' = [pc EXCEPT ![s] = to]
    BY <1>3 DEF CommitHTTP, CommitOther, Refuse, CommitTCP, Unlock, Goto, store
  <2>. QED
    BY <1>0, <2>1 DEF Locked, TypeOK
<1>4. ASSUME NEW s \in Sessions,
             \E n \in Names : HandleClaim(s, n) \/ HandleUnclaim(s, n)
      PROVE Locked'
  <2>1. /\ pc[s] = "read" /\ regMu' = regMu /\ storeMu = None
        /\ \/ storeMu' = None /\ pc' = [pc EXCEPT ![s] = "reply"]
           \/ storeMu' = s /\ pc' = [pc EXCEPT ![s] = "save"]
    BY <1>4 DEF HandleClaim, HandleUnclaim, Goto
  <2>. QED
    BY <1>0, <2>1 DEF Locked, TypeOK
<1>5. ASSUME NEW s \in Sessions, Saved(s) PROVE Locked'
  BY <1>0, <1>5 DEF Saved, Goto, Locked, TypeOK
<1>6. CASE \A s \in Sessions : ~Locking(s)
  BY <1>0, <1>6, NotLocking DEF Locked
<1>. QED
  BY <1>1, <1>2, <1>3, <1>4, <1>5, <1>6 DEF Locking

\* The locals of a cleanup are empty outside it.
LEMMA CleanupLocalsStep == IInv /\ [Next]_vars => CleanupLocals'
<1> SUFFICES ASSUME IInv, [Next]_vars PROVE CleanupLocals'
  OBVIOUS
<1>0. TypeOK /\ TypeOK' /\ CleanupLocals
  BY TypeStep DEF IInv
<1> USE <1>0, Kinds DEF TypeOK, Owners, Addresses, Idle, Serving,
      Registering, Cleaning, Goto, registry, store, sockets, shutdown, locals,
      CleanupLocals
<1>1. ASSUME NEW s \in Sessions, Connect(s) PROVE CleanupLocals'
  BY <1>1 DEF Connect
<1>2. ASSUME NEW s \in Sessions, Authenticate(s) PROVE CleanupLocals'
  BY <1>2 DEF Authenticate
<1>3. ASSUME NEW s \in Sessions, Resolve(s) PROVE CleanupLocals'
  BY <1>3 DEF Resolve, DrawnNames
<1>4. ASSUME NEW s \in Sessions, CommitHTTP(s) PROVE CleanupLocals'
  BY <1>4 DEF CommitHTTP, Unlock
<1>5. ASSUME NEW s \in Sessions, CommitOther(s) PROVE CleanupLocals'
  BY <1>5 DEF CommitOther, Unlock
<1>6. ASSUME NEW s \in Sessions, Refuse(s) PROVE CleanupLocals'
  BY <1>6 DEF Refuse, Unlock
<1>7. ASSUME NEW s \in Sessions, Listen(s) PROVE CleanupLocals'
  BY <1>7 DEF Listen
<1>8. ASSUME NEW s \in Sessions, Track(s) PROVE CleanupLocals'
  BY <1>8 DEF Track
<1>9. ASSUME NEW s \in Sessions, Undo(s) PROVE CleanupLocals'
  BY <1>9 DEF Undo
<1>10. ASSUME NEW s \in Sessions, Reply(s) PROVE CleanupLocals'
  BY <1>10 DEF Reply
<1>11. ASSUME NEW s \in Sessions, HandleList(s) PROVE CleanupLocals'
  BY <1>11 DEF HandleList
<1>12. ASSUME NEW s \in Sessions, Exit(s) PROVE CleanupLocals'
  BY <1>12 DEF Exit
<1>13. ASSUME NEW s \in Sessions, RemoveSession(s) PROVE CleanupLocals'
  BY <1>13 DEF RemoveSession
<1>14. ASSUME NEW s \in Sessions, Unbind(s) PROVE CleanupLocals'
  BY <1>14 DEF Unbind, Closed
<1>15. ASSUME NEW s \in Sessions, CloseSession(s) PROVE CleanupLocals'
  BY <1>15 DEF CloseSession
<1>16. ASSUME NEW s \in Sessions, Drop(s) PROVE CleanupLocals'
  BY <1>16 DEF Drop
<1>17. ASSUME NEW s \in Sessions, NEW p \in Ports, CommitTCP(s, p)
      PROVE CleanupLocals'
  BY <1>17 DEF CommitTCP, Unlock, AllocPort
<1>18. ASSUME NEW s \in Sessions, NEW p \in Ports, CloseTCP(s, p)
      PROVE CleanupLocals'
  <2>1. tcpListeners[p] = None \/ [port |-> p, owner |-> tcpListeners[p]] \in Listener
    BY DEF Listener
  <2>q. QED
    BY <1>18, <2>1 DEF CloseTCP
<1>19. ASSUME NEW s \in Sessions, NEW r \in Requests, Receive(s, r)
      PROVE CleanupLocals'
  BY <1>19 DEF Receive
<1>20. ASSUME NEW s \in Sessions, NEW n \in Names,
             HandleClaim(s, n) \/ HandleUnclaim(s, n)
      PROVE CleanupLocals'
  BY <1>20 DEF HandleClaim, HandleUnclaim
<1>21. CASE Cancel
  BY <1>21 DEF Cancel
<1>22. CASE SwapListeners
  BY <1>22 DEF SwapListeners
<1>23. ASSUME NEW s \in Sessions, Lock(s) \/ Saved(s) PROVE CleanupLocals'
  BY <1>23 DEF Lock, Saved
<1>24. ASSUME NEW d \in doomed, CloseDoomed(d) PROVE CleanupLocals'
  BY <1>24 DEF CloseDoomed, Closed
<1>25. ASSUME NEW p \in Ports, ForeignSocket(p) PROVE CleanupLocals'
  BY <1>25 DEF ForeignSocket
<1>26. CASE UNCHANGED vars
  BY <1>26 DEF vars
<1>q. QED
  BY <1>1, <1>2, <1>3, <1>4, <1>5, <1>6, <1>7, <1>8, <1>9, <1>10, <1>11,
     <1>12, <1>13, <1>14, <1>15, <1>16, <1>17, <1>18, <1>19, <1>20, <1>21,
     <1>22, <1>23, <1>24, <1>25, <1>26
  DEF Next, Step, Serve, Shutdown, Environment

\* Whoever has yet to track a socket, or tracks it, finds it open: nobody closes
\* it without having taken it first.
LEMMA TrackedOpenStep == IInv /\ [Next]_vars => TrackedOpen'
<1> SUFFICES ASSUME IInv, [Next]_vars PROVE TrackedOpen'
  OBVIOUS
<1>0. TypeOK /\ TypeOK' /\ LocalAddress /\ CleanupLocals /\ TrackedOpen /\ VictimOpen /\ DoomedOpen
  BY TypeStep DEF IInv
<1>t. \A t \in Sessions : pc[t] = "track" =>
         addr[t] \in Ports /\ bound[addr[t]] = t /\ tcpListeners[addr[t]] # t
  BY <1>0 DEF LocalAddress, TrackedOpen
<1>l. ASSUME NEW s \in Sessions, Listen(s) PROVE TrackedOpen'
  <2>1. pc[s] = "listen" /\ addr[s] \in Ports /\ tcpListeners[addr[s]] # s
    BY <1>0, <1>l, Kinds DEF Listen, Goto, LocalAddress
  <2>2. CASE bound[addr[s]] = None
    <3>0. /\ bound'[addr[s]] = s
          /\ \A q \in Ports : q # addr[s] => bound'[q] = bound[q]
          /\ \A t \in Sessions : pc'[t] = "track" => t = s \/ pc[t] = "track"
          /\ UNCHANGED <<addr, tcpListeners>>
      BY <1>0, <1>l, <2>1, <2>2, ListenMoves
    <3>1. ASSUME NEW t \in Sessions, pc'[t] = "track"
          PROVE  bound'[addr'[t]] = t /\ tcpListeners'[addr'[t]] # t
      <4>1. CASE t = s
        BY <2>1, <3>0, <4>1
      <4>2. CASE t # s
        <5>1. pc[t] = "track"
          BY <3>0, <3>1, <4>2
        <5>2. addr[t] \in Ports /\ bound[addr[t]] = t /\ tcpListeners[addr[t]] # t
          BY <1>t, <5>1
        <5>3. addr[t] # addr[s]
          BY <2>2, <5>2, Kinds
        <5>q. QED
          BY <3>0, <5>2, <5>3
      <4>q. QED
        BY <4>1, <4>2
    <3>2. \A q \in Ports, t \in Sessions : tcpListeners'[q] = t => bound'[q] = t
      BY <1>0, <2>2, <3>0, Kinds DEF TrackedOpen
    <3>q. QED
      BY <3>1, <3>2 DEF TrackedOpen
  <2>3. CASE bound[addr[s]] # None
    <3>1. UNCHANGED <<bound, addr, tcpListeners>> /\ pc' = [pc EXCEPT ![s] = "undo"]
      BY <1>l, <2>3 DEF Listen, Goto, locals
    <3>q. QED
      BY <1>0, <3>1 DEF TrackedOpen, TypeOK
  <2>q. QED
    BY <2>2, <2>3
<1>f. ASSUME NEW p \in Ports, ForeignSocket(p) PROVE TrackedOpen'
  <2>1. \A t \in Sessions : pc'[t] = "track" =>
           bound'[addr'[t]] = t /\ tcpListeners'[addr'[t]] # t
    BY <1>0, <1>t, <1>f, ForeignSocketMoves
  <2>2. \A q \in Ports, t \in Sessions : tcpListeners'[q] = t => bound'[q] = t
    BY <1>0, <1>f, ForeignSocketMoves DEF TrackedOpen
  <2>q. QED
    BY <2>1, <2>2 DEF TrackedOpen
<1> USE <1>0, Kinds DEF TypeOK, Owners, Addresses, Idle, Serving,
      Registering, Cleaning, Goto, registry, store, sockets, shutdown, locals,
      LocalAddress, CleanupLocals, TrackedOpen, VictimOpen, DoomedOpen, Taken
<1>1. ASSUME NEW s \in Sessions, Connect(s) PROVE TrackedOpen'
  BY <1>1 DEF Connect
<1>2. ASSUME NEW s \in Sessions, Authenticate(s) PROVE TrackedOpen'
  BY <1>2 DEF Authenticate
<1>3. ASSUME NEW s \in Sessions, Resolve(s) PROVE TrackedOpen'
  BY <1>3 DEF Resolve, DrawnNames
<1>4. ASSUME NEW s \in Sessions, CommitHTTP(s) PROVE TrackedOpen'
  BY <1>4 DEF CommitHTTP, Unlock
<1>5. ASSUME NEW s \in Sessions, CommitOther(s) PROVE TrackedOpen'
  BY <1>5 DEF CommitOther, Unlock
<1>6. ASSUME NEW s \in Sessions, Refuse(s) PROVE TrackedOpen'
  BY <1>6 DEF Refuse, Unlock
<1>7. ASSUME NEW s \in Sessions, Track(s) PROVE TrackedOpen'
  BY <1>7 DEF Track
<1>8. ASSUME NEW s \in Sessions, Undo(s) PROVE TrackedOpen'
  BY <1>8 DEF Undo
<1>9. ASSUME NEW s \in Sessions, Reply(s) PROVE TrackedOpen'
  BY <1>9 DEF Reply
<1>10. ASSUME NEW s \in Sessions, HandleList(s) PROVE TrackedOpen'
  BY <1>10 DEF HandleList
<1>11. ASSUME NEW s \in Sessions, Exit(s) PROVE TrackedOpen'
  BY <1>11 DEF Exit
<1>12. ASSUME NEW s \in Sessions, RemoveSession(s) PROVE TrackedOpen'
  BY <1>12 DEF RemoveSession
<1>13. ASSUME NEW s \in Sessions, Unbind(s) PROVE TrackedOpen'
  BY <1>13 DEF Unbind, Closed
<1>14. ASSUME NEW s \in Sessions, CloseSession(s) PROVE TrackedOpen'
  BY <1>14 DEF CloseSession
<1>15. ASSUME NEW s \in Sessions, Drop(s) PROVE TrackedOpen'
  BY <1>15 DEF Drop
<1>16. ASSUME NEW s \in Sessions, NEW p \in Ports, CommitTCP(s, p)
      PROVE TrackedOpen'
  BY <1>16 DEF CommitTCP, Unlock, AllocPort
<1>17. ASSUME NEW s \in Sessions, NEW p \in Ports, CloseTCP(s, p)
      PROVE TrackedOpen'
  BY <1>17 DEF CloseTCP
<1>18. ASSUME NEW s \in Sessions, NEW r \in Requests, Receive(s, r)
      PROVE TrackedOpen'
  BY <1>18 DEF Receive
<1>19. ASSUME NEW s \in Sessions, NEW n \in Names,
             HandleClaim(s, n) \/ HandleUnclaim(s, n)
      PROVE TrackedOpen'
  BY <1>19 DEF HandleClaim, HandleUnclaim
<1>20. CASE Cancel
  BY <1>20 DEF Cancel
<1>21. CASE SwapListeners
  BY <1>21 DEF SwapListeners
<1>22. ASSUME NEW s \in Sessions, Lock(s) \/ Saved(s) PROVE TrackedOpen'
  BY <1>22 DEF Lock, Saved
<1>23. ASSUME NEW d \in doomed, CloseDoomed(d) PROVE TrackedOpen'
  BY <1>23 DEF CloseDoomed, Closed
<1>24. CASE UNCHANGED vars
  BY <1>24 DEF vars
<1>q. QED
  BY <1>l, <1>f, <1>1, <1>2, <1>3, <1>4, <1>5, <1>6, <1>7, <1>8, <1>9, <1>10,
     <1>11, <1>12, <1>13, <1>14, <1>15, <1>16, <1>17, <1>18, <1>19, <1>20,
     <1>21, <1>22, <1>23, <1>24
  DEF Next, Step, Serve, Shutdown, Environment

\* A taken socket that stays open stays unknown to the map and to handlers.
LEMMA TakenStays ==
    ASSUME IInv, [Next]_vars, NEW l \in Listener, Taken(l), bound'[l.port] = l.owner
    PROVE  Taken(l)'
<1>0. TypeOK /\ TypeOK' /\ LocalAddress /\ TrackedOpen
  BY TypeStep DEF IInv
<1>a. l.port \in Ports /\ l.owner \in Sessions
  BY DEF Listener
<1> USE <1>0, <1>a, Kinds DEF TypeOK, Owners, Addresses, Idle, Serving,
      Registering, Cleaning, Goto, registry, store, sockets, shutdown, locals,
      LocalAddress, TrackedOpen, Taken
<1>1. ASSUME NEW s \in Sessions, Connect(s) PROVE Taken(l)'
  BY <1>1 DEF Connect
<1>2. ASSUME NEW s \in Sessions, Authenticate(s) PROVE Taken(l)'
  BY <1>2 DEF Authenticate
<1>3. ASSUME NEW s \in Sessions, Resolve(s) PROVE Taken(l)'
  BY <1>3 DEF Resolve, DrawnNames
<1>4. ASSUME NEW s \in Sessions, CommitHTTP(s) PROVE Taken(l)'
  BY <1>4 DEF CommitHTTP, Unlock
<1>5. ASSUME NEW s \in Sessions, CommitOther(s) PROVE Taken(l)'
  BY <1>5 DEF CommitOther, Unlock
<1>6. ASSUME NEW s \in Sessions, Refuse(s) PROVE Taken(l)'
  BY <1>6 DEF Refuse, Unlock
<1>7. ASSUME NEW s \in Sessions, Listen(s) PROVE Taken(l)'
  BY <1>7 DEF Listen
<1>8. ASSUME NEW s \in Sessions, Track(s) PROVE Taken(l)'
  BY <1>8 DEF Track
<1>9. ASSUME NEW s \in Sessions, Undo(s) PROVE Taken(l)'
  BY <1>9 DEF Undo
<1>10. ASSUME NEW s \in Sessions, Reply(s) PROVE Taken(l)'
  BY <1>10 DEF Reply
<1>11. ASSUME NEW s \in Sessions, HandleList(s) PROVE Taken(l)'
  BY <1>11 DEF HandleList
<1>12. ASSUME NEW s \in Sessions, Exit(s) PROVE Taken(l)'
  BY <1>12 DEF Exit
<1>13. ASSUME NEW s \in Sessions, RemoveSession(s) PROVE Taken(l)'
  BY <1>13 DEF RemoveSession
<1>14. ASSUME NEW s \in Sessions, Unbind(s) PROVE Taken(l)'
  BY <1>14 DEF Unbind, Closed
<1>15. ASSUME NEW s \in Sessions, CloseSession(s) PROVE Taken(l)'
  BY <1>15 DEF CloseSession
<1>16. ASSUME NEW s \in Sessions, Drop(s) PROVE Taken(l)'
  BY <1>16 DEF Drop
<1>17. ASSUME NEW s \in Sessions, NEW p \in Ports, CommitTCP(s, p)
      PROVE Taken(l)'
  BY <1>17 DEF CommitTCP, Unlock, AllocPort
<1>18. ASSUME NEW s \in Sessions, NEW p \in Ports, CloseTCP(s, p)
      PROVE Taken(l)'
  BY <1>18 DEF CloseTCP
<1>19. ASSUME NEW s \in Sessions, NEW r \in Requests, Receive(s, r)
      PROVE Taken(l)'
  BY <1>19 DEF Receive
<1>20. ASSUME NEW s \in Sessions, NEW n \in Names,
             HandleClaim(s, n) \/ HandleUnclaim(s, n)
      PROVE Taken(l)'
  BY <1>20 DEF HandleClaim, HandleUnclaim
<1>21. CASE Cancel
  BY <1>21 DEF Cancel
<1>22. CASE SwapListeners
  BY <1>22 DEF SwapListeners
<1>23. ASSUME NEW s \in Sessions, Lock(s) \/ Saved(s) PROVE Taken(l)'
  BY <1>23 DEF Lock, Saved
<1>24. ASSUME NEW d \in doomed, CloseDoomed(d) PROVE Taken(l)'
  BY <1>24 DEF CloseDoomed, Closed
<1>25. ASSUME NEW p \in Ports, ForeignSocket(p) PROVE Taken(l)'
  BY <1>25 DEF ForeignSocket
<1>26. CASE UNCHANGED vars
  BY <1>26 DEF vars
<1>q. QED
  BY <1>1, <1>2, <1>3, <1>4, <1>5, <1>6, <1>7, <1>8, <1>9, <1>10, <1>11,
     <1>12, <1>13, <1>14, <1>15, <1>16, <1>17, <1>18, <1>19, <1>20, <1>21,
     <1>22, <1>23, <1>24, <1>25, <1>26
  DEF Next, Step, Serve, Shutdown, Environment

\* Only the goroutine that has taken a socket closes it.
LEMMA Closers ==
    ASSUME IInv, [Next]_vars, NEW l \in Listener, bound[l.port] = l.owner
    PROVE  \/ bound'[l.port] = l.owner
           \/ \E s \in Sessions : Unbind(s) /\ victim[s] = l
           \/ CloseDoomed(l)
<1> DEFINE Goal == \/ bound'[l.port] = l.owner
                   \/ \E s \in Sessions : Unbind(s) /\ victim[s] = l
                   \/ CloseDoomed(l)
<1>0. TypeOK /\ CleanupLocals
  BY DEF IInv
<1>a. \A k, m \in Listener : k.port = m.port /\ k.owner = m.owner => k = m
  BY DEF Listener
<1>b. l.port \in Ports /\ l.owner \in Sessions
  BY DEF Listener
<1> SUFFICES Goal
  OBVIOUS
<1> USE <1>0, <1>a, <1>b, Kinds DEF TypeOK, Owners, Addresses, Idle, Serving,
      Registering, Cleaning, Goto, registry, store, sockets, shutdown, locals,
      CleanupLocals
<1>1. ASSUME NEW s \in Sessions, Connect(s) PROVE Goal
  BY <1>1 DEF Connect
<1>2. ASSUME NEW s \in Sessions, Authenticate(s) PROVE Goal
  BY <1>2 DEF Authenticate
<1>3. ASSUME NEW s \in Sessions, Resolve(s) PROVE Goal
  BY <1>3 DEF Resolve, DrawnNames
<1>4. ASSUME NEW s \in Sessions, CommitHTTP(s) PROVE Goal
  BY <1>4 DEF CommitHTTP, Unlock
<1>5. ASSUME NEW s \in Sessions, CommitOther(s) PROVE Goal
  BY <1>5 DEF CommitOther, Unlock
<1>6. ASSUME NEW s \in Sessions, Refuse(s) PROVE Goal
  BY <1>6 DEF Refuse, Unlock
<1>7. ASSUME NEW s \in Sessions, Listen(s) PROVE Goal
  BY <1>7 DEF Listen
<1>8. ASSUME NEW s \in Sessions, Track(s) PROVE Goal
  BY <1>8 DEF Track
<1>9. ASSUME NEW s \in Sessions, Undo(s) PROVE Goal
  BY <1>9 DEF Undo
<1>10. ASSUME NEW s \in Sessions, Reply(s) PROVE Goal
  BY <1>10 DEF Reply
<1>11. ASSUME NEW s \in Sessions, HandleList(s) PROVE Goal
  BY <1>11 DEF HandleList
<1>12. ASSUME NEW s \in Sessions, Exit(s) PROVE Goal
  BY <1>12 DEF Exit
<1>13. ASSUME NEW s \in Sessions, RemoveSession(s) PROVE Goal
  BY <1>13 DEF RemoveSession
<1>14. ASSUME NEW s \in Sessions, Unbind(s) PROVE Goal
  <2>1. CASE victim[s] = l
    BY <1>14, <2>1
  <2>2. CASE victim[s] # l
    <3>1. victim[s] \in Listener /\ bound' = Closed(victim[s])
      BY <1>14 DEF Unbind
    <3>2. victim[s].port # l.port \/ victim[s].owner # l.owner
      BY <2>2, <3>1
    <3>q. QED
      BY <3>1, <3>2 DEF Closed
  <2>q. QED
    BY <2>1, <2>2
<1>15. ASSUME NEW s \in Sessions, CloseSession(s) PROVE Goal
  BY <1>15 DEF CloseSession
<1>16. ASSUME NEW s \in Sessions, Drop(s) PROVE Goal
  BY <1>16 DEF Drop
<1>17. ASSUME NEW s \in Sessions, NEW p \in Ports, CommitTCP(s, p)
      PROVE Goal
  BY <1>17 DEF CommitTCP, Unlock, AllocPort
<1>18. ASSUME NEW s \in Sessions, NEW p \in Ports, CloseTCP(s, p)
      PROVE Goal
  BY <1>18 DEF CloseTCP
<1>19. ASSUME NEW s \in Sessions, NEW r \in Requests, Receive(s, r)
      PROVE Goal
  BY <1>19 DEF Receive
<1>20. ASSUME NEW s \in Sessions, NEW n \in Names,
             HandleClaim(s, n) \/ HandleUnclaim(s, n)
      PROVE Goal
  BY <1>20 DEF HandleClaim, HandleUnclaim
<1>21. CASE Cancel
  BY <1>21 DEF Cancel
<1>22. CASE SwapListeners
  BY <1>22 DEF SwapListeners
<1>23. ASSUME NEW s \in Sessions, Lock(s) \/ Saved(s) PROVE Goal
  BY <1>23 DEF Lock, Saved
<1>24. ASSUME NEW d \in doomed, CloseDoomed(d) PROVE Goal
  BY <1>24 DEF CloseDoomed, Closed
<1>25. ASSUME NEW p \in Ports, ForeignSocket(p) PROVE Goal
  BY <1>25 DEF ForeignSocket
<1>26. CASE UNCHANGED vars
  BY <1>26 DEF vars
<1>q. QED
  BY <1>1, <1>2, <1>3, <1>4, <1>5, <1>6, <1>7, <1>8, <1>9, <1>10, <1>11,
     <1>12, <1>13, <1>14, <1>15, <1>16, <1>17, <1>18, <1>19, <1>20, <1>21,
     <1>22, <1>23, <1>24, <1>25, <1>26
  DEF Next, Step, Serve, Shutdown, Environment

\* closeTCP takes only listeners that are tracked.
LEMMA VictimTaken ==
    ASSUME IInv, [Next]_vars, NEW l \in Listener, NEW v \in Sessions, victim'[v] = l
    PROVE  \/ victim[v] = l
           \/ CloseTCP(v, l.port) /\ tcpListeners[l.port] = l.owner
<1> DEFINE Goal == \/ victim[v] = l
                   \/ CloseTCP(v, l.port) /\ tcpListeners[l.port] = l.owner
<1>0. TypeOK /\ CleanupLocals
  BY DEF IInv
<1>a. \A k, m \in Listener : k.port = m.port /\ k.owner = m.owner => k = m
  BY DEF Listener
<1>b. l.port \in Ports /\ l.owner \in Sessions
  BY DEF Listener
<1> SUFFICES Goal
  OBVIOUS
<1> USE <1>0, <1>a, <1>b, Kinds DEF TypeOK, Owners, Addresses, Idle, Serving,
      Registering, Cleaning, Goto, registry, store, sockets, shutdown, locals,
      CleanupLocals
<1>1. ASSUME NEW s \in Sessions, Connect(s) PROVE Goal
  BY <1>1 DEF Connect
<1>2. ASSUME NEW s \in Sessions, Authenticate(s) PROVE Goal
  BY <1>2 DEF Authenticate
<1>3. ASSUME NEW s \in Sessions, Resolve(s) PROVE Goal
  BY <1>3 DEF Resolve, DrawnNames
<1>4. ASSUME NEW s \in Sessions, CommitHTTP(s) PROVE Goal
  BY <1>4 DEF CommitHTTP, Unlock
<1>5. ASSUME NEW s \in Sessions, CommitOther(s) PROVE Goal
  BY <1>5 DEF CommitOther, Unlock
<1>6. ASSUME NEW s \in Sessions, Refuse(s) PROVE Goal
  BY <1>6 DEF Refuse, Unlock
<1>7. ASSUME NEW s \in Sessions, Listen(s) PROVE Goal
  BY <1>7 DEF Listen
<1>8. ASSUME NEW s \in Sessions, Track(s) PROVE Goal
  BY <1>8 DEF Track
<1>9. ASSUME NEW s \in Sessions, Undo(s) PROVE Goal
  BY <1>9 DEF Undo
<1>10. ASSUME NEW s \in Sessions, Reply(s) PROVE Goal
  BY <1>10 DEF Reply
<1>11. ASSUME NEW s \in Sessions, HandleList(s) PROVE Goal
  BY <1>11 DEF HandleList
<1>12. ASSUME NEW s \in Sessions, Exit(s) PROVE Goal
  BY <1>12 DEF Exit
<1>13. ASSUME NEW s \in Sessions, RemoveSession(s) PROVE Goal
  BY <1>13 DEF RemoveSession
<1>14. ASSUME NEW s \in Sessions, Unbind(s) PROVE Goal
  BY <1>14 DEF Unbind, Closed
<1>15. ASSUME NEW s \in Sessions, CloseSession(s) PROVE Goal
  BY <1>15 DEF CloseSession
<1>16. ASSUME NEW s \in Sessions, Drop(s) PROVE Goal
  BY <1>16 DEF Drop
<1>17. ASSUME NEW s \in Sessions, NEW p \in Ports, CommitTCP(s, p)
      PROVE Goal
  BY <1>17 DEF CommitTCP, Unlock, AllocPort
<1>18. ASSUME NEW s \in Sessions, NEW p \in Ports, CloseTCP(s, p)
      PROVE Goal
  <2>1. CASE victim'[v] = victim[v]
    BY <2>1
  <2>2. CASE ~(victim'[v] = victim[v])
    <3>1. s = v /\ l = [port |-> p, owner |-> tcpListeners[p]]
      BY <1>18, <2>2 DEF CloseTCP
    <3>q. QED
      BY <1>18, <3>1
  <2>q. QED
    BY <2>1, <2>2
<1>19. ASSUME NEW s \in Sessions, NEW r \in Requests, Receive(s, r)
      PROVE Goal
  BY <1>19 DEF Receive
<1>20. ASSUME NEW s \in Sessions, NEW n \in Names,
             HandleClaim(s, n) \/ HandleUnclaim(s, n)
      PROVE Goal
  BY <1>20 DEF HandleClaim, HandleUnclaim
<1>21. CASE Cancel
  BY <1>21 DEF Cancel
<1>22. CASE SwapListeners
  BY <1>22 DEF SwapListeners
<1>23. ASSUME NEW s \in Sessions, Lock(s) \/ Saved(s) PROVE Goal
  BY <1>23 DEF Lock, Saved
<1>24. ASSUME NEW d \in doomed, CloseDoomed(d) PROVE Goal
  BY <1>24 DEF CloseDoomed, Closed
<1>25. ASSUME NEW p \in Ports, ForeignSocket(p) PROVE Goal
  BY <1>25 DEF ForeignSocket
<1>26. CASE UNCHANGED vars
  BY <1>26 DEF vars
<1>q. QED
  BY <1>1, <1>2, <1>3, <1>4, <1>5, <1>6, <1>7, <1>8, <1>9, <1>10, <1>11,
     <1>12, <1>13, <1>14, <1>15, <1>16, <1>17, <1>18, <1>19, <1>20, <1>21,
     <1>22, <1>23, <1>24, <1>25, <1>26
  DEF Next, Step, Serve, Shutdown, Environment

\* closeAllTCP takes only listeners that are tracked.
LEMMA DoomedTaken ==
    ASSUME IInv, [Next]_vars, NEW l \in Listener, l \in doomed'
    PROVE  l \in doomed \/ (SwapListeners /\ tcpListeners[l.port] = l.owner)
<1> DEFINE Goal == l \in doomed \/ (SwapListeners /\ tcpListeners[l.port] = l.owner)
<1> SUFFICES Goal
  OBVIOUS
<1> USE DEF registry, store, sockets, shutdown
<1>1. ASSUME NEW s \in Sessions, Connect(s) PROVE Goal
  BY <1>1 DEF Connect
<1>2. ASSUME NEW s \in Sessions, Authenticate(s) PROVE Goal
  BY <1>2 DEF Authenticate
<1>3. ASSUME NEW s \in Sessions, Resolve(s) PROVE Goal
  BY <1>3 DEF Resolve, DrawnNames
<1>4. ASSUME NEW s \in Sessions, CommitHTTP(s) PROVE Goal
  BY <1>4 DEF CommitHTTP, Unlock
<1>5. ASSUME NEW s \in Sessions, CommitOther(s) PROVE Goal
  BY <1>5 DEF CommitOther, Unlock
<1>6. ASSUME NEW s \in Sessions, Refuse(s) PROVE Goal
  BY <1>6 DEF Refuse, Unlock
<1>7. ASSUME NEW s \in Sessions, Listen(s) PROVE Goal
  BY <1>7 DEF Listen
<1>8. ASSUME NEW s \in Sessions, Track(s) PROVE Goal
  BY <1>8 DEF Track
<1>9. ASSUME NEW s \in Sessions, Undo(s) PROVE Goal
  BY <1>9 DEF Undo
<1>10. ASSUME NEW s \in Sessions, Reply(s) PROVE Goal
  BY <1>10 DEF Reply
<1>11. ASSUME NEW s \in Sessions, HandleList(s) PROVE Goal
  BY <1>11 DEF HandleList
<1>12. ASSUME NEW s \in Sessions, Exit(s) PROVE Goal
  BY <1>12 DEF Exit
<1>13. ASSUME NEW s \in Sessions, RemoveSession(s) PROVE Goal
  BY <1>13 DEF RemoveSession
<1>14. ASSUME NEW s \in Sessions, Unbind(s) PROVE Goal
  BY <1>14 DEF Unbind, Closed
<1>15. ASSUME NEW s \in Sessions, CloseSession(s) PROVE Goal
  BY <1>15 DEF CloseSession
<1>16. ASSUME NEW s \in Sessions, Drop(s) PROVE Goal
  BY <1>16 DEF Drop
<1>17. ASSUME NEW s \in Sessions, NEW p \in Ports, CommitTCP(s, p)
      PROVE Goal
  BY <1>17 DEF CommitTCP, Unlock, AllocPort
<1>18. ASSUME NEW s \in Sessions, NEW p \in Ports, CloseTCP(s, p)
      PROVE Goal
  BY <1>18 DEF CloseTCP
<1>19. ASSUME NEW s \in Sessions, NEW r \in Requests, Receive(s, r)
      PROVE Goal
  BY <1>19 DEF Receive
<1>20. ASSUME NEW s \in Sessions, NEW n \in Names,
             HandleClaim(s, n) \/ HandleUnclaim(s, n)
      PROVE Goal
  BY <1>20 DEF HandleClaim, HandleUnclaim
<1>21. CASE Cancel
  BY <1>21 DEF Cancel
<1>22. CASE SwapListeners
  BY <1>22 DEF SwapListeners
<1>23. ASSUME NEW s \in Sessions, Lock(s) \/ Saved(s) PROVE Goal
  BY <1>23 DEF Lock, Saved
<1>24. ASSUME NEW d \in doomed, CloseDoomed(d) PROVE Goal
  BY <1>24 DEF CloseDoomed, Closed
<1>25. ASSUME NEW p \in Ports, ForeignSocket(p) PROVE Goal
  BY <1>25 DEF ForeignSocket
<1>26. CASE UNCHANGED vars
  BY <1>26 DEF vars
<1>q. QED
  BY <1>1, <1>2, <1>3, <1>4, <1>5, <1>6, <1>7, <1>8, <1>9, <1>10, <1>11,
     <1>12, <1>13, <1>14, <1>15, <1>16, <1>17, <1>18, <1>19, <1>20, <1>21,
     <1>22, <1>23, <1>24, <1>25, <1>26
  DEF Next, Step, Serve, Shutdown, Environment

\* What closeTCP holds stays open, and its own, until it closes it.
LEMMA VictimOpenStep == IInv /\ [Next]_vars => VictimOpen'
<1> SUFFICES ASSUME IInv, [Next]_vars, NEW l \in Listener, NEW s \in Sessions,
                    victim'[s] = l
             PROVE  /\ Taken(l)'
                    /\ l \notin doomed'
                    /\ \A t \in Sessions : victim'[t] = l => t = s
  BY DEF VictimOpen
<1>0. TypeOK /\ TypeOK' /\ CleanupLocals /\ VictimOpen /\ DoomedOpen /\ TrackedOpen
  BY TypeStep DEF IInv
<1>1. l.port \in Ports /\ l.owner \in Sessions
  BY DEF Listener
<1>2. CASE victim[s] = l
  <2>1. Taken(l) /\ l \notin doomed /\ \A t \in Sessions : victim[t] = l => t = s
    BY <1>0, <1>2 DEF VictimOpen
  <2>2. ~ Unbind(s)
    BY <1>0, Kinds DEF Unbind, TypeOK
  <2>3. bound'[l.port] = l.owner
    BY <2>1, <2>2, Closers DEF Taken, CloseDoomed
  <2>4. Taken(l)'
    BY <2>1, <2>3, TakenStays
  <2>5. l \notin doomed'
    BY <2>1, DoomedTaken DEF Taken
  <2>6. \A t \in Sessions : victim'[t] = l => t = s
    BY <2>1, VictimTaken DEF Taken
  <2>q. QED
    BY <2>4, <2>5, <2>6
<1>3. CASE ~(victim[s] = l)
  <2>1. CloseTCP(s, l.port) /\ tcpListeners[l.port] = l.owner
    BY <1>3, VictimTaken
  <2>2. /\ bound[l.port] = l.owner
        /\ ~(pc[l.owner] = "track" /\ addr[l.owner] = l.port)
    BY <1>0, <1>1, <2>1 DEF TrackedOpen
  <2>3. Taken(l)'
    BY <1>0, <1>1, <2>1, <2>2, Kinds
    DEF CloseTCP, Taken, TypeOK, Owners, registry
  <2>4. l \notin doomed'
    BY <1>0, <2>1 DEF DoomedOpen, Taken, CloseTCP, shutdown
  <2>5. ASSUME NEW t \in Sessions, victim'[t] = l PROVE t = s
    <3>1. ~(victim[t] = l)
      BY <1>0, <2>1 DEF VictimOpen, Taken
    <3>q. QED
      BY <1>0, <2>1, <2>5, <3>1 DEF CloseTCP, TypeOK
  <2>q. QED
    BY <2>3, <2>4, <2>5
<1>q. QED
  BY <1>2, <1>3

\* What closeAllTCP holds stays open until it closes it.
LEMMA DoomedOpenStep == IInv /\ [Next]_vars => DoomedOpen'
<1> SUFFICES ASSUME IInv, [Next]_vars, NEW l \in Listener, l \in doomed'
             PROVE  Taken(l)'
  BY TypeStep DEF DoomedOpen, IInv, TypeOK
<1>0. /\ TypeOK /\ TypeOK' /\ CleanupLocals /\ VictimOpen /\ DoomedOpen
      /\ TrackedOpen
  BY TypeStep DEF IInv
<1>1. l.port \in Ports /\ l.owner \in Sessions
  BY DEF Listener
<1>2. CASE l \in doomed
  <2>1. Taken(l) /\ \A s \in Sessions : ~(victim[s] = l)
    BY <1>0, <1>2 DEF DoomedOpen, VictimOpen
  <2>2. bound'[l.port] = l.owner
    BY <2>1, Closers DEF Taken, CloseDoomed
  <2>q. QED
    BY <2>1, <2>2, TakenStays
<1>3. CASE SwapListeners /\ tcpListeners[l.port] = l.owner
  <2>1. /\ bound[l.port] = l.owner
        /\ ~(pc[l.owner] = "track" /\ addr[l.owner] = l.port)
    BY <1>0, <1>1, <1>3 DEF TrackedOpen
  <2>2. /\ tcpListeners'[l.port] = None
        /\ UNCHANGED <<bound, pc, addr>>
    BY <1>1, <1>3 DEF SwapListeners, locals
  <2>q. QED
    BY <1>1, <2>1, <2>2, Kinds DEF Taken
<1>q. QED
  BY <1>2, <1>3, DoomedTaken

\* A tracked listener keeps its route or its cleanup.
LEMMA TrackedAreKnownStep == IInv /\ [Next]_vars => TrackedAreKnown'
<1> SUFFICES ASSUME IInv, [Next]_vars PROVE TrackedAreKnown'
  OBVIOUS
<1>0. TypeOK /\ TypeOK' /\ LocalAddress /\ CleanupLocals /\ TrackedOpen /\ TrackedAreKnown
  BY TypeStep DEF IInv
<1> USE <1>0, Kinds DEF TypeOK, Owners, Addresses, Idle, Serving,
      Registering, Cleaning, Goto, registry, store, sockets, shutdown, locals,
      LocalAddress, CleanupLocals, TrackedOpen, TrackedAreKnown
<1>1. ASSUME NEW s \in Sessions, Connect(s) PROVE TrackedAreKnown'
  BY <1>1 DEF Connect
<1>2. ASSUME NEW s \in Sessions, Authenticate(s) PROVE TrackedAreKnown'
  BY <1>2 DEF Authenticate
<1>3. ASSUME NEW s \in Sessions, Resolve(s) PROVE TrackedAreKnown'
  BY <1>3 DEF Resolve, DrawnNames
<1>4. ASSUME NEW s \in Sessions, CommitHTTP(s) PROVE TrackedAreKnown'
  BY <1>4 DEF CommitHTTP, Unlock
<1>5. ASSUME NEW s \in Sessions, CommitOther(s) PROVE TrackedAreKnown'
  BY <1>5 DEF CommitOther, Unlock
<1>6. ASSUME NEW s \in Sessions, Refuse(s) PROVE TrackedAreKnown'
  BY <1>6 DEF Refuse, Unlock
<1>7. ASSUME NEW s \in Sessions, Listen(s) PROVE TrackedAreKnown'
  BY <1>7 DEF Listen
<1>8. ASSUME NEW s \in Sessions, Track(s) PROVE TrackedAreKnown'
  BY <1>8 DEF Track
<1>9. ASSUME NEW s \in Sessions, Undo(s) PROVE TrackedAreKnown'
  BY <1>9 DEF Undo
<1>10. ASSUME NEW s \in Sessions, Reply(s) PROVE TrackedAreKnown'
  BY <1>10 DEF Reply
<1>11. ASSUME NEW s \in Sessions, HandleList(s) PROVE TrackedAreKnown'
  BY <1>11 DEF HandleList
<1>12. ASSUME NEW s \in Sessions, Exit(s) PROVE TrackedAreKnown'
  BY <1>12 DEF Exit
<1>13. ASSUME NEW s \in Sessions, RemoveSession(s) PROVE TrackedAreKnown'
  BY <1>13 DEF RemoveSession
<1>14. ASSUME NEW s \in Sessions, Unbind(s) PROVE TrackedAreKnown'
  BY <1>14 DEF Unbind, Closed
<1>15. ASSUME NEW s \in Sessions, CloseSession(s) PROVE TrackedAreKnown'
  BY <1>15 DEF CloseSession
<1>16. ASSUME NEW s \in Sessions, Drop(s) PROVE TrackedAreKnown'
  BY <1>16 DEF Drop
<1>17. ASSUME NEW s \in Sessions, NEW p \in Ports, CommitTCP(s, p)
      PROVE TrackedAreKnown'
  BY <1>17 DEF CommitTCP, Unlock, AllocPort
<1>18. ASSUME NEW s \in Sessions, NEW p \in Ports, CloseTCP(s, p)
      PROVE TrackedAreKnown'
  BY <1>18 DEF CloseTCP
<1>19. ASSUME NEW s \in Sessions, NEW r \in Requests, Receive(s, r)
      PROVE TrackedAreKnown'
  BY <1>19 DEF Receive
<1>20. ASSUME NEW s \in Sessions, NEW n \in Names,
             HandleClaim(s, n) \/ HandleUnclaim(s, n)
      PROVE TrackedAreKnown'
  BY <1>20 DEF HandleClaim, HandleUnclaim
<1>21. CASE Cancel
  BY <1>21 DEF Cancel
<1>22. CASE SwapListeners
  BY <1>22 DEF SwapListeners
<1>23. ASSUME NEW s \in Sessions, Lock(s) \/ Saved(s) PROVE TrackedAreKnown'
  BY <1>23 DEF Lock, Saved
<1>24. ASSUME NEW d \in doomed, CloseDoomed(d) PROVE TrackedAreKnown'
  BY <1>24 DEF CloseDoomed, Closed
<1>25. ASSUME NEW p \in Ports, ForeignSocket(p) PROVE TrackedAreKnown'
  BY <1>25 DEF ForeignSocket
<1>26. CASE UNCHANGED vars
  BY <1>26 DEF vars
<1>q. QED
  BY <1>1, <1>2, <1>3, <1>4, <1>5, <1>6, <1>7, <1>8, <1>9, <1>10, <1>11,
     <1>12, <1>13, <1>14, <1>15, <1>16, <1>17, <1>18, <1>19, <1>20, <1>21,
     <1>22, <1>23, <1>24, <1>25, <1>26
  DEF Next, Step, Serve, Shutdown, Environment

\* Until shutdown routes and cleanups keep their listeners.
LEMMA RunningTrackedStep == IInv /\ [Next]_vars => RunningTracked'
<1> SUFFICES ASSUME IInv, [Next]_vars PROVE RunningTracked'
  OBVIOUS
<1>0. TypeOK /\ TypeOK' /\ LocalAddress /\ RouteOwners /\ CleanupLocals /\ TrackedOpen /\ RunningTracked
  BY TypeStep DEF IInv
<1>a. ASSUME NEW s \in Sessions, NEW p \in Ports, CloseTCP(s, p)
      PROVE RunningTracked'
  <2>1. /\ pc[s] = "close" /\ p \in freed[s]
        /\ freed' = [freed EXCEPT ![s] = @ \ {p}]
        /\ tcpListeners' = [tcpListeners EXCEPT ![p] = None]
        /\ pc' = pc \/ pc' = [pc EXCEPT ![s] = "unbind"]
        /\ UNCHANGED <<tcpByPort, addr, phase>>
    BY <1>a DEF CloseTCP, registry, shutdown
  <2>2. tcpByPort[p] # s
    BY <1>0, <2>1 DEF RouteOwners, Serving, Registering
  <2>3. phase = "running" => tcpListeners[p] = s
    BY <1>0, <2>1 DEF RunningTracked
  <2>4. ASSUME NEW q \in Ports, NEW t \in Sessions, phase = "running",
               tcpByPort[q] = t,
               ~(pc'[t] \in {"listen", "track", "undo"} /\ addr[t] = q)
        PROVE  tcpListeners'[q] = t
    <3>1. pc[t] \in {"listen", "track", "undo"} => pc'[t] = pc[t]
      BY <1>0, <2>1 DEF TypeOK
    <3>2. tcpListeners[q] = t
      BY <1>0, <2>4, <3>1 DEF RunningTracked
    <3>3. q # p
      BY <2>2, <2>3, <2>4, <3>2
    <3>. QED
      BY <1>0, <2>1, <3>2, <3>3 DEF TypeOK
  <2>5. ASSUME NEW q \in Ports, NEW t \in Sessions, phase = "running",
               q \in freed'[t]
        PROVE  tcpListeners'[q] = t
    <3>1. q \in freed[t] /\ (t = s => q # p)
      BY <1>0, <2>1, <2>5 DEF TypeOK
    <3>2. tcpListeners[q] = t
      BY <1>0, <2>5, <3>1 DEF RunningTracked
    <3>3. q # p
      BY <2>3, <2>5, <3>1, <3>2
    <3>. QED
      BY <1>0, <2>1, <3>2, <3>3 DEF TypeOK
  <2>. QED
    BY <2>1, <2>4, <2>5 DEF RunningTracked
<1> USE <1>0, Kinds DEF TypeOK, Owners, Addresses, Idle, Serving,
      Registering, Cleaning, Goto, registry, store, sockets, shutdown, locals,
      LocalAddress, RouteOwners, CleanupLocals, TrackedOpen, RunningTracked
<1>1. ASSUME NEW s \in Sessions, Connect(s) PROVE RunningTracked'
  BY <1>1 DEF Connect
<1>2. ASSUME NEW s \in Sessions, Authenticate(s) PROVE RunningTracked'
  BY <1>2 DEF Authenticate
<1>3. ASSUME NEW s \in Sessions, Resolve(s) PROVE RunningTracked'
  BY <1>3 DEF Resolve, DrawnNames
<1>4. ASSUME NEW s \in Sessions, CommitHTTP(s) PROVE RunningTracked'
  BY <1>4 DEF CommitHTTP, Unlock
<1>5. ASSUME NEW s \in Sessions, CommitOther(s) PROVE RunningTracked'
  BY <1>5 DEF CommitOther, Unlock
<1>6. ASSUME NEW s \in Sessions, Refuse(s) PROVE RunningTracked'
  BY <1>6 DEF Refuse, Unlock
<1>7. ASSUME NEW s \in Sessions, Listen(s) PROVE RunningTracked'
  BY <1>7 DEF Listen
<1>8. ASSUME NEW s \in Sessions, Track(s) PROVE RunningTracked'
  BY <1>8 DEF Track
<1>9. ASSUME NEW s \in Sessions, Undo(s) PROVE RunningTracked'
  BY <1>9 DEF Undo
<1>10. ASSUME NEW s \in Sessions, Reply(s) PROVE RunningTracked'
  BY <1>10 DEF Reply
<1>11. ASSUME NEW s \in Sessions, HandleList(s) PROVE RunningTracked'
  BY <1>11 DEF HandleList
<1>12. ASSUME NEW s \in Sessions, Exit(s) PROVE RunningTracked'
  BY <1>12 DEF Exit
<1>13. ASSUME NEW s \in Sessions, RemoveSession(s) PROVE RunningTracked'
  BY <1>13 DEF RemoveSession
<1>14. ASSUME NEW s \in Sessions, Unbind(s) PROVE RunningTracked'
  BY <1>14 DEF Unbind, Closed
<1>15. ASSUME NEW s \in Sessions, CloseSession(s) PROVE RunningTracked'
  BY <1>15 DEF CloseSession
<1>16. ASSUME NEW s \in Sessions, Drop(s) PROVE RunningTracked'
  BY <1>16 DEF Drop
<1>17. ASSUME NEW s \in Sessions, NEW p \in Ports, CommitTCP(s, p)
      PROVE RunningTracked'
  BY <1>17 DEF CommitTCP, Unlock, AllocPort
<1>18. ASSUME NEW s \in Sessions, NEW r \in Requests, Receive(s, r)
      PROVE RunningTracked'
  BY <1>18 DEF Receive
<1>19. ASSUME NEW s \in Sessions, NEW n \in Names,
             HandleClaim(s, n) \/ HandleUnclaim(s, n)
      PROVE RunningTracked'
  BY <1>19 DEF HandleClaim, HandleUnclaim
<1>20. CASE Cancel
  BY <1>20 DEF Cancel
<1>21. CASE SwapListeners
  BY <1>21 DEF SwapListeners
<1>22. ASSUME NEW s \in Sessions, Lock(s) \/ Saved(s) PROVE RunningTracked'
  BY <1>22 DEF Lock, Saved
<1>23. ASSUME NEW d \in doomed, CloseDoomed(d) PROVE RunningTracked'
  BY <1>23 DEF CloseDoomed, Closed
<1>24. ASSUME NEW p \in Ports, ForeignSocket(p) PROVE RunningTracked'
  BY <1>24 DEF ForeignSocket
<1>25. CASE UNCHANGED vars
  BY <1>25 DEF vars
<1>q. QED
  BY <1>a, <1>1, <1>2, <1>3, <1>4, <1>5, <1>6, <1>7, <1>8, <1>9, <1>10, <1>11,
     <1>12, <1>13, <1>14, <1>15, <1>16, <1>17, <1>18, <1>19, <1>20,
     <1>21, <1>22, <1>23, <1>24, <1>25
  DEF Next, Step, Serve, Shutdown, Environment
-----------------------------------------------------------------------------
(* No listener is orphaned. *)

\* Somebody knows the socket, whatever became of its route.
Known(l) ==
    \/ pc[l.owner] = "track" /\ addr[l.owner] = l.port
    \/ tcpListeners[l.port] = l.owner
    \/ \E t \in Sessions : victim[t] = l
    \/ l \in doomed

\* An open socket stays known to somebody.
LEMMA SocketKnown ==
    ASSUME IInv, [Next]_vars, NEW l \in Listener, bound'[l.port] = l.owner
    PROVE  Known(l)'
<1>0. TypeOK /\ TypeOK' /\ LocalAddress /\ CleanupLocals /\ TrackedOpen
  BY TypeStep DEF IInv
<1>a. l.port \in Ports /\ l.owner \in Sessions
  BY DEF Listener
<1>b. \A p \in Ports, s \in Sessions : l.port = p /\ l.owner = s => l = [port |-> p, owner |-> s]
  BY DEF Listener
<1>k. bound[l.port] = l.owner => Known(l)
  BY DEF IInv, NoOrphanListener, Accounted, Known
<1>l. ASSUME NEW s \in Sessions, Listen(s) PROVE Known(l)'
  <2>1. pc[s] = "listen" /\ addr[s] \in Ports
    BY <1>0, <1>l, Kinds DEF Listen, Goto, LocalAddress, TypeOK, Idle, Serving,
       Registering, Cleaning
  <2>2. CASE bound[addr[s]] = None
    <3>1. CASE l.port = addr[s]
      <4>1. l.owner = s
        BY <1>0, <1>a, <1>l, <2>1, <2>2, <3>1, ListenMoves
      <4>2. pc'[s] = "track" /\ addr' = addr
        BY <1>0, <1>l, <2>2 DEF Listen, Goto, locals, TypeOK
      <4>q. QED
        BY <3>1, <4>1, <4>2 DEF Known
    <3>2. CASE l.port # addr[s]
      <4>1. bound[l.port] = l.owner
        BY <1>0, <1>a, <1>l, <2>1, <2>2, <3>2, ListenMoves
      <4>2. pc[l.owner] = "track" => pc'[l.owner] = "track"
        BY <1>0, <1>a, <1>l, <2>1 DEF Listen, Goto, TypeOK
      <4>q. QED
        BY <1>k, <1>l, <4>1, <4>2 DEF Known, Listen, locals, shutdown
    <3>q. QED
      BY <3>1, <3>2
  <2>3. CASE bound[addr[s]] # None
    <3>1. pc[l.owner] = "track" => pc'[l.owner] = "track"
      BY <1>0, <1>a, <1>l, <2>1 DEF Listen, Goto, TypeOK
    <3>2. UNCHANGED <<bound, tcpListeners, addr, victim, doomed>>
      BY <1>l, <2>3 DEF Listen, Goto, locals, shutdown
    <3>q. QED
      BY <1>k, <3>1, <3>2 DEF Known
  <2>q. QED
    BY <2>2, <2>3
<1>f. ASSUME NEW p \in Ports, ForeignSocket(p) PROVE Known(l)'
  <2>1. bound[l.port] = l.owner
    BY <1>0, <1>a, <1>f, Kinds DEF ForeignSocket, TypeOK
  <2>2. UNCHANGED <<tcpListeners, pc, addr, victim, doomed>>
    BY <1>f DEF ForeignSocket, locals, shutdown
  <2>q. QED
    BY <1>k, <2>1, <2>2 DEF Known
<1> USE <1>0, <1>a, <1>k, Kinds DEF TypeOK, Owners, Addresses, Idle, Serving,
      Registering, Cleaning, Goto, registry, store, sockets, shutdown, locals,
      LocalAddress, CleanupLocals, TrackedOpen, Known
<1>1. ASSUME NEW s \in Sessions, Connect(s) PROVE Known(l)'
  BY <1>1 DEF Connect
<1>2. ASSUME NEW s \in Sessions, Authenticate(s) PROVE Known(l)'
  BY <1>2 DEF Authenticate
<1>3. ASSUME NEW s \in Sessions, Resolve(s) PROVE Known(l)'
  BY <1>3 DEF Resolve, DrawnNames
<1>4. ASSUME NEW s \in Sessions, CommitHTTP(s) PROVE Known(l)'
  BY <1>4 DEF CommitHTTP, Unlock
<1>5. ASSUME NEW s \in Sessions, CommitOther(s) PROVE Known(l)'
  BY <1>5 DEF CommitOther, Unlock
<1>6. ASSUME NEW s \in Sessions, Refuse(s) PROVE Known(l)'
  BY <1>6 DEF Refuse, Unlock
<1>7. ASSUME NEW s \in Sessions, Track(s) PROVE Known(l)'
  BY <1>7 DEF Track
<1>8. ASSUME NEW s \in Sessions, Undo(s) PROVE Known(l)'
  BY <1>8 DEF Undo
<1>9. ASSUME NEW s \in Sessions, Reply(s) PROVE Known(l)'
  BY <1>9 DEF Reply
<1>10. ASSUME NEW s \in Sessions, HandleList(s) PROVE Known(l)'
  BY <1>10 DEF HandleList
<1>11. ASSUME NEW s \in Sessions, Exit(s) PROVE Known(l)'
  BY <1>11 DEF Exit
<1>12. ASSUME NEW s \in Sessions, RemoveSession(s) PROVE Known(l)'
  BY <1>12 DEF RemoveSession
<1>13. ASSUME NEW s \in Sessions, Unbind(s) PROVE Known(l)'
  BY <1>13 DEF Unbind, Closed
<1>14. ASSUME NEW s \in Sessions, CloseSession(s) PROVE Known(l)'
  BY <1>14 DEF CloseSession
<1>15. ASSUME NEW s \in Sessions, Drop(s) PROVE Known(l)'
  BY <1>15 DEF Drop
<1>16. ASSUME NEW s \in Sessions, NEW p \in Ports, CommitTCP(s, p)
      PROVE Known(l)'
  BY <1>16 DEF CommitTCP, Unlock, AllocPort
<1>17. ASSUME NEW s \in Sessions, NEW p \in Ports, CloseTCP(s, p)
      PROVE Known(l)'
  BY <1>17, <1>b DEF CloseTCP
<1>18. ASSUME NEW s \in Sessions, NEW r \in Requests, Receive(s, r)
      PROVE Known(l)'
  BY <1>18 DEF Receive
<1>19. ASSUME NEW s \in Sessions, NEW n \in Names,
             HandleClaim(s, n) \/ HandleUnclaim(s, n)
      PROVE Known(l)'
  BY <1>19 DEF HandleClaim, HandleUnclaim
<1>20. CASE Cancel
  BY <1>20 DEF Cancel
<1>21. CASE SwapListeners
  BY <1>21 DEF SwapListeners
<1>22. ASSUME NEW s \in Sessions, Lock(s) \/ Saved(s) PROVE Known(l)'
  BY <1>22 DEF Lock, Saved
<1>23. ASSUME NEW d \in doomed, CloseDoomed(d) PROVE Known(l)'
  BY <1>23 DEF CloseDoomed, Closed
<1>24. CASE UNCHANGED vars
  BY <1>24 DEF vars
<1>q. QED
  BY <1>l, <1>f, <1>1, <1>2, <1>3, <1>4, <1>5, <1>6, <1>7, <1>8, <1>9, <1>10,
     <1>11, <1>12, <1>13, <1>14, <1>15, <1>16, <1>17, <1>18, <1>19, <1>20,
     <1>21, <1>22, <1>23, <1>24
  DEF Next, Step, Serve, Shutdown, Environment

\* A known socket is accounted for: a handler that tracked it has its route, or
\* its cleanup holds the port.
LEMMA NoOrphanStep == IInv /\ [Next]_vars => NoOrphanListener'
<1> SUFFICES ASSUME IInv, [Next]_vars, NEW l \in Listener, bound'[l.port] = l.owner
             PROVE  Accounted(l)'
  BY DEF NoOrphanListener
<1>1. Known(l)'
  BY SocketKnown
<1>2. TrackedAreKnown'
  BY TrackedAreKnownStep
<1>3. l.port \in Ports /\ l.owner \in Sessions
  BY DEF Listener
<1>q. QED
  BY <1>1, <1>2, <1>3 DEF Known, Accounted, TrackedAreKnown

-----------------------------------------------------------------------------
(* The theorems. *)

\* A server that has accepted nobody satisfies every part.
LEMMA IInvInit == Init => IInv
<1> SUFFICES ASSUME Init PROVE IInv
  OBVIOUS
<1>1. TypeOK
  BY TypeInit
<1>2. LocalAddress /\ RouteOwners /\ CleanupLocals
  BY Kinds DEF Init, LocalAddress, RouteOwners, CleanupLocals, Registering
<1>3. TrackedOpen /\ DoomedOpen /\ TrackedAreKnown /\ RunningTracked
  BY Kinds DEF Init, TrackedOpen, DoomedOpen, TrackedAreKnown, RunningTracked
<1>4. VictimOpen
  BY Kinds DEF Init, VictimOpen
<1>5. NoOrphanListener
  <2>1. \A l \in Listener : l.port \in Ports /\ l.owner # None
    BY Kinds DEF Listener
  <2>q. QED
    BY <2>1 DEF Init, NoOrphanListener
<1>6. Locked
  BY Kinds DEF Init, Locked
<1>q. QED
  BY <1>1, <1>2, <1>3, <1>4, <1>5, <1>6 DEF IInv

\* What each goroutine's locals mean, who knows each socket and who owns each
\* route (IInv) holds in every reachable state of the server.
THEOREM Inductive == Spec => []IInv
<1>1. IInv /\ [Next]_vars => IInv'
  <2> SUFFICES ASSUME IInv, [Next]_vars PROVE IInv'
    OBVIOUS
  <2>1. TypeOK' /\ Locked'
    BY TypeStep, LockedStep DEF IInv
  <2>2. LocalAddress' /\ RouteOwners' /\ CleanupLocals'
    BY LocalAddressStep, RouteOwnersStep, CleanupLocalsStep
  <2>3. TrackedOpen' /\ VictimOpen' /\ DoomedOpen'
    BY TrackedOpenStep, VictimOpenStep, DoomedOpenStep
  <2>4. TrackedAreKnown' /\ RunningTracked' /\ NoOrphanListener'
    BY TrackedAreKnownStep, RunningTrackedStep, NoOrphanStep
  <2>q. QED
    BY <2>1, <2>2, <2>3, <2>4 DEF IInv
<1>q. QED
  BY <1>1, IInvInit, PTL DEF Spec

\* No public listener leaks, through failed registrations, disconnects and
\* shutdown, in any number of sessions (startTCPTunnel, closeTCP, closeAllTCP).
THEOREM NoListenerLeaks == Spec => []NoOrphanListener
<1>1. IInv => NoOrphanListener
  BY DEF IInv
<1>q. QED
  BY <1>1, Inductive, PTL

\* The routing tables hold what clients were answered and the registrations
\* being handled, and nothing else (Register, Remove, RemoveSession).
THEOREM RoutesCorrect == Spec => []RoutesMatchAnswers
<1>1. IInv => RoutesMatchAnswers
  BY DEF IInv, RouteOwners, RoutesMatchAnswers
<1>q. QED
  BY <1>1, Inductive, PTL

\* While the server runs, an answered tcp tunnel keeps its route and its own
\* open listener: no other session's failed registration (handleRegister) or
\* late cleanup (closeTCP) takes it away.
THEOREM AnsweredPortsKeepListening == Spec => []AnsweredPortsListen
<1>1. IInv => AnsweredPortsListen
  <2> SUFFICES ASSUME IInv, phase = "running", NEW s \in Sessions,
                      NEW p \in told[s] \cap Ports
               PROVE  tcpByPort[p] = s /\ tcpListeners[p] = s /\ bound[p] = s
    BY DEF AnsweredPortsListen
  <2>1. tcpByPort[p] = s
    BY DEF IInv, RouteOwners
  <2>2. ~(pc[s] \in {"listen", "track", "undo"} /\ addr[s] = p)
    BY Kinds DEF IInv, LocalAddress
  <2>3. tcpListeners[p] = s
    BY <2>1, <2>2 DEF IInv, RunningTracked
  <2>q. QED
    BY <2>1, <2>3 DEF IInv, TrackedOpen
<1>q. QED
  BY <1>1, Inductive, PTL

\* Whatever its connection asked for and however it ended, a goroutine that is
\* done leaves neither a mutex nor a route nor a tracked listener behind
\* (handleControlConn and its deferred calls).
THEOREM GoroutinesLeaveNothing == Spec => []NothingLeftBehind
<1>1. IInv => NothingLeftBehind
  <2> SUFFICES ASSUME IInv, NEW s \in Sessions, pc[s] \in Idle
               PROVE  /\ regMu # s /\ storeMu # s
                      /\ \A n \in Names : httpBySub[n] # s
                      /\ \A p \in Ports :
                            /\ tcpByPort[p] # s /\ tcpListeners[p] # s
                            /\ bound[p] = s => Closing([port |-> p, owner |-> s])
    BY DEF NothingLeftBehind
  <2>1. pc[s] \notin Serving \cup Cleaning /\ freed[s] = {}
    BY DEF Idle, Serving, Registering, Cleaning, IInv, CleanupLocals
  <2>2. regMu # s /\ storeMu # s
    BY DEF IInv, Locked, Idle
  <2>3. told[s] = {}
    BY <2>1 DEF IInv, RouteOwners, Cleaning
  <2>4. /\ \A n \in Names : httpBySub[n] # s
        /\ \A p \in Ports : tcpByPort[p] # s
    BY <2>1, <2>3 DEF IInv, RouteOwners, Serving, Registering, Cleaning
  <2>5. \A p \in Ports : tcpListeners[p] # s
    BY <2>1, <2>4 DEF IInv, TrackedAreKnown
  <2>6. ASSUME NEW p \in Ports, bound[p] = s
        PROVE  Closing([port |-> p, owner |-> s])
    <3> DEFINE l == [port |-> p, owner |-> s]
    <3>1. l \in Listener /\ l.port = p /\ l.owner = s
      BY DEF Listener
    <3>2. Accounted(l)
      BY <2>6, <3>1 DEF IInv, NoOrphanListener
    <3>. QED
      BY <2>1, <2>5, <3>1, <3>2 DEF Accounted, Closing, Serving, Registering
  <2>. QED
    BY <2>2, <2>4, <2>5, <2>6
<1>q. QED
  BY <1>1, Inductive, PTL
=============================================================================
