---------------------- MODULE ControlPlaneLease_proofs ----------------------
(***************************************************************************)
(* The control plane implements AddressLease: every step of a session is a *)
(* step of the contract or leaves the leases alone.                        *)
(***************************************************************************)
EXTENDS ControlPlane_proofs

\* A step that moves nobody in or out of service, and changes neither routes
\* nor answers, is a stuttering step of the contract.
LEMMA Stutters ==
    ASSUME UNCHANGED <<httpBySub, tcpByPort, told>>,
           \A s \in Sessions : pc'[s] \in InService <=> pc[s] \in InService
    PROVE  UNCHANGED Lease!vars
<1>1. Served' = Served
  BY DEF Served
<1>2. AddressOwner' = AddressOwner
  BY DEF AddressOwner
<1>q. QED
  BY <1>1, <1>2 DEF Lease!vars

\* An empty registry serves nobody and has leased nothing.
LEMMA LeaseInit == Init => Lease!Init
<1> SUFFICES ASSUME Init PROVE Lease!Init
  OBVIOUS
<1>1. Served = {}
  BY DEF Init, Served, InService, Serving, Registering
<1>2. AddressOwner = [a \in Addresses |-> None]
  BY DEF Init, AddressOwner, Addresses
<1>q. QED
  BY <1>1, <1>2 DEF Init, Lease!Init

\* Every step is a step of the contract or a stutter.
LEMMA LeaseStep == IInv /\ [Next]_vars => [Lease!Next]_(Lease!vars)
<1> SUFFICES ASSUME IInv, [Next]_vars PROVE Lease!Next \/ UNCHANGED Lease!vars
  OBVIOUS
<1>0. TypeOK /\ LocalAddress /\ RouteOwners
  BY DEF IInv
<1> USE DEF InService, Serving, Registering, Cleaning, Idle
<1>1. ASSUME NEW s \in Sessions, Authenticate(s)
      PROVE  Lease!Next \/ UNCHANGED Lease!vars
  <2>1. CASE Goto(s, "auth", "read")
    <3>1. s \notin Served /\ Served' = Served \cup {s}
      BY <1>0, <2>1 DEF Goto, Served, TypeOK
    <3>2. UNCHANGED <<AddressOwner, told>>
      BY <1>1 DEF Authenticate, registry, AddressOwner
    <3>q. QED
      BY <3>1, <3>2 DEF Lease!Next, Lease!Open
  <2>2. CASE Goto(s, "auth", "sessClose")
    BY <1>0, <1>1, <2>2, Stutters DEF Goto, Authenticate, registry, TypeOK
  <2>q. QED
    BY <1>1, <2>1, <2>2 DEF Authenticate
<1>2. ASSUME NEW s \in Sessions, CommitHTTP(s) PROVE Lease!Next
  <2>1. Served' = Served /\ s \in Served /\ told' = told
    BY <1>0, <1>2 DEF CommitHTTP, Served, TypeOK
  <2>2. /\ addr[s] \in Addresses /\ AddressOwner[addr[s]] = None
        /\ AddressOwner' = [AddressOwner EXCEPT ![addr[s]] = s]
    <3>1. addr[s] \in Names /\ httpBySub[addr[s]] = None
      BY <1>0, <1>2 DEF CommitHTTP, LocalAddress
    <3>2. httpBySub' = [httpBySub EXCEPT ![addr[s]] = s] /\ tcpByPort' = tcpByPort
      BY <1>2 DEF CommitHTTP
    <3>3. DOMAIN httpBySub = Names /\ DOMAIN tcpByPort = Ports
      BY <1>0 DEF TypeOK
    <3>q. QED
      BY <3>1, <3>2, <3>3 DEF AddressOwner, Addresses
  <2>q. QED
    BY <2>1, <2>2 DEF Lease!Next, Lease!Take
<1>3. ASSUME NEW s \in Sessions, NEW p \in Ports, CommitTCP(s, p)
      PROVE  Lease!Next
  <2>1. Served' = Served /\ s \in Served /\ told' = told
    BY <1>0, <1>3 DEF CommitTCP, Served, TypeOK
  <2>2. /\ p \in Addresses /\ AddressOwner[p] = None
        /\ AddressOwner' = [AddressOwner EXCEPT ![p] = s]
    <3>1. p \notin Names /\ tcpByPort[p] = None
      BY <1>3, Kinds DEF CommitTCP, AllocPort
    <3>2. tcpByPort' = [tcpByPort EXCEPT ![p] = s] /\ httpBySub' = httpBySub
      BY <1>3 DEF CommitTCP
    <3>3. DOMAIN httpBySub = Names /\ DOMAIN tcpByPort = Ports
      BY <1>0 DEF TypeOK
    <3>q. QED
      BY <3>1, <3>2, <3>3 DEF AddressOwner, Addresses
  <2>q. QED
    BY <2>1, <2>2 DEF Lease!Next, Lease!Take
<1>4. ASSUME NEW s \in Sessions, Undo(s)
      PROVE  Lease!Next \/ UNCHANGED Lease!vars
  <2>1. Served' = Served /\ s \in Served /\ told' = told
    BY <1>0, <1>4 DEF Undo, Goto, Served, TypeOK
  <2>2. CASE addr[s] = None
    <3>1. UNCHANGED <<httpBySub, tcpByPort>>
      BY <1>0, <1>4, <2>2, Kinds DEF Undo, TypeOK
    <3>q. QED
      BY <2>1, <3>1 DEF AddressOwner, Lease!vars
  <2>3. CASE addr[s] # None
    <3>1. /\ addr[s] \in Ports /\ addr[s] \notin Names
          /\ tcpByPort[addr[s]] = s /\ addr[s] \notin told[s]
      BY <1>0, <1>4, <2>3, Kinds DEF Undo, Goto, LocalAddress
    <3>2. AddressOwner[addr[s]] = s /\ addr[s] \in Addresses
      BY <3>1 DEF AddressOwner, Addresses
    <3>3. AddressOwner' = [AddressOwner EXCEPT ![addr[s]] = None]
      BY <1>0, <1>4, <3>1 DEF Undo, AddressOwner, Addresses, TypeOK
    <3>q. QED
      BY <2>1, <3>1, <3>2, <3>3 DEF Lease!Next, Lease!GiveBack
  <2>q. QED
    BY <2>2, <2>3
<1>5. ASSUME NEW s \in Sessions, Reply(s)
      PROVE  Lease!Next \/ UNCHANGED Lease!vars
  <2>1. Served' = Served /\ s \in Served /\ AddressOwner' = AddressOwner
    BY <1>0, <1>5 DEF Reply, Goto, Served, AddressOwner, registry, TypeOK
  <2>2. CASE told' = told
    BY <2>1, <2>2 DEF Lease!vars
  <2>3. CASE told' # told
    <3>1. /\ addr[s] # None
          /\ told' = [told EXCEPT ![s] = @ \cup {addr[s]}]
      <4>1. told' = [told EXCEPT ![s] = @ \cup ({addr[s]} \ {None})]
        BY <1>5, <2>3 DEF Reply
      <4>2. addr[s] # None
        <5> SUFFICES ASSUME addr[s] = None PROVE FALSE
          OBVIOUS
        <5>1. told' = [told EXCEPT ![s] = told[s]]
          BY <4>1
        <5>q. QED
          BY <1>0, <2>3, <5>1 DEF TypeOK
      <4>3. {addr[s]} \ {None} = {addr[s]}
        BY <4>2
      <4>q. QED
        BY <4>1, <4>2, <4>3
    <3>2. addr[s] \in Addresses /\ AddressOwner[addr[s]] = s
      BY <1>0, <1>5, <3>1, Kinds
      DEF Reply, Goto, LocalAddress, AddressOwner, Addresses, TypeOK
    <3>q. QED
      BY <2>1, <3>1, <3>2 DEF Lease!Next, Lease!Promise
  <2>q. QED
    BY <2>2, <2>3
<1>6. ASSUME NEW s \in Sessions, RemoveSession(s) PROVE Lease!Next
  <2>1. s \in Served /\ Served' = Served \ {s}
    BY <1>0, <1>6 DEF RemoveSession, Goto, Served, TypeOK
  <2>2. told' = [told EXCEPT ![s] = {}]
    BY <1>6 DEF RemoveSession
  <2>3. AddressOwner' = [a \in Addresses |->
                           IF AddressOwner[a] = s THEN None ELSE AddressOwner[a]]
    BY <1>0, <1>6 DEF RemoveSession, AddressOwner, Addresses, TypeOK
  <2>q. QED
    BY <2>1, <2>2, <2>3 DEF Lease!Next, Lease!Close
<1>7. ASSUME NEW s \in Sessions,
             \/ Connect(s) \/ Lock(s) \/ Resolve(s) \/ Saved(s)
             \/ CommitOther(s) \/ Refuse(s) \/ Listen(s) \/ Track(s) \/ HandleList(s) \/ Exit(s)
             \/ Unbind(s) \/ CloseSession(s) \/ Drop(s)
      PROVE  UNCHANGED Lease!vars
  <2>1. UNCHANGED <<httpBySub, tcpByPort, told>>
    BY <1>7 DEF Connect, Lock, Resolve, Saved, CommitOther, Refuse, Listen,
       Track, HandleList, Exit, Unbind, CloseSession, Drop, registry
  <2>2. \A t \in Sessions : pc'[t] \in InService <=> pc[t] \in InService
    BY <1>0, <1>7 DEF Connect, Lock, Resolve, Saved, CommitOther, Refuse,
       Listen, Track, HandleList, Exit, Unbind, CloseSession, Drop, Goto, TypeOK
  <2>q. QED
    BY <2>1, <2>2, Stutters
<1>8. ASSUME NEW s \in Sessions, NEW n \in Names,
             HandleClaim(s, n) \/ HandleUnclaim(s, n)
      PROVE  UNCHANGED Lease!vars
  BY <1>0, <1>8, Stutters
  DEF HandleClaim, HandleUnclaim, Goto, TypeOK, registry
<1>9. ASSUME NEW s \in Sessions, NEW p \in Ports, CloseTCP(s, p)
      PROVE  UNCHANGED Lease!vars
  BY <1>0, <1>9, CloseTCPMoves, Stutters DEF CloseTCP, TypeOK, registry
<1>10. ASSUME Shutdown \/ (\E p \in Ports : ForeignSocket(p)) \/ UNCHANGED vars
       PROVE  UNCHANGED Lease!vars
  <2>1. UNCHANGED <<httpBySub, tcpByPort, told, pc>>
    BY <1>10 DEF Shutdown, Cancel, SwapListeners, CloseDoomed,
       ForeignSocket, vars, registry
  <2>q. QED
    BY <2>1, Stutters
<1>11. ASSUME NEW s \in Sessions, NEW r \in Requests, Receive(s, r)
       PROVE  UNCHANGED Lease!vars
  BY <1>0, <1>11, Stutters DEF Receive, Goto, TypeOK, registry
<1>q. QED
  BY <1>1, <1>2, <1>3, <1>4, <1>5, <1>6, <1>7, <1>8, <1>9, <1>10, <1>11
  DEF Next, Step, Serve, Environment

\* The control plane implements the lease contract, for every set of sessions,
\* names, ports and requests.
THEOREM ImplementsLease == Spec => LeaseSpec
<1>1. Init => Lease!Init
  BY LeaseInit
<1>2. IInv /\ [Next]_vars => [Lease!Next]_(Lease!vars)
  BY LeaseStep
<1>q. QED
  BY <1>1, <1>2, Inductive, PTL DEF Spec, LeaseSpec, Lease!Spec
=============================================================================
