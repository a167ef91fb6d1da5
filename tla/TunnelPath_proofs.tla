------------------------- MODULE TunnelPath_proofs -------------------------
(***************************************************************************)
(* Proofs that an end of file means that everything arrived, for every     *)
(* amount of data and every buffer size.                                   *)
(***************************************************************************)
EXTENDS TunnelPath, TLAPS

\* The two nodes mirror each other.
LEMMA PeerFacts ==
    /\ \A n \in Nodes : Peer(n) \in Nodes /\ Peer(n) # n /\ Peer(Peer(n)) = n
    /\ \A m, n \in Nodes : m = n \/ m = Peer(n)
BY DEF Nodes, Peer

\* A step keeps the types; what was received is bounded by what was sent.
LEMMA TypeStep == ASSUME IInv, [Next]_vars, NoSurplus' PROVE TypeOK'
<1> USE BoundAssumption
<1> TypeOK /\ NoSurplus
  BY DEF IInv
<1>1. CASE Accept
  <2>1. pc' \in [Nodes -> {"none", "open", "dial", "splice", "return",
                          "returned"}]
    BY <1>1 DEF Accept, TypeOK
  <2>2. conn' \in [Nodes -> {"none", "open", "reset", "closed"}]
    BY <1>1 DEF Accept, TypeOK
  <2>. QED
    BY <1>1, <2>1, <2>2 DEF Accept, tcp, yamux, apps, TypeOK, States
<1>2. CASE OpenStream
  BY <1>2, PeerFacts DEF OpenStream, StartSplice, All, tcp, yamux, apps,
     TypeOK, States
<1>3. CASE ReadHeader
  BY <1>3, PeerFacts DEF ReadHeader, Writable, tcp, yamux, apps, TypeOK, States
<1>4. CASE DialLocal
  <2>1. pc' \in [Nodes -> {"none", "open", "dial", "splice", "return",
                          "returned"}]
    BY <1>4 DEF DialLocal, StartSplice, TypeOK
  <2>2. conn' \in [Nodes -> {"none", "open", "reset", "closed"}]
    BY <1>4 DEF DialLocal, TypeOK
  <2>3. copying' \in [Nodes -> SUBSET {"up", "down"}]
    BY <1>4 DEF DialLocal, StartSplice, TypeOK
  <2>. QED
    BY <1>4, <2>1, <2>2, <2>3 DEF DialLocal, tcp, yamux, apps, TypeOK, States
<1>5. CASE Cut
  BY <1>5, PeerFacts DEF Cut, tcp, yamux, apps, TypeOK, States
<1>6. ASSUME NEW n \in Nodes, Return(n) PROVE TypeOK'
  BY <1>6, PeerFacts DEF Return, Close, StreamClosed, All, tcp, yamux, apps,
     TypeOK, States
<1>7. ASSUME NEW n \in Nodes, CopyUp(n) PROVE TypeOK'
  BY <1>7, PeerFacts DEF CopyUp, Writable, tcp, yamux, apps, TypeOK, States
<1>8. ASSUME NEW n \in Nodes, EndUp(n) PROVE TypeOK'
  BY <1>8, PeerFacts DEF EndUp, UpDone, StreamClosed, All, tcp, yamux, apps,
     TypeOK, States
<1>9. ASSUME NEW n \in Nodes, CopyDown(n) PROVE TypeOK'
  BY <1>9, PeerFacts DEF CopyDown, tcp, yamux, apps, TypeOK, States
<1>10. ASSUME NEW n \in Nodes, EndDown(n) PROVE TypeOK'
  BY <1>10, PeerFacts DEF EndDown, DownDone, tcp, yamux, apps, TypeOK, States
<1>11. ASSUME NEW n \in Nodes, CloseTimeout(n) PROVE TypeOK'
  BY <1>11, PeerFacts DEF CloseTimeout, tcp, yamux, apps, TypeOK, States
<1>12. ASSUME NEW n \in Nodes, Receive(n) PROVE TypeOK'
  <2>1. OnTheWay(Peer(n))' + got'[n] <= sent[Peer(n)]
    BY <1>12, PeerFacts DEF Receive, yamux, NoSurplus
  <2>2. OnTheWay(Peer(n))' \in Nat
    BY <1>12, PeerFacts DEF Receive, yamux, OnTheWay, TypeOK
  <2>3. got'[n] \in Nat /\ got'[n] <= MaxSend[Peer(n)]
    BY <1>12, <2>1, <2>2, PeerFacts DEF Receive, TypeOK
  <2>4. outbound' \in [Nodes -> 0 .. Window]
    BY <1>12 DEF Receive, TypeOK
  <2>5. got' \in [Nodes -> Nat] /\ \A m \in Nodes : got'[m] <= MaxSend[Peer(m)]
    BY <1>12, <2>3 DEF Receive, TypeOK
  <2>6. UNCHANGED <<pc, copying, conn, inbound, shut, stream, recvBuf,
  session, expired, app, sent, ended, fault>>
    BY <1>12 DEF Receive, yamux
  <2>. QED
    BY <2>4, <2>5, <2>6 DEF TypeOK
<1>13. ASSUME NEW n \in Nodes, SeeEnd(n) PROVE TypeOK'
  BY <1>13, PeerFacts DEF SeeEnd, tcp, yamux, apps, TypeOK, States
<1>14. ASSUME NEW n \in Nodes, Send(n) PROVE TypeOK'
  BY <1>14, PeerFacts DEF Send, tcp, yamux, apps, TypeOK, States
<1>15. ASSUME NEW n \in Nodes, Shut(n) PROVE TypeOK'
  BY <1>15, PeerFacts DEF Shut, tcp, yamux, apps, TypeOK, States
<1>16. ASSUME NEW n \in Nodes, Leave(n) PROVE TypeOK'
  <2>1. conn' \in [Nodes -> {"none", "open", "reset", "closed"}]
    BY <1>16 DEF Leave, TypeOK
  <2>2. fault' \in BOOLEAN
    BY <1>16 DEF Leave, TypeOK
  <2>. QED
    BY <1>16, <2>1, <2>2 DEF Leave, yamux, TypeOK, States
<1>17. CASE UNCHANGED vars
  BY <1>17 DEF vars, tcp, yamux, apps, tcp, yamux, apps, TypeOK, States
<1>18. QED
  BY <1>1, <1>2, <1>3, <1>4, <1>5, <1>6, <1>7, <1>8, <1>9, <1>10, <1>11,
     <1>12, <1>13, <1>14, <1>15, <1>16, <1>17 DEF Next, Server, Agent, UpStep,
     DownStep, Read, Nodes

\* No step makes up data.
LEMMA SurplusStep == ASSUME IInv, [Next]_vars PROVE NoSurplus'
<1> USE BoundAssumption
<1> TypeOK /\ NoSurplus
  BY DEF IInv
<1>1. CASE Accept
  BY <1>1, PeerFacts DEF Accept, tcp, yamux, apps, TypeOK, States, NoSurplus,
     OnTheWay
<1>2. CASE OpenStream
  BY <1>2, PeerFacts DEF OpenStream, StartSplice, All, tcp, yamux, apps,
     TypeOK, States, NoSurplus, OnTheWay
<1>3. CASE ReadHeader
  BY <1>3, PeerFacts DEF ReadHeader, Writable, tcp, yamux, apps, TypeOK,
     States, NoSurplus, OnTheWay
<1>4. CASE DialLocal
  BY <1>4, PeerFacts DEF DialLocal, StartSplice, tcp, yamux, apps, TypeOK,
     States, NoSurplus, OnTheWay
<1>5. CASE Cut
  BY <1>5, PeerFacts DEF Cut, tcp, yamux, apps, TypeOK, States, NoSurplus,
     OnTheWay
<1>6. ASSUME NEW n \in Nodes, Return(n) PROVE NoSurplus'
  BY <1>6, PeerFacts DEF Return, Close, StreamClosed, All, tcp, yamux, apps,
     TypeOK, States, NoSurplus, OnTheWay
<1>7. ASSUME NEW n \in Nodes, CopyUp(n) PROVE NoSurplus'
  BY <1>7, PeerFacts DEF CopyUp, Writable, tcp, yamux, apps, TypeOK, States,
     NoSurplus, OnTheWay
<1>8. ASSUME NEW n \in Nodes, EndUp(n) PROVE NoSurplus'
  BY <1>8, PeerFacts DEF EndUp, UpDone, StreamClosed, All, tcp, yamux, apps,
     TypeOK, States, NoSurplus, OnTheWay
<1>9. ASSUME NEW n \in Nodes, CopyDown(n) PROVE NoSurplus'
  BY <1>9, PeerFacts DEF CopyDown, tcp, yamux, apps, TypeOK, States,
     NoSurplus, OnTheWay
<1>10. ASSUME NEW n \in Nodes, EndDown(n) PROVE NoSurplus'
  BY <1>10, PeerFacts DEF EndDown, DownDone, tcp, yamux, apps, TypeOK, States,
     NoSurplus, OnTheWay
<1>11. ASSUME NEW n \in Nodes, CloseTimeout(n) PROVE NoSurplus'
  BY <1>11, PeerFacts DEF CloseTimeout, tcp, yamux, apps, TypeOK, States,
     NoSurplus, OnTheWay
<1>12. ASSUME NEW n \in Nodes, Receive(n) PROVE NoSurplus'
  BY <1>12, PeerFacts DEF Receive, tcp, yamux, apps, TypeOK, States,
     NoSurplus, OnTheWay
<1>13. ASSUME NEW n \in Nodes, SeeEnd(n) PROVE NoSurplus'
  BY <1>13, PeerFacts DEF SeeEnd, tcp, yamux, apps, TypeOK, States, NoSurplus,
     OnTheWay
<1>14. ASSUME NEW n \in Nodes, Send(n) PROVE NoSurplus'
  BY <1>14, PeerFacts DEF Send, tcp, yamux, apps, TypeOK, States, NoSurplus,
     OnTheWay
<1>15. ASSUME NEW n \in Nodes, Shut(n) PROVE NoSurplus'
  BY <1>15, PeerFacts DEF Shut, tcp, yamux, apps, TypeOK, States, NoSurplus,
     OnTheWay
<1>16. ASSUME NEW n \in Nodes, Leave(n) PROVE NoSurplus'
  BY <1>16, PeerFacts DEF Leave, tcp, yamux, apps, TypeOK, States, NoSurplus,
     OnTheWay
<1>17. CASE UNCHANGED vars
  BY <1>17 DEF vars, tcp, yamux, apps, tcp, yamux, apps, TypeOK, States,
     NoSurplus, OnTheWay
<1>18. QED
  BY <1>1, <1>2, <1>3, <1>4, <1>5, <1>6, <1>7, <1>8, <1>9, <1>10, <1>11,
     <1>12, <1>13, <1>14, <1>15, <1>16, <1>17 DEF Next, Server, Agent, UpStep,
     DownStep, Read, Nodes

\* As long as nothing breaks, a step keeps each node where its two directions are.
LEMMA IntactStep == ASSUME IInv, [Next]_vars PROVE Intact'
<1> USE BoundAssumption
<1> TypeOK /\ Intact
  BY DEF IInv
<1>1. CASE Accept
  BY <1>1, PeerFacts DEF Accept, tcp, yamux, apps, TypeOK, States, Intact,
     Stage, Splicing, OnTheWay, Writable
<1>2. CASE OpenStream
  <2>. SUFFICES ASSUME ~fault', ~expired' PROVE
         /\ session'
         /\ \A m \in Nodes : Stage(m)'
         /\ \A m \in Nodes : OnTheWay(m)' + got'[Peer(m)] = sent'[m]
    BY DEF Intact
  <2>1. session /\ \A m \in Nodes : Stage(m) /\ OnTheWay(m) + got[Peer(m)] = sent[m]
    BY <1>2 DEF OpenStream, StartSplice, All, Intact, tcp, yamux, apps
  <2>2. session'
    BY <1>2, <2>1 DEF OpenStream, StartSplice, All, tcp, yamux, apps
  <2>3. ASSUME NEW m \in Nodes PROVE Stage(m)'
    <3>1. /\ stream["server"] = "none" /\ pc["server"] = "open"
          /\ pc["agent"] \in {"none", "open"}
      BY <1>2, <2>1 DEF OpenStream, Stage, Nodes, Peer
    <3>2. /\ pc' = [pc EXCEPT !["server"] = "splice"]
          /\ copying' = [copying EXCEPT !["server"] = {"up", "down"}]
          /\ stream' = [k \in Nodes |-> "established"]
      BY <1>2, <2>1 DEF OpenStream, StartSplice, All
    <3>3. /\ Stage(m)
          /\ m = "server" \/ (m = "agent" /\ pc[m] \in {"none", "open"})
      BY <2>1, <3>1 DEF Nodes
    <3>4. UNCHANGED <<conn, inbound, outbound, shut, recvBuf, app, ended>>
      BY <1>2 DEF OpenStream, tcp, apps
    <3>. QED
      BY <3>1, <3>2, <3>3, <3>4, PeerFacts DEF TypeOK, Stage, Splicing
  <2>4. ASSUME NEW m \in Nodes PROVE OnTheWay(m)' + got'[Peer(m)] = sent'[m]
    BY <1>2, <2>1, PeerFacts DEF OpenStream, StartSplice, All, tcp, yamux,
       apps, TypeOK, Stage, OnTheWay
  <2>. QED
    BY <2>2, <2>3, <2>4
<1>3. CASE ReadHeader
  <2>. SUFFICES ASSUME ~fault', ~expired' PROVE
         /\ session'
         /\ \A m \in Nodes : Stage(m)'
         /\ \A m \in Nodes : OnTheWay(m)' + got'[Peer(m)] = sent'[m]
    BY DEF Intact
  <2>1. session /\ \A m \in Nodes : Stage(m) /\ OnTheWay(m) + got[Peer(m)] = sent[m]
    BY <1>3 DEF ReadHeader, Intact, tcp, yamux, apps
  <2>2. session'
    BY <1>3, <2>1 DEF ReadHeader, tcp, yamux, apps
  <2>3. ASSUME NEW m \in Nodes PROVE Stage(m)'
    BY <1>3, <2>1, PeerFacts DEF ReadHeader, tcp, yamux, apps, TypeOK, States,
       Writable, Stage, Splicing
  <2>4. ASSUME NEW m \in Nodes PROVE OnTheWay(m)' + got'[Peer(m)] = sent'[m]
    BY <1>3, <2>1, PeerFacts DEF ReadHeader, tcp, yamux, apps, TypeOK, Stage,
       OnTheWay
  <2>. QED
    BY <2>2, <2>3, <2>4
<1>4. CASE DialLocal
  BY <1>4, PeerFacts DEF DialLocal, StartSplice, tcp, yamux, apps, TypeOK,
     States, Intact, Stage, Splicing, OnTheWay, Writable
<1>5. CASE Cut
  BY <1>5, PeerFacts DEF Cut, tcp, yamux, apps, TypeOK, States, Intact, Stage,
     Splicing, OnTheWay, Writable
<1>6. ASSUME NEW n \in Nodes, Return(n) PROVE Intact'
  <2>. SUFFICES ASSUME ~fault', ~expired' PROVE
         /\ session'
         /\ \A m \in Nodes : Stage(m)'
         /\ \A m \in Nodes : OnTheWay(m)' + got'[Peer(m)] = sent'[m]
    BY DEF Intact
  <2>1. session /\ \A m \in Nodes : Stage(m) /\ OnTheWay(m) + got[Peer(m)] = sent[m]
    BY <1>6 DEF Return, Close, Intact
  <2>2. /\ pc[n] = "splice" /\ copying[n] = {}
        /\ stream[n] = "closed" /\ inbound[n] = 0 /\ recvBuf[n] = 0
    BY <1>6, <2>1 DEF Return, Stage, Splicing
  <2>3. StreamClosed(n) = stream
    BY <2>2 DEF StreamClosed
  <2>4. /\ pc' = [pc EXCEPT ![n] = "returned"]
        /\ conn' = [conn EXCEPT ![n] = IF conn[n] # "open" THEN conn[n]
                       ELSE IF inbound[n] > 0 THEN "reset" ELSE "closed"]
        /\ shut' = [shut EXCEPT ![n] = conn[n] = "open" \/ shut[n]]
        /\ stream' = stream /\ copying' = copying /\ inbound' = inbound
        /\ outbound' = outbound /\ recvBuf' = recvBuf /\ session' = session
        /\ app' = app /\ ended' = ended /\ sent' = sent /\ got' = got
    BY <1>6, <2>2, <2>3 DEF Return, Close, apps
  <2>5. ASSUME NEW m \in Nodes PROVE Stage(m)'
    <3>. Stage(m) /\ Stage(n)
      BY <2>1
    <3>1. CASE m = n
      <4>1. /\ pc'[n] = "returned" /\ shut'[n] \in BOOLEAN
            /\ shut'[n] => Splicing(n) /\ "down" \notin copying[n]
            /\ conn'[n] # "reset" /\ (shut[n] => shut'[n])
        BY <2>2, <2>4 DEF TypeOK, Stage, Splicing
      <4>. QED
        BY <2>2, <2>4, <3>1, <4>1 DEF Stage, Splicing
    <3>2. CASE m # n
      <4>1. pc'[m] = pc[m] /\ conn'[m] = conn[m] /\ shut'[m] = shut[m]
        BY <2>4, <3>2 DEF TypeOK
      <4>. QED
        BY <2>4, <4>1 DEF Stage, Splicing
    <3>. QED
      BY <3>1, <3>2
  <2>6. ASSUME NEW m \in Nodes PROVE OnTheWay(m)' + got'[Peer(m)] = sent'[m]
    BY <2>1, <2>4 DEF OnTheWay
  <2>. QED
    BY <2>1, <2>4, <2>5, <2>6
<1>7. ASSUME NEW n \in Nodes, CopyUp(n) PROVE Intact'
  <2>. SUFFICES ASSUME ~fault', ~expired' PROVE
         /\ session'
         /\ \A m \in Nodes : Stage(m)'
         /\ \A m \in Nodes : OnTheWay(m)' + got'[Peer(m)] = sent'[m]
    BY DEF Intact
  <2>1. session /\ \A m \in Nodes : Stage(m) /\ OnTheWay(m) + got[Peer(m)] = sent[m]
    BY <1>7 DEF CopyUp, Intact, tcp, yamux, apps
  <2>2. session'
    BY <1>7, <2>1 DEF CopyUp, tcp, yamux, apps
  <2>3. ASSUME NEW m \in Nodes PROVE Stage(m)'
    BY <1>7, <2>1, PeerFacts DEF CopyUp, tcp, yamux, apps, TypeOK, States,
       Writable, Stage, Splicing
  <2>4. ASSUME NEW m \in Nodes PROVE OnTheWay(m)' + got'[Peer(m)] = sent'[m]
    <3>1. OnTheWay(m) + got[Peer(m)] = sent[m]
      BY <2>1
    <3>. QED
      BY <1>7, <3>1, PeerFacts DEF CopyUp, yamux, apps, TypeOK, OnTheWay
  <2>. QED
    BY <2>2, <2>3, <2>4
<1>8. ASSUME NEW n \in Nodes, EndUp(n) PROVE Intact'
  <2>. SUFFICES ASSUME ~fault', ~expired' PROVE
         /\ session'
         /\ \A m \in Nodes : Stage(m)'
         /\ \A m \in Nodes : OnTheWay(m)' + got'[Peer(m)] = sent'[m]
    BY DEF Intact
  <2>1. session /\ \A m \in Nodes : Stage(m) /\ OnTheWay(m) + got[Peer(m)] = sent[m]
    BY <1>8 DEF EndUp, UpDone, StreamClosed, All, Intact, tcp, yamux, apps
  <2>2. session'
    BY <1>8, <2>1 DEF EndUp, UpDone, StreamClosed, All, tcp, yamux, apps
  <2>3. ASSUME NEW m \in Nodes PROVE Stage(m)'
    BY <1>8, <2>1, PeerFacts DEF EndUp, UpDone, StreamClosed, All, tcp, yamux,
       apps, TypeOK, States, Writable, Stage, Splicing
  <2>4. ASSUME NEW m \in Nodes PROVE OnTheWay(m)' + got'[Peer(m)] = sent'[m]
    BY <1>8, <2>1, PeerFacts DEF EndUp, UpDone, StreamClosed, All, tcp, yamux,
       apps, TypeOK, Stage, OnTheWay
  <2>. QED
    BY <2>2, <2>3, <2>4
<1>9. ASSUME NEW n \in Nodes, CopyDown(n) PROVE Intact'
  <2>. SUFFICES ASSUME ~fault', ~expired' PROVE
         /\ session'
         /\ \A m \in Nodes : Stage(m)'
         /\ \A m \in Nodes : OnTheWay(m)' + got'[Peer(m)] = sent'[m]
    BY DEF Intact
  <2>1. session /\ \A m \in Nodes : Stage(m) /\ OnTheWay(m) + got[Peer(m)] = sent[m]
    BY <1>9 DEF CopyDown, Intact, tcp, yamux, apps
  <2>2. session'
    BY <1>9, <2>1 DEF CopyDown, tcp, yamux, apps
  <2>3. ASSUME NEW m \in Nodes PROVE Stage(m)'
    BY <1>9, <2>1, PeerFacts DEF CopyDown, tcp, yamux, apps, TypeOK, States,
       Writable, Stage, Splicing
  <2>4. ASSUME NEW m \in Nodes PROVE OnTheWay(m)' + got'[Peer(m)] = sent'[m]
    <3>1. OnTheWay(m) + got[Peer(m)] = sent[m]
      BY <2>1
    <3>2. app[n] # "gone"
      BY <1>9, <2>1 DEF CopyDown, Stage
    <3>3. CASE m = n
      BY <1>9, <3>1, <3>2, <3>3, PeerFacts DEF CopyDown, apps, TypeOK, OnTheWay
    <3>4. CASE m = Peer(n)
      BY <1>9, <3>1, <3>2, <3>4, PeerFacts DEF CopyDown, apps, TypeOK, OnTheWay
    <3>. QED
      BY <3>3, <3>4, PeerFacts
  <2>. QED
    BY <2>2, <2>3, <2>4
<1>10. ASSUME NEW n \in Nodes, EndDown(n) PROVE Intact'
  BY <1>10, PeerFacts DEF EndDown, DownDone, tcp, yamux, apps, TypeOK, States,
     Intact, Stage, Splicing, OnTheWay, Writable
<1>11. ASSUME NEW n \in Nodes, CloseTimeout(n) PROVE Intact'
  BY <1>11, PeerFacts DEF CloseTimeout, tcp, yamux, apps, TypeOK, States,
     Intact, Stage, Splicing, OnTheWay, Writable
<1>12. ASSUME NEW n \in Nodes, Receive(n) PROVE Intact'
  <2>1. ASSUME ~fault, ~expired, NEW m \in Nodes PROVE Stage(m)'
    BY <1>12, <2>1, PeerFacts DEF Receive, yamux, TypeOK, Intact, Stage,
       Splicing
  <2>2. ASSUME ~fault, ~expired, NEW m \in Nodes
        PROVE OnTheWay(m)' + got'[Peer(m)] = sent'[m]
    <3>1. OnTheWay(m) + got[Peer(m)] = sent[m]
      BY <2>2 DEF Intact
    <3>. QED
      BY <1>12, <3>1, PeerFacts DEF Receive, yamux, TypeOK, OnTheWay
  <2>. QED
    BY <1>12, <2>1, <2>2 DEF Receive, yamux, Intact
<1>13. ASSUME NEW n \in Nodes, SeeEnd(n) PROVE Intact'
  BY <1>13, PeerFacts DEF SeeEnd, tcp, yamux, apps, TypeOK, States, Intact,
     Stage, Splicing, OnTheWay, Writable
<1>14. ASSUME NEW n \in Nodes, Send(n) PROVE Intact'
  BY <1>14, PeerFacts DEF Send, tcp, yamux, apps, TypeOK, States, Intact,
     Stage, Splicing, OnTheWay, Writable
<1>15. ASSUME NEW n \in Nodes, Shut(n) PROVE Intact'
  BY <1>15, PeerFacts DEF Shut, tcp, yamux, apps, TypeOK, States, Intact,
     Stage, Splicing, OnTheWay, Writable
<1>16. ASSUME NEW n \in Nodes, Leave(n) PROVE Intact'
  BY <1>16, PeerFacts DEF Leave, tcp, yamux, apps, TypeOK, States, Intact,
     Stage, Splicing, OnTheWay, Writable
<1>17. CASE UNCHANGED vars
  BY <1>17 DEF vars, tcp, yamux, apps, tcp, yamux, apps, TypeOK, States,
     Intact, Stage, Splicing, OnTheWay, Writable
<1>18. QED
  BY <1>1, <1>2, <1>3, <1>4, <1>5, <1>6, <1>7, <1>8, <1>9, <1>10, <1>11,
     <1>12, <1>13, <1>14, <1>15, <1>16, <1>17 DEF Next, Server, Agent, UpStep,
     DownStep, Read, Nodes

\* No step writes to an app after the end of its connection.
LEMMA QuietStep == IInv /\ [Next]_vars => Quiet'
<1>. SUFFICES ASSUME IInv, [Next]_vars PROVE Quiet'
  OBVIOUS
<1>. USE DEF IInv, TypeOK, Quiet, Splicing, Nodes, tcp, yamux, apps
<1>1. CASE Accept
  BY <1>1 DEF Accept
<1>2. CASE OpenStream
  BY <1>2 DEF OpenStream, StartSplice, All
<1>3. CASE ReadHeader
  BY <1>3 DEF ReadHeader
<1>4. CASE DialLocal
  BY <1>4 DEF DialLocal, StartSplice
<1>5. CASE Cut
  BY <1>5 DEF Cut
<1>6. ASSUME NEW n \in Nodes, Return(n) PROVE Quiet'
  BY <1>6 DEF Return, Close
<1>7. ASSUME NEW n \in Nodes, CopyUp(n) PROVE Quiet'
  BY <1>7 DEF CopyUp
<1>8. ASSUME NEW n \in Nodes, EndUp(n) PROVE Quiet'
  BY <1>8 DEF EndUp, UpDone
<1>9. ASSUME NEW n \in Nodes, CopyDown(n) PROVE Quiet'
  BY <1>9 DEF CopyDown
<1>10. ASSUME NEW n \in Nodes, EndDown(n) PROVE Quiet'
  BY <1>10 DEF EndDown, DownDone
<1>11. ASSUME NEW n \in Nodes, CloseTimeout(n) PROVE Quiet'
  BY <1>11 DEF CloseTimeout
<1>12. ASSUME NEW n \in Nodes, Receive(n) PROVE Quiet'
  BY <1>12 DEF Receive
<1>13. ASSUME NEW n \in Nodes, SeeEnd(n) PROVE Quiet'
  BY <1>13 DEF SeeEnd
<1>14. ASSUME NEW n \in Nodes, Send(n) PROVE Quiet'
  BY <1>14 DEF Send
<1>15. ASSUME NEW n \in Nodes, Shut(n) PROVE Quiet'
  BY <1>15 DEF Shut
<1>16. ASSUME NEW n \in Nodes, Leave(n) PROVE Quiet'
  BY <1>16 DEF Leave
<1>17. CASE UNCHANGED vars
  BY <1>17 DEF vars
<1>. QED
  BY <1>1, <1>2, <1>3, <1>4, <1>5, <1>6, <1>7, <1>8, <1>9,
     <1>10, <1>11, <1>12, <1>13, <1>14, <1>15, <1>16,
     <1>17 DEF Next, Server, Agent, UpStep, DownStep, Read, Nodes

\* The four parts together: the bounds of TypeOK need NoSurplus.
LEMMA Invariance == Spec => []IInv
<1>1. Init => IInv
  <2>. SUFFICES ASSUME Init PROVE TypeOK /\ NoSurplus /\ Quiet /\ Intact
    BY DEF IInv
  <2>1. TypeOK
    <3>1. /\ inbound \in [Nodes -> 0 .. Window]
          /\ outbound \in [Nodes -> 0 .. Window]
          /\ recvBuf \in [Nodes -> 0 .. Window]
      BY BoundAssumption DEF Init, All
    <3>2. /\ sent \in [Nodes -> Nat] /\ \A n \in Nodes : sent[n] <= MaxSend[n]
          /\ got \in [Nodes -> Nat]
          /\ \A n \in Nodes : got[n] <= MaxSend[Peer(n)]
      BY BoundAssumption, PeerFacts DEF Init, All
    <3>. QED
      BY <3>1, <3>2 DEF Init, All, TypeOK, States
  <2>2. NoSurplus
    BY PeerFacts DEF Init, All, NoSurplus, OnTheWay
  <2>3. Quiet
    BY DEF Init, All, Quiet
  <2>4. Intact
    <3>1. ASSUME NEW n \in Nodes PROVE Stage(n)
      <4>1. /\ pc[n] = "none" /\ copying[n] = {} /\ conn[n] = "none"
            /\ stream[n] = "none" /\ stream[Peer(n)] = "none" /\ ~shut[n]
            /\ ~ended[n] /\ app[n] = "open"
        BY PeerFacts DEF Init, All
      <4>. QED
        BY <4>1 DEF Stage, Splicing
    <3>2. ASSUME NEW n \in Nodes PROVE OnTheWay(n) + got[Peer(n)] = sent[n]
      BY PeerFacts DEF Init, All, OnTheWay
    <3>. QED
      BY <3>1, <3>2 DEF Init, Intact
  <2>. QED
    BY <2>1, <2>2, <2>3, <2>4
<1>2. IInv /\ [Next]_vars => IInv'
  <2>. SUFFICES ASSUME IInv, [Next]_vars PROVE IInv'
    OBVIOUS
  <2>. QED
    BY SurplusStep, TypeStep, QuietStep, IntactStep DEF IInv
<1>. QED
  BY <1>1, <1>2, PTL DEF Spec

\* Every reachable state is well typed, and never more arrives than was sent:
\* the bound of got in TypeOK is what the far app sends.
THEOREM TypeCorrect == Spec => []TypeOK
<1>1. IInv => TypeOK
  BY DEF IInv
<1>. QED
  BY <1>1, Invariance, PTL

\* What a node is in when its app has read an end of file.
LEMMA EndMeansEverything == IInv => EOFMeansEverything
<1>. SUFFICES ASSUME IInv, ~fault, ~expired, NEW n \in Nodes, ended[n]
     PROVE got[n] = sent[Peer(n)] /\ app[Peer(n)] # "open"
  BY DEF EOFMeansEverything, Everything
<1>. DEFINE m == Peer(n)
<1>1. m \in Nodes /\ Peer(m) = n
  BY PeerFacts
<1>2. Stage(n) /\ Stage(m) /\ OnTheWay(m) + got[n] = sent[m]
  BY <1>1 DEF IInv, Intact
<1>3. /\ recvBuf[n] = 0 /\ outbound[n] = 0
      /\ stream[n] \in {"remoteClose", "closed"}
  BY <1>2 DEF Stage
<1>4. stream[m] \in {"localClose", "closed"}
  BY <1>1, <1>2, <1>3 DEF Stage
<1>5. inbound[m] = 0 /\ app[m] # "open"
  BY <1>2, <1>4 DEF Stage
<1>. QED
  BY <1>1, <1>2, <1>3, <1>5 DEF OnTheWay, IInv, TypeOK

\* An app that reads an end of file has received all there was, for every
\* amount of data and every size of the buffers (copyThenHalfClose, Splice).
THEOREM EndOfFileIsTrue == Spec => []EOFMeansEverything
BY EndMeansEverything, Invariance, PTL

\* The path through both splices and the stream implements a connection: what
\* the server, the agent and yamux do is nothing to the apps but their own
\* sends, receipts and ends (acceptTCP, handleStream, Splice).
THEOREM ImplementsDuplex == Spec => PathSpec
<1>1. Init => Path!Init
  BY DEF Init, All, Path!Init
<1>2. IInv' => EOFMeansEverything'
  BY EndMeansEverything, PTL
<1>3. IInv /\ IInv' /\ [Next]_vars => [Path!Next]_(Path!vars)
  <2>. SUFFICES ASSUME IInv, IInv', [Next]_vars PROVE [Path!Next]_(Path!vars)
    OBVIOUS
  <2>. USE DEF Path!vars, Path!Next, tcp, yamux, apps
  <2>1. CASE Accept
    BY <2>1 DEF Accept, Path!Fail
  <2>2. CASE OpenStream
    BY <2>2 DEF OpenStream
  <2>3. CASE ReadHeader
    BY <2>3 DEF ReadHeader
  <2>4. CASE DialLocal
    BY <2>4 DEF DialLocal, Path!Fail
  <2>5. CASE Cut
    BY <2>5 DEF Cut, Path!Fail
  <2>6. ASSUME NEW n \in Nodes, Return(n) PROVE UNCHANGED Path!vars
    BY <2>6 DEF Return, Close
  <2>7. ASSUME NEW n \in Nodes, UpStep(n) PROVE UNCHANGED Path!vars
    BY <2>7 DEF UpStep, CopyUp, EndUp
  <2>8. ASSUME NEW n \in Nodes, DownStep(n) PROVE UNCHANGED Path!vars
    BY <2>8 DEF DownStep, CopyDown, EndDown
  <2>9. ASSUME NEW n \in Nodes, CloseTimeout(n) PROVE Path!Fail
    BY <2>9 DEF CloseTimeout, Path!Fail
  <2>10. ASSUME NEW n \in Nodes, Receive(n) PROVE Path!Receive(n)
    <3>1. ~ended[n]
      BY <2>10 DEF Receive, IInv, TypeOK, Quiet
    <3>2. got[n] < sent[Peer(n)]
      BY <2>10, PeerFacts DEF Receive, IInv, TypeOK, NoSurplus, OnTheWay
    <3>. QED
      BY <2>10, <3>1, <3>2 DEF Receive, Path!Receive
  <2>11. ASSUME NEW n \in Nodes, SeeEnd(n) PROVE Path!SeeEnd(n)
    <3>1. ended'[n] /\ fault' = fault /\ expired' = expired
          /\ got' = got /\ sent' = sent /\ app' = app
      BY <2>11 DEF SeeEnd, IInv, TypeOK
    <3>2. fault \/ expired \/ (got[n] = sent[Peer(n)] /\ app[Peer(n)] # "open")
      BY <1>2, <3>1 DEF EOFMeansEverything, Everything
    <3>. QED
      BY <2>11, <3>2 DEF SeeEnd, Path!SeeEnd
  <2>12. ASSUME NEW n \in Nodes, Send(n) PROVE Path!Send(n)
    BY <2>12 DEF Send, Path!Send
  <2>13. ASSUME NEW n \in Nodes, Shut(n) PROVE Path!Shut(n)
    BY <2>13 DEF Shut, Path!Shut
  <2>14. ASSUME NEW n \in Nodes, Leave(n) PROVE Path!Leave(n)
    BY <2>14 DEF Leave, Path!Leave, IInv, TypeOK
  <2>15. CASE UNCHANGED vars
    BY <2>15 DEF vars
  <2>. QED
    BY <2>1, <2>2, <2>3, <2>4, <2>5, <2>6, <2>7, <2>8, <2>9, <2>10, <2>11,
       <2>12, <2>13, <2>14, <2>15 DEF Next, Server, Agent, Read, Nodes
<1>. QED
  BY <1>1, <1>3, Invariance, PTL DEF Spec, PathSpec, Path!Spec
=============================================================================
