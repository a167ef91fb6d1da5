---------------------------- MODULE Agent_proofs ----------------------------
(***************************************************************************)
(* Proofs that an agent which serves has every tunnel of its list, and     *)
(* that it leaves no connection behind, for a list of any length, any      *)
(* number of connections and any number of failures.                       *)
(***************************************************************************)
EXTENDS Agent, TLAPS

\* An initial segment of the list tells how long it is, and grows by one.
LEMMA SegmentFacts ==
    /\ \A j, k \in Nat : 1 .. j = 1 .. k => j = k
    /\ \A k \in Nat : (1 .. k) \cup {k + 1} = 1 .. (k + 1)
    /\ 1 .. 0 = {}
<1>1. ASSUME NEW j \in Nat, NEW k \in Nat, 1 .. j = 1 .. k PROVE j = k
  <2>1. j > k => j \in 1 .. j /\ j \notin 1 .. k
    OBVIOUS
  <2>2. k > j => k \in 1 .. k /\ k \notin 1 .. j
    OBVIOUS
  <2>. QED
    BY <1>1, <2>1, <2>2
<1>2. ASSUME NEW k \in Nat PROVE (1 .. k) \cup {k + 1} = 1 .. (k + 1)
  OBVIOUS
<1>. QED
  BY <1>1, <1>2

\* The server's next request of a connection is for the next of the list.
LEMMA AskedIsNext ==
    ASSUME NEW c \in Conns, NEW k \in 0 .. N - 1, promised[c] = 1 .. k
    PROVE  Asked(c) = k + 1 /\ Asked(c) \in Tunnels
<1>1. k + 1 \in Tunnels /\ promised[c] = 1 .. (k + 1) - 1
  BY AgentAssumption DEF Tunnels
<1>2. ASSUME NEW i \in Tunnels, promised[c] = 1 .. i - 1 PROVE i = k + 1
  BY <1>2, SegmentFacts, AgentAssumption DEF Tunnels
<1>. QED
  BY <1>1, <1>2 DEF Asked

\* A step keeps the types.
LEMMA TypeStep == IInv /\ [Next]_vars => TypeOK'
<1>. SUFFICES ASSUME IInv, [Next]_vars PROVE TypeOK'
  OBVIOUS
<1>a. TypeOK /\ Held
  BY DEF IInv
<1>b. 1 \in 1 .. N + 1 /\ (pc = "await" => next + 1 \in 1 .. N + 1)
  BY AgentAssumption DEF IInv, TypeOK, Turn
<1>. USE AgentAssumption, ConnAssumption DEF TypeOK, Held, minBackoff,
    maxBackoff, wires, server, agent, Holding, Had
<1>1. CASE Dial
  BY <1>a, <1>b, <1>1 DEF Dial, Read
<1>2. CASE OpenControl
  BY <1>a, <1>b, <1>2 DEF OpenControl, Send
<1>3. CASE FailOpen
  BY <1>a, <1>b, <1>3 DEF FailOpen, Hangup, Read
<1>4. CASE Welcome
  BY <1>a, <1>b, <1>4 DEF Welcome, Read
<1>5. CASE FailAuth
  BY <1>a, <1>b, <1>5 DEF FailAuth, Hangup, Read
<1>6. CASE Register
  BY <1>a, <1>b, <1>6 DEF Register, Send
<1>7. CASE Receive
  BY <1>a, <1>b, <1>7 DEF Receive, Read
<1>8. CASE Notice
  BY <1>a, <1>b, <1>8 DEF Notice
<1>9. CASE Close
  BY <1>a, <1>b, <1>9 DEF Close, Hangup, Read
<1>10. CASE Lost
  BY <1>a, <1>b, <1>10 DEF Lost
<1>11. CASE Wait
  BY <1>a, <1>b, <1>11 DEF Wait
<1>12. CASE Cancel
  BY <1>a, <1>b, <1>12 DEF Cancel
<1>13. ASSUME NEW c \in Conns, ServeAuth(c) PROVE TypeOK'
  BY <1>a, <1>b, <1>13 DEF ServeAuth, Answer, Server!Open
<1>14. ASSUME NEW c \in Conns, ServeReject(c) PROVE TypeOK'
  BY <1>a, <1>b, <1>14 DEF ServeReject, Answer
<1>15. ASSUME NEW c \in Conns, ServeTake(c) PROVE TypeOK'
  <2>1. PICK k \in 0 .. N - 1 :
           /\ promised[c] = 1 .. k
           /\ Asked(c) = k + 1 /\ Asked(c) \in Tunnels
    BY <1>15, AskedIsNext DEF ServeTake, Server!Take, IInv, Promises
  <2>. QED
    BY <1>a, <1>15, <2>1 DEF ServeTake, Server!Take
<1>16. ASSUME NEW c \in Conns, ServeGrant(c) PROVE TypeOK'
  <2>1. PICK k \in 0 .. N - 1 :
           /\ promised[c] = 1 .. k
           /\ Asked(c) = k + 1 /\ Asked(c) \in Tunnels
    BY <1>16, AskedIsNext DEF ServeGrant, Answer, Server!Promise, IInv, Promises
  <2>. QED
    BY <1>a, <1>16, <2>1 DEF ServeGrant, Answer, Server!Promise
<1>17. ASSUME NEW c \in Conns, ServeRefuse(c) PROVE TypeOK'
  <2>1. PICK k \in 0 .. N - 1 :
           /\ promised[c] = 1 .. k
           /\ Asked(c) = k + 1 /\ Asked(c) \in Tunnels
    BY <1>17, AskedIsNext DEF ServeRefuse, Answer, IInv, Promises
  <2>. QED
    BY <1>a, <1>17, <2>1 DEF ServeRefuse, Answer
<1>18. ASSUME NEW c \in Conns, ServeFail(c) PROVE TypeOK'
  <2>1. PICK k \in 0 .. N - 1 :
           /\ promised[c] = 1 .. k
           /\ Asked(c) = k + 1 /\ Asked(c) \in Tunnels
    BY <1>18, AskedIsNext DEF ServeFail, Answer, Server!GiveBack, IInv, Promises
  <2>. QED
    BY <1>a, <1>18, <2>1 DEF ServeFail, Answer, Server!GiveBack
<1>19. ASSUME NEW c \in Conns, ServeExit(c) PROVE TypeOK'
  BY <1>a, <1>b, <1>19 DEF ServeExit, Server!Close
<1>20. ASSUME NEW c \in Conns, Cut(c) PROVE TypeOK'
  BY <1>a, <1>b, <1>20 DEF Cut
<1>21. CASE Restart
  BY <1>a, <1>b, <1>21 DEF Restart
<1>22. CASE UNCHANGED vars
  BY <1>a, <1>b, <1>22 DEF vars
<1>. QED
  BY <1>1, <1>2, <1>3, <1>4, <1>5, <1>6, <1>7, <1>8, <1>9, <1>10, <1>11,
     <1>12, <1>13, <1>14, <1>15, <1>16, <1>17, <1>18, <1>19, <1>20, <1>21,
     <1>22 DEF Next, AgentStep, ServerStep

\* A step that leaves serveOnce has closed the connection.
LEMMA HeldStep == IInv /\ [Next]_vars => (Held /\ NoConnectionLeft)'
<1>. SUFFICES ASSUME IInv, [Next]_vars PROVE (Held /\ NoConnectionLeft)'
  OBVIOUS
<1>. USE AgentAssumption, ConnAssumption DEF IInv, TypeOK, Held,
    NoConnectionLeft, wires, server, agent, Holding, Had
<1>1. CASE Dial
  BY <1>1 DEF Dial, Read
<1>2. CASE OpenControl
  BY <1>2 DEF OpenControl, Send
<1>3. CASE FailOpen
  BY <1>3 DEF FailOpen, Hangup, Read
<1>4. CASE Welcome
  BY <1>4 DEF Welcome, Read
<1>5. CASE FailAuth
  BY <1>5 DEF FailAuth, Hangup, Read
<1>6. CASE Register
  BY <1>6 DEF Register, Send
<1>7. CASE Receive
  BY <1>7 DEF Receive, Read
<1>8. CASE Notice
  BY <1>8 DEF Notice
<1>9. CASE Close
  BY <1>9 DEF Close, Hangup, Read
<1>10. CASE Lost
  BY <1>10 DEF Lost
<1>11. CASE Wait
  BY <1>11 DEF Wait
<1>12. CASE Cancel
  BY <1>12 DEF Cancel
<1>13. ASSUME NEW c \in Conns, ServeAuth(c) PROVE (Held /\ NoConnectionLeft)'
  BY <1>13 DEF ServeAuth, Answer, Server!Open
<1>14. ASSUME NEW c \in Conns, ServeReject(c) PROVE (Held /\ NoConnectionLeft)'
  BY <1>14 DEF ServeReject, Answer
<1>15. ASSUME NEW c \in Conns, ServeTake(c) PROVE (Held /\ NoConnectionLeft)'
  BY <1>15 DEF ServeTake, Server!Take
<1>16. ASSUME NEW c \in Conns, ServeGrant(c) PROVE (Held /\ NoConnectionLeft)'
  BY <1>16 DEF ServeGrant, Answer, Server!Promise
<1>17. ASSUME NEW c \in Conns, ServeRefuse(c) PROVE (Held /\ NoConnectionLeft)'
  BY <1>17 DEF ServeRefuse, Answer
<1>18. ASSUME NEW c \in Conns, ServeFail(c) PROVE (Held /\ NoConnectionLeft)'
  BY <1>18 DEF ServeFail, Answer, Server!GiveBack
<1>19. ASSUME NEW c \in Conns, ServeExit(c) PROVE (Held /\ NoConnectionLeft)'
  BY <1>19 DEF ServeExit, Server!Close
<1>20. ASSUME NEW c \in Conns, Cut(c) PROVE (Held /\ NoConnectionLeft)'
  BY <1>20 DEF Cut
<1>21. CASE Restart
  BY <1>21 DEF Restart
<1>22. CASE UNCHANGED vars
  BY <1>22 DEF vars
<1>. QED
  BY <1>1, <1>2, <1>3, <1>4, <1>5, <1>6, <1>7, <1>8, <1>9, <1>10, <1>11,
     <1>12, <1>13, <1>14, <1>15, <1>16, <1>17, <1>18, <1>19, <1>20, <1>21,
     <1>22 DEF Next, AgentStep, ServerStep

\* The server keeps its promises, made in list order.
LEMMA PromisesStep == IInv /\ [Next]_vars => Promises'
<1>. SUFFICES ASSUME IInv, [Next]_vars PROVE Promises'
  OBVIOUS
<1>. USE AgentAssumption, ConnAssumption DEF IInv, TypeOK, Tunnels, Held,
    NoConnectionLeft, Promises, Turn, wires, server, agent, Holding, Had
<1>1. CASE Dial
  BY <1>1, SegmentFacts DEF Dial, Read
<1>2. CASE OpenControl
  BY <1>2, SegmentFacts DEF OpenControl, Send
<1>3. CASE FailOpen
  BY <1>3, SegmentFacts DEF FailOpen, Hangup, Read
<1>4. CASE Welcome
  BY <1>4, SegmentFacts DEF Welcome, Read
<1>5. CASE FailAuth
  BY <1>5, SegmentFacts DEF FailAuth, Hangup, Read
<1>6. CASE Register
  BY <1>6, SegmentFacts DEF Register, Send
<1>7. CASE Receive
  BY <1>7, SegmentFacts DEF Receive, Read
<1>8. CASE Notice
  BY <1>8, SegmentFacts DEF Notice
<1>9. CASE Close
  BY <1>9, SegmentFacts DEF Close, Hangup, Read
<1>10. CASE Lost
  BY <1>10, SegmentFacts DEF Lost
<1>11. CASE Wait
  BY <1>11, SegmentFacts DEF Wait
<1>12. CASE Cancel
  BY <1>12, SegmentFacts DEF Cancel
<1>13. ASSUME NEW c \in Conns, ServeAuth(c) PROVE Promises'
  BY <1>13, SegmentFacts DEF ServeAuth, Answer, Server!Open
<1>14. ASSUME NEW c \in Conns, ServeReject(c) PROVE Promises'
  BY <1>14, SegmentFacts DEF ServeReject, Answer
<1>15. ASSUME NEW c \in Conns, ServeTake(c) PROVE Promises'
  <2>1. PICK k \in 0 .. N - 1 :
           /\ promised[c] = 1 .. k
           /\ Asked(c) = k + 1 /\ Asked(c) \in Tunnels
    BY <1>15, AskedIsNext DEF ServeTake, Server!Take, IInv, Promises
  <2>. QED
    BY <1>15, <2>1, SegmentFacts DEF ServeTake, Server!Take
<1>16. ASSUME NEW c \in Conns, ServeGrant(c) PROVE Promises'
  <2>1. PICK k \in 0 .. N - 1 : promised[c] = 1 .. k /\ Asked(c) = k + 1
    BY <1>16, AskedIsNext DEF ServeGrant, Answer, Server!Promise
  <2>2. k + 1 \in 0 .. N /\ promised'[c] = 1 .. (k + 1) /\ inbox'[c] = "none"
    BY <1>16, <2>1, SegmentFacts DEF ServeGrant, Answer, Server!Promise
  <2>3. \A x \in Conns : x # c => promised'[x] = promised[x] /\ inbox'[x] = inbox[x]
    BY <1>16 DEF ServeGrant, Answer, Server!Promise
  <2>4. owner[k + 1] = c
    BY <1>16, <2>1 DEF ServeGrant, Answer, Server!Promise
  <2>5. owner' = owner /\ open' = open /\ c \in open
    BY <1>16 DEF ServeGrant, Answer, Server!Promise
  <2>6. \A i \in promised'[c] : i \in promised[c] \/ i = k + 1
    BY <2>1, <2>2
  <2>7. ASSUME NEW x \in Conns, x # c
        PROVE  /\ x \notin open' => promised'[x] = {}
               /\ \A i \in promised'[x] : owner'[i] = x
               /\ \E j \in 0 .. N :
                     promised'[x] = 1 .. j /\ (inbox'[x] = "register" => j < N)
    BY <2>3, <2>5, <2>7
  <2>8. \A i \in promised'[c] : owner'[i] = c
    BY <2>4, <2>5, <2>6
  <2>9. \E j \in 0 .. N : promised'[c] = 1 .. j /\ (inbox'[c] = "register" => j < N)
    BY <2>2
  <2>. QED
    BY <2>5, <2>7, <2>8, <2>9
<1>17. ASSUME NEW c \in Conns, ServeRefuse(c) PROVE Promises'
  <2>1. PICK k \in 0 .. N - 1 :
           /\ promised[c] = 1 .. k
           /\ Asked(c) = k + 1 /\ Asked(c) \in Tunnels
    BY <1>17, AskedIsNext DEF ServeRefuse, Answer, IInv, Promises
  <2>. QED
    BY <1>17, <2>1, SegmentFacts DEF ServeRefuse, Answer
<1>18. ASSUME NEW c \in Conns, ServeFail(c) PROVE Promises'
  <2>1. PICK k \in 0 .. N - 1 :
           /\ promised[c] = 1 .. k
           /\ Asked(c) = k + 1 /\ Asked(c) \in Tunnels
    BY <1>18, AskedIsNext DEF ServeFail, Answer, Server!GiveBack, IInv, Promises
  <2>. QED
    BY <1>18, <2>1, SegmentFacts DEF ServeFail, Answer, Server!GiveBack
<1>19. ASSUME NEW c \in Conns, ServeExit(c) PROVE Promises'
  <2>1. inbox'[c] = "none" /\ \A x \in Conns : x # c => inbox'[x] = inbox[x]
    BY <1>19 DEF ServeExit, Server!Close
  <2>2. CASE Server!Close(c)
    <3>1. promised'[c] = 1 .. 0 /\ promised'[c] = {} /\ 0 \in 0 .. N
      BY <2>2, SegmentFacts DEF Server!Close
    <3>2. ASSUME NEW x \in Conns, x # c
          PROVE  /\ promised'[x] = promised[x] /\ (x \in open' <=> x \in open)
                 /\ \A i \in promised[x] : owner'[i] = x
      BY <2>2, <3>2 DEF Server!Close
    <3>. QED
      BY <2>1, <3>1, <3>2
  <2>3. CASE UNCHANGED server
    BY <2>1, <2>3
  <2>. QED
    BY <1>19, <2>2, <2>3 DEF ServeExit
<1>20. ASSUME NEW c \in Conns, Cut(c) PROVE Promises'
  BY <1>20, SegmentFacts DEF Cut
<1>21. CASE Restart
  <2>1. 0 \in 0 .. N /\ 1 .. 0 = {}
    OBVIOUS
  <2>. QED
    BY <1>21, <2>1 DEF Restart
<1>22. CASE UNCHANGED vars
  BY <1>22, SegmentFacts DEF vars
<1>. QED
  BY <1>1, <1>2, <1>3, <1>4, <1>5, <1>6, <1>7, <1>8, <1>9, <1>10, <1>11,
     <1>12, <1>13, <1>14, <1>15, <1>16, <1>17, <1>18, <1>19, <1>20, <1>21,
     <1>22 DEF Next, AgentStep, ServerStep

\* Request and reply take turns.
LEMMA TurnStep == IInv /\ [Next]_vars => Turn'
<1>. SUFFICES ASSUME IInv, [Next]_vars PROVE Turn'
  OBVIOUS
<1>. USE AgentAssumption, ConnAssumption DEF IInv, TypeOK, Tunnels, Held,
    NoConnectionLeft, Promises, Turn, wires, server, agent, Holding, Had
<1>1. CASE Dial
  BY <1>1, SegmentFacts DEF Dial, Read
<1>2. CASE OpenControl
  BY <1>2, SegmentFacts DEF OpenControl, Send
<1>3. CASE FailOpen
  BY <1>3, SegmentFacts DEF FailOpen, Hangup, Read
<1>4. CASE Welcome
  BY <1>4, SegmentFacts DEF Welcome, Read
<1>5. CASE FailAuth
  BY <1>5, SegmentFacts DEF FailAuth, Hangup, Read
<1>6. CASE Register
  BY <1>6, SegmentFacts DEF Register, Send
<1>7. CASE Receive
  BY <1>7, SegmentFacts DEF Receive, Read
<1>8. CASE Notice
  BY <1>8, SegmentFacts DEF Notice
<1>9. CASE Close
  BY <1>9, SegmentFacts DEF Close, Hangup, Read
<1>10. CASE Lost
  BY <1>10, SegmentFacts DEF Lost
<1>11. CASE Wait
  BY <1>11, SegmentFacts DEF Wait
<1>12. CASE Cancel
  BY <1>12, SegmentFacts DEF Cancel
<1>13. ASSUME NEW c \in Conns, ServeAuth(c) PROVE Turn'
  BY <1>13, SegmentFacts DEF ServeAuth, Answer, Server!Open
<1>14. ASSUME NEW c \in Conns, ServeReject(c) PROVE Turn'
  BY <1>14, SegmentFacts DEF ServeReject, Answer
<1>15. ASSUME NEW c \in Conns, ServeTake(c) PROVE Turn'
  <2>1. PICK k \in 0 .. N - 1 :
           /\ promised[c] = 1 .. k
           /\ Asked(c) = k + 1 /\ Asked(c) \in Tunnels
    BY <1>15, AskedIsNext DEF ServeTake, Server!Take, IInv, Promises
  <2>. QED
    BY <1>15, <2>1, SegmentFacts DEF ServeTake, Server!Take
<1>16. ASSUME NEW c \in Conns, ServeGrant(c) PROVE Turn'
  <2>1. PICK k \in 0 .. N - 1 : promised[c] = 1 .. k /\ Asked(c) = k + 1
    BY <1>16, AskedIsNext DEF ServeGrant, Answer, Server!Promise
  <2>2. CASE c # conn
    BY <1>16, <2>2 DEF ServeGrant, Answer, Server!Promise
  <2>3. CASE c = conn
    <3>1. inbox'[conn] = "none" /\ promised'[conn] = 1 .. (k + 1)
      BY <1>16, <2>1, <2>3, SegmentFacts DEF ServeGrant, Answer, Server!Promise
    <3>2. pc \notin {"connect", "auth", "register", "serve"}
      BY <1>16, <2>3 DEF ServeGrant, Answer, Server!Promise
    <3>3. conn \in alive /\ pc = "await" => k = next - 1 /\ outbox'[conn] = "ok"
      BY <1>16, <2>1, <2>3, SegmentFacts DEF ServeGrant, Answer, Server!Promise
    <3>4. conn \notin alive /\ pc = "await" => outbox'[conn] = "none"
      BY <1>16, <2>3 DEF ServeGrant, Answer, Server!Promise
    <3>5. /\ UNCHANGED <<pc, next, conn, alive, open>>
          /\ conn \in open
      BY <1>16, <2>3 DEF ServeGrant, Answer, Server!Promise
    <3>. QED
      BY <3>1, <3>2, <3>3, <3>4, <3>5
  <2>. QED
    BY <2>2, <2>3
<1>17. ASSUME NEW c \in Conns, ServeRefuse(c) PROVE Turn'
  <2>1. PICK k \in 0 .. N - 1 :
           /\ promised[c] = 1 .. k
           /\ Asked(c) = k + 1 /\ Asked(c) \in Tunnels
    BY <1>17, AskedIsNext DEF ServeRefuse, Answer, IInv, Promises
  <2>. QED
    BY <1>17, <2>1, SegmentFacts DEF ServeRefuse, Answer
<1>18. ASSUME NEW c \in Conns, ServeFail(c) PROVE Turn'
  <2>1. PICK k \in 0 .. N - 1 :
           /\ promised[c] = 1 .. k
           /\ Asked(c) = k + 1 /\ Asked(c) \in Tunnels
    BY <1>18, AskedIsNext DEF ServeFail, Answer, Server!GiveBack, IInv, Promises
  <2>. QED
    BY <1>18, <2>1, SegmentFacts DEF ServeFail, Answer, Server!GiveBack
<1>19. ASSUME NEW c \in Conns, ServeExit(c) PROVE Turn'
  BY <1>19, SegmentFacts DEF ServeExit, Server!Close
<1>20. ASSUME NEW c \in Conns, Cut(c) PROVE Turn'
  BY <1>20, SegmentFacts DEF Cut
<1>21. CASE Restart
  BY <1>21, SegmentFacts DEF Restart
<1>22. CASE UNCHANGED vars
  BY <1>22, SegmentFacts DEF vars
<1>. QED
  BY <1>1, <1>2, <1>3, <1>4, <1>5, <1>6, <1>7, <1>8, <1>9, <1>10, <1>11,
     <1>12, <1>13, <1>14, <1>15, <1>16, <1>17, <1>18, <1>19, <1>20, <1>21,
     <1>22 DEF Next, AgentStep, ServerStep

\* The agent and the server agree on what was promised, in every reachable
\* state (serveOnce, connectOverConn, request).
LEMMA Invariance == Spec => []IInv
<1>1. Init => IInv
  <2>1. 0 \in 0 .. N /\ 1 .. 0 = {} /\ 1 \in 1 .. N + 1
    BY AgentAssumption
  <2>2. Init => TypeOK
    <3>1. 0 \in 0 .. MaxCuts /\ 0 \in 0 .. MaxRefusals /\ 1 \in minBackoff .. maxBackoff
      BY AgentAssumption DEF minBackoff, maxBackoff
    <3>. QED
      BY <2>1, <3>1 DEF Init, Server!Init, TypeOK, minBackoff
  <2>3. Init => Held /\ NoConnectionLeft /\ Turn
    BY ConnAssumption DEF Init, Held, Holding, NoConnectionLeft, Turn
  <2>4. Init => Promises
    BY <2>1 DEF Init, Server!Init, Promises
  <2>. QED
    BY <2>2, <2>3, <2>4 DEF IInv
<1>2. IInv /\ [Next]_vars => IInv'
  <2>. SUFFICES ASSUME IInv, [Next]_vars PROVE IInv'
    OBVIOUS
  <2>. QED
    BY TypeStep, HeldStep, PromisesStep, TurnStep DEF IInv
<1>. QED
  BY <1>1, <1>2, PTL DEF Spec

\* Every reachable state is well typed; in particular no run of failures takes
\* the wait past maxBackoff (serveWithRetry).
THEOREM TypeCorrect == Spec => []TypeOK
<1>1. IInv => TypeOK
  BY DEF IInv
<1>. QED
  BY <1>1, Invariance, PTL

\* The agent holds the only connection there is: every way out of serveOnce and
\* of connectOverConn closes what was dialled.
THEOREM EveryConnectionIsClosed == Spec => []NoConnectionLeft
<1>1. IInv => NoConnectionLeft
  BY DEF IInv
<1>. QED
  BY <1>1, Invariance, PTL

\* An agent that serves over a working connection has every tunnel of its list,
\* however long the list is (serveOnce).
THEOREM AllOrNothing == Spec => []ServingMeansAll
<1>1. IInv => ServingMeansAll
  BY AgentAssumption
  DEF IInv, TypeOK, Held, Holding, Turn, Had, Promises, ServingMeansAll, Tunnels
<1>. QED
  BY <1>1, Invariance, PTL
=============================================================================
