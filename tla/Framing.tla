------------------------------- MODULE Framing -------------------------------
(***************************************************************************)
(* Requests and replies on the control stream: length-prefixed frames      *)
(* (internal/protocol/protocol.go), the goroutines of a client that share  *)
(* the stream under a mutex (request in internal/client/client.go), and    *)
(* the server's loop (serveControl in internal/server/server.go).          *)
(*                                                                         *)
(* A frame is written in two pieces and arrives in any pieces, and nothing *)
(* in it says whose it is.  A byte is the message it was written for and   *)
(* its place in the frame, so that a frame put together from bytes of two  *)
(* messages, or out of place, shows.                                       *)
(***************************************************************************)
EXTENDS Naturals, Sequences, SequencesExt

CONSTANTS
    Callers,    \* goroutines that call request
    MaxCalls,   \* bound: how often each one does
    Prefix,     \* bytes of a length (4 in the code)
    Body,       \* bytes of an encoded message
    None, Error

Server == "server"
Requests == [from: Callers, call: 1 .. MaxCalls, reply: {FALSE}]
Messages == Requests \cup [from: Callers, call: 1 .. MaxCalls, reply: {TRUE}]
Bytes == Messages \X (1 .. Prefix + Body)

ASSUME SizeAssumption == Prefix \in Nat \ {0} /\ Body \in Nat \ {0}
ASSUME CallerAssumption ==
    /\ MaxCalls \in Nat
    /\ Server \notin Callers /\ None \notin Callers
    /\ None # Error /\ {None, Error} \cap Messages = {}

VARIABLES
    mu,         \* who holds Client.mu
    pc,         \* where each caller is in request, and the server in its loop
    calls,      \* how many requests a caller has begun
    buf,        \* what ReadFull has collected of the frame being read
    toServer, toClient,     \* bytes in flight
    broken,     \* the connection has failed
    closed,     \* the server's goroutine is gone, and the session with it
    answer,     \* what a caller's last request returned
    sent, handled           \* history: requests begun, requests handled

streams == <<toServer, toClient, broken, closed>>
vars == <<mu, pc, calls, buf, streams, answer, sent, handled>>

Readers == Callers \cup {Server}

TypeOK ==
    /\ mu \in Callers \cup {None}
    /\ pc \in [Readers -> {"idle", "lock", "prefix", "body", "read", "gone"}]
    /\ calls \in [Callers -> 0 .. MaxCalls]
    /\ buf \in [Readers -> Seq(Bytes)]
    /\ \A x \in Readers : Len(buf[x]) <= Prefix + Body
    /\ toServer \in Seq(Bytes) /\ Len(toServer) <= Prefix + Body
    /\ toClient \in Seq(Bytes) /\ Len(toClient) <= Prefix + Body
    /\ broken \in BOOLEAN /\ closed \in BOOLEAN
    /\ answer \in [Callers -> Messages \cup {None, Error}]
    /\ sent \in Seq(Requests) /\ handled \in Seq(Requests)

Init ==
    /\ mu = None
    /\ pc = [x \in Readers |-> IF x = Server THEN "read" ELSE "idle"]
    /\ calls = [c \in Callers |-> 0]
    /\ buf = [x \in Readers |-> <<>>]
    /\ toServer = <<>> /\ toClient = <<>>
    /\ broken = FALSE /\ closed = FALSE
    /\ answer = [c \in Callers |-> None]
    /\ sent = <<>> /\ handled = <<>>

-----------------------------------------------------------------------------
(* Frames. *)

Down == broken \/ closed
Goto(x, from, to) == pc[x] = from /\ pc' = [pc EXCEPT ![x] = to]

\* writeFrame writes the length and then the body.
Frame(m) == [i \in 1 .. Prefix + Body |-> <<m, i>>]
Piece(m, place) == IF place = "prefix" THEN SubSeq(Frame(m), 1, Prefix)
                                       ELSE SubSeq(Frame(m), Prefix + 1, Prefix + Body)

\* Slip: Read instead of io.ReadFull, and whatever it returns is the frame.
CompleteAtOnce(b) == b # <<>>

\* readFrame is done.
Complete(b) == Len(b) = Prefix + Body

\* ReadFull asks for the rest of the length, or of the body, and no more.
Wanted(b) == (IF Len(b) < Prefix THEN Prefix ELSE Prefix + Body) - Len(b)

\* One Read of ReadFull: any part of what has arrived and is wanted.
Read(x, stream, rest) ==
    /\ pc[x] = "read" /\ ~Complete(buf[x])
    /\ \E n \in 1 .. Wanted(buf[x]) :
          /\ n <= Len(stream)
          /\ buf' = [buf EXCEPT ![x] = @ \o SubSeq(stream, 1, n)]
          /\ rest = SubSeq(stream, n + 1, Len(stream))

\* ReadMessage decodes a frame that is the frame of some message.  The kinds of
\* messages are not told apart, nor are the errors of an envelope or a body
\* that does not parse and of a kind that is not known.
Decoded(b) == IF \E m \in Messages : b = Frame(m) THEN b[1][1] ELSE Error

-----------------------------------------------------------------------------
(* request, called by Register, Claim, Unclaim and ListTunnels. *)

Current(c) == [from |-> c, call |-> calls[c], reply |-> FALSE]

Call(c) ==
    /\ Goto(c, "idle", "lock")
    /\ calls[c] < MaxCalls
    /\ calls' = [calls EXCEPT ![c] = @ + 1]
    /\ answer' = [answer EXCEPT ![c] = None]
    /\ UNCHANGED <<mu, buf, streams, sent, handled>>

\* Slip: the mutex guards the writes only.
LockForWrite(c) ==
    /\ Goto(c, "lock", "prefix")
    /\ \A d \in Callers : pc[d] \notin {"prefix", "body"}
    /\ mu' = c
    /\ sent' = Append(sent, Current(c))
    /\ UNCHANGED <<calls, buf, streams, answer, handled>>

Lock(c) ==
    /\ Goto(c, "lock", "prefix")
    /\ mu = None
    /\ mu' = c
    /\ sent' = Append(sent, Current(c))
    /\ UNCHANGED <<calls, buf, streams, answer, handled>>

Write(c) ==
    /\ Goto(c, "prefix", "body") \/ Goto(c, "body", "read")
    /\ ~Down
    /\ toServer' = toServer \o Piece(Current(c), pc[c])
    /\ UNCHANGED <<mu, calls, buf, toClient, broken, closed, answer, sent,
                   handled>>

Receive(c) ==
    /\ Read(c, toClient, toClient')
    /\ UNCHANGED <<mu, pc, calls, toServer, broken, closed, answer, sent, handled>>

\* The deferred Unlock.
Return(c, result) ==
    /\ pc' = [pc EXCEPT ![c] = "idle"]
    /\ mu' = None
    /\ buf' = [buf EXCEPT ![c] = <<>>]
    /\ answer' = [answer EXCEPT ![c] = result]
    /\ UNCHANGED <<calls, streams, sent, handled>>

Finish(c) ==
    /\ pc[c] = "read" /\ Complete(buf[c])
    /\ Return(c, Decoded(buf[c]))

\* A write fails, or a read at the end of what has arrived.
Failing(x, stream) ==
    /\ Down
    /\ \/ pc[x] \in {"prefix", "body"}
       \/ pc[x] = "read" /\ stream = <<>> /\ ~Complete(buf[x])

\* Slip: an error return that keeps the mutex.
FailLocked(c) ==
    /\ Failing(c, toClient)
    /\ pc' = [pc EXCEPT ![c] = "idle"]
    /\ answer' = [answer EXCEPT ![c] = Error]
    /\ UNCHANGED <<mu, buf, calls, streams, sent, handled>>

Fail(c) ==
    /\ Failing(c, toClient)
    /\ Return(c, Error)

-----------------------------------------------------------------------------
(* serveControl. *)

ServerReceive ==
    /\ Read(Server, toServer, toServer')
    /\ UNCHANGED <<mu, pc, calls, toClient, broken, closed, answer, sent, handled>>

\* Slip: the buffer keeps the message, and the next turn finds it again.
HandleAgain ==
    /\ Complete(buf[Server]) /\ Decoded(buf[Server]) # Error
    /\ Goto(Server, "read", "prefix")
    /\ handled' = Append(handled, Decoded(buf[Server]))
    /\ UNCHANGED <<mu, calls, buf, streams, answer, sent>>

\* Slip: a message that needs no answer gets none.
HandleUnanswered ==
    /\ Complete(buf[Server]) /\ Decoded(buf[Server]) # Error
    /\ Goto(Server, "read", "read")
    /\ handled' = Append(handled, Decoded(buf[Server]))
    /\ buf' = [buf EXCEPT ![Server] = <<>>]
    /\ UNCHANGED <<mu, calls, streams, answer, sent>>

\* A message is handled and its reply is ready to be written.
Handle ==
    /\ Complete(buf[Server]) /\ Decoded(buf[Server]) # Error
    /\ Goto(Server, "read", "prefix")
    /\ handled' = Append(handled, Decoded(buf[Server]))
    /\ buf' = [buf EXCEPT ![Server] = <<>>]
    /\ UNCHANGED <<mu, calls, streams, answer, sent>>

ReplyTo(m) == [from |-> m.from, call |-> m.call, reply |-> TRUE]

Reply ==
    /\ Goto(Server, "prefix", "body") \/ Goto(Server, "body", "read")
    /\ ~Down
    /\ toClient' = toClient \o Piece(ReplyTo(Last(handled)), pc[Server])
    /\ UNCHANGED <<mu, calls, buf, toServer, broken, closed, answer, sent, handled>>

\* Any error ends the loop, and the deferred sess.Close the connection.
Leave ==
    /\ \/ pc[Server] = "read" /\ Complete(buf[Server]) /\ Decoded(buf[Server]) = Error
       \/ Failing(Server, toServer)
    /\ pc' = [pc EXCEPT ![Server] = "gone"]
    /\ closed' = TRUE
    /\ UNCHANGED <<mu, calls, buf, toServer, toClient, broken, answer, sent, handled>>

\* The connection breaks, and loses any part of what has not arrived.
Break ==
    /\ ~Down
    /\ broken' = TRUE
    /\ \E n \in 0 .. Len(toServer) : toServer' = SubSeq(toServer, 1, n)
    /\ \E n \in 0 .. Len(toClient) : toClient' = SubSeq(toClient, 1, n)
    /\ UNCHANGED <<mu, pc, calls, buf, closed, answer, sent, handled>>

-----------------------------------------------------------------------------

Request(c) == Lock(c) \/ Write(c) \/ Receive(c) \/ Finish(c) \/ Fail(c)
Serve == ServerReceive \/ Handle \/ Reply \/ Leave

Next == Serve \/ Break \/ \E c \in Callers : Call(c) \/ Request(c)

Spec == Init /\ [][Next]_vars

\* sync.Mutex starves no waiter, and bytes that are in flight arrive unless
\* the connection breaks.
FairSpec == Spec /\ WF_vars(Serve) /\ \A c \in Callers : SF_vars(Request(c))

-----------------------------------------------------------------------------
(* What must hold. *)

\* A request that returns a message returns the reply to itself, though
\* replies carry no id and callers share the stream (request).
OwnReply ==
    \A c \in Callers :
        pc[c] = "idle" => answer[c] \in {None, Error, ReplyTo(Current(c))}

\* The server handles each request once, in the order in which the callers got
\* the mutex (docs/protocol.md: "replies to each on the same stream, in
\* order"), and a reply means that the request was handled.
InOrder ==
    /\ IsPrefix(handled, sent) /\ IsInjective(handled)
    /\ \A c \in Callers :
          answer[c] \notin {None, Error} =>
              \E i \in DOMAIN handled : handled[i] = Current(c)

\* However the bytes arrive, no frame is ever mistaken: the server gives a
\* client up only when the connection has failed, and until then no request
\* returns an error (readFrame, writeFrame).
FramesHold == closed \/ (\E c \in Callers : answer[c] = Error) => broken

\* Whoever has a whole frame or a piece to write, or bytes to read.
CanMove(x, stream) ==
    \/ pc[x] \in {"prefix", "body"}
    \/ pc[x] = "read" /\ (Complete(buf[x]) \/ stream # <<>>)

\* The two ends never wait for each other: over a working connection the
\* caller that keeps the others waiting, or the server, has something to do
\* (request holds the mutex until it has a reply, and serveControl owes one to
\* every message that it reads).
NeverBothWait ==
    \A c \in Callers :
        mu = c /\ ~Down => CanMove(c, toClient) \/ CanMove(Server, toServer)

\* To the goroutines that share it the stream is a channel for remote calls.
RPC == INSTANCE RemoteCall WITH
          waiting <- {c \in Callers : pc[c] # "idle"},
          handled <- ToSet(handled)

\* Each call is handled at most once and answered by its own reply; only a
\* broken connection answers otherwise (request, serveControl).
RPCSpec == RPC!Spec

\* Every request returns, also when the connection breaks with other callers
\* waiting for the mutex.
RequestsReturn == \A c \in Callers : pc[c] = "lock" ~> pc[c] = "idle"

-----------------------------------------------------------------------------
(* The inductive invariant behind the others. *)

Whole == Prefix + Body
Holding == {"prefix", "body", "read"}

\* A request is made under the mutex, and the server's goroutine does not wait.
Turns ==
    /\ \A c \in Callers : pc[c] # "gone" /\ (mu = c <=> pc[c] \in Holding)
    /\ pc[Server] \in Holding \cup {"gone"}
    /\ pc[Server] = "gone" <=> closed
    /\ closed => broken

\* No request is written before its time, or twice.
Asked == \A c \in Callers : pc[c] # "idle" => calls[c] > 0

NotAhead ==
    \A i \in DOMAIN sent :
        LET c == sent[i].from
        IN  sent[i].call < calls[c] \/ (sent[i].call = calls[c] /\ pc[c] # "lock")

Ascending ==
    \A i, j \in DOMAIN sent :
        i < j /\ sent[i].from = sent[j].from => sent[i].call < sent[j].call

HandledFirst ==
    /\ Len(handled) <= Len(sent)
    /\ \A i \in DOMAIN handled : handled[i] = sent[i]

Numbered == Asked /\ NotAhead /\ Ascending /\ HandledFirst

\* What was read, and then what is to come, are the first bytes of m's frame.
Carries(b, stream, m) ==
    /\ Len(b) + Len(stream) <= Whole
    /\ \A i \in DOMAIN b : b[i] = <<m, i>>
    /\ \A i \in DOMAIN stream : stream[i] = <<m, Len(b) + i>>

Upward == Len(buf[Server]) + Len(toServer)
Downward(c) == Len(buf[c]) + Len(toClient)

\* The server is being sent the first request it has not handled, which nobody
\* has had an answer to.
RequestUnderWay ==
    Upward > 0 =>
        /\ pc[Server] \in {"read", "gone"}
        /\ Len(handled) < Len(sent)
        /\ Carries(buf[Server], toServer, sent[Len(handled) + 1])
        /\ toClient = <<>>
        /\ \A c \in Callers :
              /\ buf[c] = <<>>
              /\ pc[c] # "idle" => Current(c) \notin ToSet(handled)

\* Only the caller that reads is being sent bytes: its own reply.
ReplyUnderWay ==
    /\ toClient # <<>> => \E c \in Callers : pc[c] = "read"
    /\ \A c \in Callers :
          /\ pc[c] # "read" => buf[c] = <<>>
          /\ pc[c] = "read" /\ Downward(c) > 0 =>
                /\ Len(handled) > 0 /\ Last(handled) = Current(c)
                /\ Carries(buf[c], toClient, ReplyTo(Current(c)))

\* How much of its frame one in this place has written.
Written(place) ==
    CASE place = "prefix" -> 0 [] place = "body" -> Prefix [] OTHER -> Whole

Requesting(c) ==
    /\ Len(sent) = Len(handled) + 1 /\ Last(sent) = Current(c)
    /\ pc[Server] = "read"
    /\ Upward = Written(pc[c]) /\ Downward(c) = 0

Replying(c) ==
    /\ pc[c] = "read"
    /\ Len(sent) = Len(handled) /\ Len(handled) > 0 /\ Last(handled) = Current(c)
    /\ Upward = 0 /\ Downward(c) = Written(pc[Server])

Quiet ==
    /\ Len(sent) = Len(handled)
    /\ pc[Server] = "read"
    /\ Upward = 0 /\ toClient = <<>>

\* While the connection works nothing is lost: every byte written is in flight
\* or was read.
NothingLost ==
    ~broken => /\ mu = None => Quiet
               /\ \A c \in Callers : mu = c => Requesting(c) \/ Replying(c)

\* What the requests returned.
Answered ==
    \A c \in Callers :
        \/ answer[c] = None
        \/ answer[c] = Error /\ broken /\ pc[c] = "idle"
        \/ /\ answer[c] = ReplyTo(Current(c)) /\ pc[c] = "idle"
           /\ Current(c) \in ToSet(handled)

IInv ==
    /\ TypeOK /\ Turns /\ Numbered /\ RequestUnderWay /\ ReplyUnderWay
    /\ NothingLost /\ Answered
=============================================================================
