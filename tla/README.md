# lotun in TLA+

lotun exposes services of a private machine through a public server. `lotund`
(the server) accepts one control connection per client, multiplexed with yamux;
clients register http tunnels (a subdomain) and tcp tunnels (a public port) on
it, and claim subdomains so that they keep them. `lotun serve` (the agent)
registers a list of tunnels and comes back when its connection is lost.

This directory holds TLA+ modules of the parts of lotun that run concurrently,
fail halfway or are restarted; TLC configurations that check them on small
instances; and proofs, checked by TLAPS, for every instance.

## The system

| Component | State | Operations | Why it is hard |
| --- | --- | --- | --- |
| Registry (`server/registry.go`) | `httpBySub`, `tcpByPort` under `Registry.mu` | `Register`, `Remove`, `RemoveSession`, lookups, `List` | asks the claims store under its mutex; frees a port before the port's listener is closed |
| Control plane (`server/server.go`) | one goroutine per connection; the shutdown goroutine of `Run`; `tcpListeners` under `tcpMu` | `handleControlConn`, `authenticate`, `serveControl`, `handleRegister`, `handleClaim`, `handleUnclaim`, `handleList`, `closeTCP`, `closeAllTCP`, `Run` | every pair of these interleaves between two mutexes and the kernel; registration can fail after it was recorded; shutdown runs beside live sessions |
| TCP listeners (`server/tcp.go`) | one `net.Listener` per tcp tunnel | `startTCPTunnel`, `acceptTCP`, `spliceTCP` | bound before tracked; a listen fails while an earlier owner's socket, or another program's, is open; each accepted connection outlives its listener |
| HTTP proxy (`server/http.go`) | a cache of reverse proxies by tunnel id | `ServeHTTP`, `proxyFor`, `openDataStream` | uses a tunnel after it was looked up; the cache is never emptied, and its transports keep idle streams of sessions that may be gone |
| Claim store (`store/store.go`) | a map under a mutex, and a JSON file | `Open`, `Claim`, `Release`, `IsClaimed`, `List`, `save` | five ways to fail between the change of the map and the rename; crashes |
| Names (`names/names.go`) | a random source | `Generate` | 900 names, drawn with repetition |
| Framing (`protocol/protocol.go`) | none | `WriteMessage`, `ReadMessage`, stream headers | frames over split reads |
| Splice (`netutil/splice.go`) | two copy loops | `Splice` | half-closing one direction while the other still flows |
| Client (`client/client.go`) | connection, session, control stream under a mutex | `Connect`, `Register`, `Claim`, `Unclaim`, `ListTunnels`, `Serve`, `Close` | requests and replies share a stream without ids |
| serve command (`cmd/lotun/commands.go`) | the retry loop and its backoff | `serveOnce`, `serveWithRetry` | comes back before the server has noticed that it was gone |
| Config, `lotun login`, `lotund` main | files | loading and saving | none at run time |

The components meet in six places. `handleRegister` calls the registry, and for
a tcp tunnel `startTCPTunnel`, and undoes the first when the second fails. The
registry calls the claims store with its own mutex held, and handlers call the
store without it. A connection's deferred cleanup takes the session's tunnels out
of the registry and then closes their listeners by port number, one by one,
while other handlers may already be given the same ports. The shutdown
goroutine closes everything tracked while all of this goes on. The http proxy
asks the registry who has a subdomain and uses the answer after the registry's
mutex is free. A public connection goes through two goroutines on two machines
that share a yamux stream, each of which ends when both its directions have.

What makes each part correct:

- registry: an address has one owner; a failed registration leaves nothing; a client
  that was answered keeps its address until it is gone; whoever waits for it gets it,
  though it waits for the claims store itself;
- listeners: an open socket is always known to somebody who will close it; a
  live tunnel's socket is never closed by another session; a goroutine that has
  ended left nothing behind;
- claim store: the file always parses; what a caller was answered survives
  failures and restarts; every call returns;
- http proxy: a request is answered by a tunnel that had its subdomain while the
  request was under way, with that tunnel's password if it is private; a session
  that is gone leaves no request and no stream behind;
- tunnel path: to the programs at both ends it is a connection: what is sent
  arrives, an end of file is true and arrives too, and nobody holds on to a
  program that has gone;
- framing: each request gets its own reply, requests are handled once and in
  order, the two ends never wait for each other, and every request returns;
- agent: what it serves is its whole list; it leaves no connection behind; it
  comes back when failures stop; a signal ends it.

## Modules

| Module | Models |
| --- | --- |
| `AddressLease` | the contract of the server with its clients: addresses are taken, promised, given back, and all closed in one step |
| `ControlPlane` | registry, control connections, tcp listeners, shutdown |
| `ControlPlane_proofs` | type correctness, the inductive invariant, the four safety invariants, proved |
| `ControlPlaneLease_proofs` | `ControlPlane` implements `AddressLease`, proved |
| `ClaimSet` | the contract of the claim store: a set of names that survives failures and deaths |
| `ClaimStore` | the store, its file, failing saves, process deaths |
| `ClaimStore_proofs` | its inductive invariant and its safety invariants, and that it implements `ClaimSet`, proved |
| `Agent` | the serve command against the lease contract over connections that break silently |
| `Agent_proofs` | its safety invariants, proved |
| `Duplex` | the contract of a tunnel with the programs at its ends: a connection |
| `TunnelPath` | one public tcp connection through the server, a yamux stream and the client |
| `TunnelPath_proofs` | its safety invariants, and that it implements `Duplex`, proved |
| `HttpProxy` | public http requests beside the registry (as `AddressLease`), the proxy cache and the transports' idle streams |
| `HttpProxy_proofs` | its safety invariants, proved |
| `RemoteCall` | the contract of a client's control stream with the goroutines that share it: remote calls |
| `Framing` | length-prefixed frames, `Client.request` under its mutex, the server's loop |
| `Framing_proofs` | its inductive invariant and its safety invariants, and that it implements `RemoteCall`, proved |
| `MC...` | values for TLC: model values, symmetry, sets of requests |

`ControlPlane` implements `AddressLease`; `Agent` and `HttpProxy` are built on
`AddressLease` and so on everything that implements it. `TunnelPath` begins where
`ControlPlane` has a listener and a session, `Framing` is what is inside the
`Receive` and `Reply` of `ControlPlane` and `Agent`, and `ClaimStore` what is inside its
`claims` while `storeMu` is held.

Operators whose comment starts with "Slip:" are plausible mistakes in the code
next to the definition they imitate. No specification uses them. Each one, put in
the place of that definition, makes TLC report a violated property, which is how
we know that the property says something.

### ControlPlane

A connection is a slot with a program counter `pc`. A step ends where the code
gives up a mutex, enters the kernel or writes to the client:

| Place (`pc`) | Code | Actions |
| --- | --- | --- |
| `none`, `auth` | `acceptControl`, `handleControlConn`, `authenticate` | `Connect`, `Authenticate` |
| `read` | `serveControl` | `Receive`, `HandleClaim`, `HandleUnclaim`, `HandleList`, `Exit` |
| `save` | `FileStore.Claim` and `Release`, holding `FileStore.mu` (`storeMu`) until the file is written | `Saved` |
| `lock`, `resolve`, `commit` | `Registry.Register`: waits for `Registry.mu` (`regMu`), then with it held for the claims store, and records the tunnel | `Lock`, `Resolve`, then `CommitHTTP`, `CommitTCP`, `CommitOther` or `Refuse` |
| `listen`, `track`, `undo` | `startTCPTunnel`; `Registry.Remove` when it fails | `Listen`, `Track`, `Undo` |
| `reply` | `WriteMessage` | `Reply` |
| `cleanup`, `close`, `unbind` | the deferred cleanup: `RemoveSession`, then `closeTCP` per port, in two steps around the unlock | `RemoveSession`, `CloseTCP`, `Unbind` |
| `sessClose` | deferred `sess.Close`, `conn.Close` | `CloseSession` |

`phase` and `doomed` are the shutdown goroutine (`Cancel`, `SwapListeners`,
`CloseDoomed`). `bound` is the kernel's table of listening
sockets. `told` is a history variable: the addresses a connection was answered
`Registered` for. `Drop` breaks a connection and `ForeignSocket` lets another
program take or leave a port. `Receive` may read any message of `Requests`; the
proofs need of that set only that its members are `Register` messages.

`DrawnNames` is what `freeName` can return: an unclaimed name without a route or, when
a thousand draws found none, any name. With all but one of the 900 names in use a
thousand draws miss the free one one time in three; `Unlucky` says whether that can
happen. `random_names` excludes it and `every_request` does not, nor do the proofs.
`allocPort` gives a request that names no port its local port if that is in the range
and free, and otherwise the lowest free one, see `local_port`.

Abstracted: a tunnel is its address and its owner (ids are random and 64 bits
wide); passwords, allowlists and urls are data of the data plane; a private tcp
tunnel without an allowlist is the flag `unlisted`. The claims store is the set
of names it reports (`claims`) and its mutex: `HandleClaim` and `HandleUnclaim`
change the set and keep the mutex until `Saved`, and all that happens in between, with
its failures and its file, is `ClaimStore`. Whoever registers during a save waits for
it with the registry's mutex held, so registrations, lookups and cleanups wait too.
A slot is used again only after its goroutine has returned.

### ClaimStore

One action for each step of `save`, each of which can fail (`Fail`). `Kill` is
the death of the process; `Open` the next start. `held` and `freed` are history
variables: what the last successful answers said about a name. A temporary file
that is left behind is never read, so it is forgotten.

`ClaimSet` says the same without a file and a mutex. Its `kept` is what `Open` would
find in the file, and its `pending` the change of the caller that is in `save`: at
most one, because `FileStore.mu` is held from the change to the rename. A change
becomes kept and answered in one step (`Keep`, the rename), or stays in memory only
(`GiveUp`, the code's failed save).

### Agent

`Dial` to `Wait` are `serveOnce` and `serveWithRetry`. `sockets` are the connections
that were dialled and not closed. The exits of `connectOverConn` (`FailOpen`, `FailAuth`)
close what was dialled on their own; once the client is there (`Welcome`) `serveOnce`
has deferred its `Close`. The server is
`AddressLease` with connections as clients, so what is checked here holds for
every server that keeps the contract, and `ControlPlane` is proved to. `Cut`
breaks a connection without telling either end: the client finds out when it
reads (`FailAuth`, `Notice`), the server when it does (`ServeExit`), in any order; what is
written to it meanwhile is lost. `ServeReject` is a server that was started with
another token for a time. A reply that is neither `AuthOK` nor `Error` is closed like an
`Error` and is not sent by this server.

### TunnelPath

The path is symmetric: a program, a TCP connection, a goroutine with its `Splice`,
one end of the stream; then the same mirrored. `Nodes` are the two goroutines
(`spliceTCP`, `handleStream`); `conn`, `inbound`, `outbound`, `app` belong to the
node's own side. `copying[n]` holds the directions its `Splice` is still in: `up`
from the program to the stream, `down` back. `EndUp` and `EndDown` are the ends of
`copyThenHalfClose`: a `CloseWrite` of the TCP connection, a `Close` of the stream.
`Return` is `wg.Wait` and the deferred closes. Data are counted in units, with one
unit of room in each buffer, so that every writer blocks at some time.

`stream[n]` follows the states of yamux v0.1.2 with its default configuration,
which both ends use: `Close` sends a FIN and keeps the other half, `CloseTimeout`
gives the stream up when no FIN has come in return for five minutes, `Cut` is the
loss of the session, after which every stream reads as ended and any part of what
was on its way is gone. FIN and RST take no time of their own, and both ends learn
of the loss at once. `fault` records that something
was refused, failed or left early, and `expired` a close timeout: the promises to
the programs are for the time before. A source that is not on the
allowlist is closed by the server (`Accept`), which its program reads as an end, or as a
reset if it had sent something; a local dial that fails ends the goroutine that made it,
and `EndArrives` says that the program at the other end still sees the end.

### HttpProxy

One action for each step of `ServeHTTP` that reads or writes shared state:
`Lookup` (under `Registry.mu`), `Authenticate`, `ProxyFor` (under the cache's `mu`),
then the transport: `Reuse` of an idle stream or `OpenStream`. `Respond` and
`Lose` are the two ways a request on a stream ends; a request that met a dead
idle stream is tried again, as net/http does. Note that a stream carries many
requests one after another (keep-alive), where docs/protocol.md:131 has one
stream for each request; the model follows the code.

A tunnel is the pair of its session and its subdomain, which stands for its
random id: a session is used once, and keeps a name until it is removed. `seen`
is a history variable: who had the subdomain since the request came.
`RemoveSession` and `CloseSession` are two steps, as in the deferred calls of
`handleControlConn`, and a connection can break (`Break`) long before either.

### Framing

A byte is its message and its place, so a frame put together from two messages
is seen. `Write` and `Reply` are the two writes of `writeFrame`; `Read` is any
short read of `io.ReadFull`; `Call` and `Lock` are `request` before and after
its mutex. `Break` loses any tail of what is in flight.

`RemoteCall` has none of these. `waiting` are the callers inside `request`, and
`handled` the messages the server's loop has handled. A call is handled at most
once, one call at a time is between its handling and its answer, and an error
promises nothing about it: the server may handle a call whose caller gave up, even
after the client has begun others, but never after a later call of the same caller.

## What is checked

Runs that pass:

| Run | Instance | Distinct states | Shows |
| --- | --- | --- | --- |
| `every_request` | 2 connections, 2 ports, 1 name, one message of each kind | 1.2 million, under symmetry | `TypeOK`, `NoOrphanListener`, `AnsweredPortsListen`, `RoutesMatchAnswers`, `NothingLeftBehind`, and the `IInv` of the proofs |
| `progress` | 2 connections, 1 port, 1 name | 74 thousand | `LeaseSpec`: the control plane implements `AddressLease`; `BrokenSessionsRelease`, `RegistrationsEnd` |
| `claim_store` | 2 callers, 2 names | 3.7 thousand | `FileParses`, `AnswersSurvive`, `MemoryAgrees`, `SavesWhatIsHeld`, `StoreSpec` (the store implements `ClaimSet`), `CallsReturn` |
| `agent` | 2 tunnels, 2 connections, 2 cuts, 1 refusal | 33 thousand | `ServingMeansAll`, `NoConnectionLeft`, `ServesAgain`, `CancelStops`, `StoppedReleases`, and in `TypeOK` the bounds of the backoff |
| `tunnel_path` | 2 units one way, 1 the other, buffers of 1 | 119 thousand | `EOFMeansEverything`, `PathSpec` (the path implements `Duplex`), `SentArrives`, `EndArrives`, `LetsGo` |
| `http_proxy` | 2 requests, 2 sessions, 1 of them private, 1 subdomain, 1 idle stream | 259 thousand | `RightTunnel`, `PasswordChecked`, `GoneIsQuiet` |
| `framing` | 2 goroutines with 2 requests, frames of 2 + 2 bytes | 5.5 thousand | `OwnReply`, `InOrder`, `FramesHold`, `NeverBothWait`, `RPCSpec` (the stream implements `RemoteCall`), `RequestsReturn` |

Runs that show a disagreement between the code and what its comments or docs
say:

| Run | What happens |
| --- | --- |
| `cross_close` | `closeTCP` closes by port number. Once shutdown has closed session A's listener and emptied the map, B can register A's port as soon as `RemoveSession` frees it, and A's cleanup closes B's listener. While the server runs this cannot happen: `AnsweredPortsListen` holds, because A's own socket keeps the port until `closeTCP` has removed it from the map |
| `random_names` | a name is drawn, another connection claims it, the name is recorded |
| `local_port` | a registration without a remote port has a local port outside the range (or taken) and gets the lowest free port. The docs say that it gets the local port's number (`docs/protocol.md:78`, `README.md:130`, `README.md:142`, `docs/guide.md:212`, `docs/DESIGN.md:32` and `:79`), `registry_test.go` expects the lowest free one; with the default range, `lotun tcp 9000` of the README's own steps is not reachable on 9000. An agent that comes back before its last session is cleaned up loses its port's number the same way |
| `failed_save` | a save fails and the map keeps the change |
| `reply_cut` | a program shuts its sending side and waits; the reply takes longer than yamux keeps a half-closed stream (`StreamCloseTimeout`), the far end is reset, and the program reads a clean end of file with the reply missing. Nothing else failed |

### Bounds

- Sessions: two connections give every pairwise race, and slots are used again
  without bound, so histories are of any length and a late cleanup meets owners
  that came long after. The theorems are for any number.
- Ports 1 and 2 with requests for port 1, for port 3 (out of range), for none
  with local port 2 (in range) and 8 (not): each branch of `allocPort` is
  taken. Port 0 is excluded by assumption.
- One name is enough for a claimed, an unclaimed, a taken and a random subdomain.
  `random_names` needs two, so that the random source has a choice.
- `MaxCuts` and `MaxRefusals` bound how often the agent's network fails, and how
  often the token or a free address is refused. The agent's own retries are not
  bounded, and a ghost of its last connection can refuse it any number of times, which is how the
  backoff reaches its cap.

- `MaxSend` two and one and a `Window` of one: a writer blocks on a full buffer, an
  end comes with data before it still on the way, and the two directions end at
  different times. What is proved of `TunnelPath` is for every amount and size.
- Two requests compete for one idle stream (`MaxIdle` 1) of a cached proxy while
  the subdomain goes from one session to the other and back to nobody; each of
  the two sessions is used once. `HttpProxy_proofs` is for any number.
- A length of two bytes and a body of two can each be split once; four bytes each
  would only be split in more places. Two callers contend for the mutex, and the
  second request of one comes after a reply. The mutex keeps at most one frame in
  flight in each direction (`TypeOK`), so more callers only wait longer.
  `Framing_proofs` is for any number of callers and calls and any lengths.

### Fairness

- `ControlPlane`: strong fairness of each connection's steps that need no client
  (`Step`). The Go scheduler runs every runnable goroutine, and `sync.Mutex`
  hands itself to a waiter that has waited for a millisecond, so a step that is
  possible again and again, as a lock is, happens. A save's system calls return, with
  success or an error. Weak fairness of `Exit` on a
  broken connection: a read on it returns an error, for yamux closes a session
  whose keepalive is not answered. A reply is small and clients
  read one before they send the next request, so writing it does not block on
  yamux's window. Nothing else is assumed of clients (one that never sends Auth
  keeps its connection) or of other programs, nor that anybody shuts the server
  down.
- `ClaimStore`: strong fairness of each call's steps, for the same reason. A
  system call returns, with success or an error.
- `Agent`: weak fairness of the agent and of each of the server's goroutines. The
  assumption that failures stop is `MaxCuts` and `MaxRefusals`. That `Dial` ends is the
  operating system's connect timeout: `Connect` sets none, and does not look at ctx, so
  a signal during a dial is honoured only then.

- `TunnelPath`: weak fairness of each goroutine, of each copy loop, of the timer,
  and of the reading of a program that stays: a program that never reads what it
  is sent blocks its direction for ever, in the code as in the model. No program
  has to send, to end or to leave, and nothing has to break.
- `HttpProxy`: weak fairness of the handler's own steps, of a read on a dead
  stream, and of the close of a session that was cleaned up. A local service need
  never answer (`Respond` is not fair).
- `Framing`: weak fairness of the server's loop, strong fairness of a caller's
  steps for the mutex. That bytes in flight arrive unless the connection breaks is
  yamux's promise.

`Agent.cfg`, `TunnelPath.cfg`, `ReplyCut.cfg` and `Framing.cfg` do not check deadlock:
an agent that was told to stop, a connection that is over and callers that have made
their requests have nothing left to do. The other models never stop.

## What is proved

For every set of sessions, names and `Register` messages, finite or not, every
port range that starts above 0, and every interleaving:

| Theorem | States |
| --- | --- |
| `TypeCorrect` | `Spec => []TypeOK` |
| `Inductive` | `Spec => []IInv` |
| `NoListenerLeaks` | `Spec => []NoOrphanListener` |
| `AnsweredPortsKeepListening` | `Spec => []AnsweredPortsListen` |
| `RoutesCorrect` | `Spec => []RoutesMatchAnswers` |
| `GoroutinesLeaveNothing` | `Spec => []NothingLeftBehind` |
| `ImplementsLease` | `Spec => LeaseSpec` |

and for every set of callers and names (`ClaimStore_proofs`):

| Theorem | States |
| --- | --- |
| `Inductive` | `Spec => []IInv` |
| `FileAlwaysParses` | `Spec => []FileParses` |
| `NoAnswerIsLost` | `Spec => []AnswersSurvive` |
| `MemoryKeepsAnswers` | `Spec => []MemoryAgrees` |
| `TypeCorrect` | `Spec => []TypeOK` |
| `SavesExcludeEachOther` | `Spec => []SavesWhatIsHeld` |
| `ImplementsClaimSet` | `Spec => StoreSpec` |

for a list of any length, any connections and any number of failures (`Agent_proofs`):

| Theorem | States |
| --- | --- |
| `TypeCorrect` | `Spec => []TypeOK` |
| `EveryConnectionIsClosed` | `Spec => []NoConnectionLeft` |
| `AllOrNothing` | `Spec => []ServingMeansAll` |

for every amount of data and size of the buffers (`TunnelPath_proofs`):

| Theorem | States |
| --- | --- |
| `TypeCorrect` | `Spec => []TypeOK` |
| `EndOfFileIsTrue` | `Spec => []EOFMeansEverything` |
| `ImplementsDuplex` | `Spec => PathSpec` |

for any sessions, subdomains, requests and idle streams (`HttpProxy_proofs`):

| Theorem | States |
| --- | --- |
| `TypeCorrect` | `Spec => []TypeOK` |
| `AnsweredByTheRightTunnel` | `Spec => []RightTunnel` |
| `PasswordAlwaysChecked` | `Spec => []PasswordChecked` |

and for any callers, any number of calls and any lengths of prefix and body above 0
(`Framing_proofs`):

| Theorem | States |
| --- | --- |
| `Inductive` | `Spec => []IInv` |
| `TypeCorrect` | `Spec => []TypeOK` |
| `RepliesAreOwn` | `Spec => []OwnReply` |
| `HandledOnceInOrder` | `Spec => []InOrder` |
| `NoFrameMistaken` | `Spec => []FramesHold` |
| `EndsNeverBothWait` | `Spec => []NeverBothWait` |
| `ImplementsRemoteCall` | `Spec => RPCSpec` |

The assumption of `ClaimStore` is `ValueAssumption` (`None` and `Torn` are no sets of
names). Those of `ControlPlane` are `PortAssumption` (ports are
positive), `NameAssumption` (a name is not a number, and random names are names),
`OwnerAssumption` (`None` and `Foreign` are nobody), `RequestAssumption`
(requests are `Register` messages), `DrawAssumption` (`Unlucky` is a truth value). Those of `Framing` are `SizeAssumption` (no prefix
and no body is empty) and `CallerAssumption`. Those of the others say that bounds are
natural numbers and that `None` is no member of the sets it is added to.

None of the four invariants of `ControlPlane` is inductive: each speaks of an open
socket, of an answered client or of a connection that ended, and says nothing of the
goroutines in between. `IInv` adds

- `Locked`: the registry's mutex is held between two steps by a goroutine in
  `Register`, the store's by one that saves, and by no other;
- `LocalAddress`: what the local `addr` means at each place of the handler; in
  particular a port between `CommitTCP` and `Track` is routed to its session and
  has no tracked listener of that session;
- `RouteOwners`: a route belongs to a client that was answered or to a
  registration under way;
- `CleanupLocals`: the locals of a cleanup are empty outside it;
- `TrackedOpen`, `VictimOpen`, `DoomedOpen`: whoever knows a socket (the handler
  before `Track`, the map, a `closeTCP` in progress, the shutdown goroutine) finds
  it open, and no two know the same one. This is what lets `Closed` in one of
  them leave the others' sockets alone;
- `TrackedAreKnown`: a tracked listener has its route or a cleanup that will come
  to it;
- `RunningTracked`: until shutdown, a route past its registration and a port still
  to be closed have their own listener tracked. This is why a late `closeTCP`
  finds its own listener, and it is what fails once shutdown has swapped the map.

Each part has a lemma `...Step` that it is kept, with one step per action.
`NoOrphanStep` goes through `SocketKnown`: a socket that is open after a step is
known after it, whatever became of its route; `TrackedAreKnown` then turns a
tracked one into an accounted one. `AnsweredPortsListen` follows from
`RouteOwners`, `RunningTracked` and `TrackedOpen`. For `ImplementsLease`, a step is
mapped to `Open` (`Authenticate`), `Take` (`CommitHTTP`, `CommitTCP`), `GiveBack`
(`Undo`), `Promise` (`Reply`), `Close` (`RemoveSession`) or a stutter; that the
address given back was not promised comes from `LocalAddress`.

`NothingLeftBehind` is where these parts meet: a goroutine that has ended is in no
place where `RouteOwners`, `TrackedAreKnown` or `NoOrphanListener` allow it a route, a
tracked listener or a socket, but for one that a `closeTCP` or the shutdown goroutine
has in its hands.

In `ClaimStore`, `AnswersSurvive` speaks of the file and a rename brings the map
into it, so its proof needs `MemoryAgrees`, and that what is renamed is the map
(`SavesWhatIsHeld`) with the change of this very call in it (`CallsInOrder`). For
`ImplementsClaimSet` the two directions of `SavesWhatIsHeld` matter: who is in `save`
holds the mutex, so there is one change at a time, and who holds it is in `save`, so
a change that was made is not forgotten. `Rename` is mapped to `Keep`, `Fail` to
`GiveUp`, and the other steps of `save` to a stutter.

In `Agent`, `ServingMeansAll` needs to know how far a registration has come while
request and reply are under way: `Turn` says, for each place of `serveOnce`, which
of the two it is and how many addresses were promised (`Had`), and weakens it for a
connection that is dead, where the server may have cleaned up already. `Promises`
ties what was promised to the lease, in list order, which is what makes the
`CHOOSE` in `Asked` the agent's next tunnel (`AskedIsNext`). `Held` says where the agent has
a connection to close, which is why `NoConnectionLeft` survives a new `Dial`.

In `TunnelPath`, an end of file is far from the data it speaks of. `Stage` says, as
long as nothing broke, that a node has ended its end of the stream just when it has
forwarded all its program will send, and its connection only after all the stream
will bring; with the count of what is on the way (`Intact`) the two give
`EOFMeansEverything`. `NoSurplus` and `Quiet` hold whatever breaks: never more
arrives than was sent, and nothing after an end. They are what `ImplementsDuplex`
needs after a fault, and `NoSurplus` bounds the counters of `TypeOK`. A step is
mapped to the like-named step of `Duplex`, a refusal, a failure or a timeout to
`Fail`, and everything that the server, the agent and yamux do with the data to a
stutter.

In `HttpProxy`, `Resolved` says at each place of a request that the tunnel in its
locals, the one its proxy was made for and the one its stream belongs to are the
same, had the subdomain during the request and had their password checked.

In `Framing`, replies carry no ids, so whose reply is in flight has to be told from
where everybody is. `Turns` says that the holder of the mutex, and nobody else, is
inside a request. `Numbered` ties the two histories together: what was handled is the
beginning of what was sent, each caller's requests ascend, and none is sent ahead of
its call. `RequestUnderWay` and `ReplyUnderWay` say of every byte, read or in flight,
whose it is: the bytes towards the server are the first bytes of the first request it
has not handled (`Carries`), those towards the client the first bytes of the reply to
the one caller that reads. They hold over a broken connection too, where a request
may be left behind half read. `NothingLost` says how much of each frame there is
while the connection works: the sum of what was read and what is in flight is what was
written. The first three give `OwnReply` and `InOrder`; with `NothingLost` no read
ends early, which is `FramesHold`, and somebody always has a piece to write or to
read, which is `NeverBothWait`. Frames are sequences that the code cuts anywhere, so the
proof rests on lemmas about concatenating and cutting them (`ReadCarries`,
`CutCarries`, `WriteCarries`) and on `DecodedFrame`: a complete frame decodes to the
message it was made from. For `ImplementsRemoteCall`, `Handle` is the `Handle` of
`RemoteCall`, `Finish` its `Answer`, and whatever moves bytes a stutter.

Only model-checked: everything under fairness (`BrokenSessionsRelease`,
`RegistrationsEnd`, `CallsReturn`, `ServesAgain`, `CancelStops`, `StoppedReleases`,
`SentArrives`, `EndArrives`, `LetsGo`, `GoneIsQuiet`, `RequestsReturn`): liveness and
`ENABLED` are beyond TLAPS. Every invariant and every refinement that a passing run
checks is proved. What a recursive definition computes could not be
proved for all inputs; these modules have none.

## What is not modelled

- Start-up failures of `Run`, a fatal error of `httpSrv.Serve`, with the channel that
  keeps it until `acceptControl` ends, and the return of `Run`. It waits for its two
  accept loops only (`server.go:98-114`): it can return, and the process end, while
  connections are served and before `closeAllTCP` has run, where its comment says that it
  "blocks until ctx is cancelled, then drains" (`server.go:66-67`). No state of the model
  waits for it; see the plan. An `Accept` that fails before the
  shutdown ends `acceptControl` or `acceptTCP` for good while the rest goes on; for control
  connections that is a behaviour of the model, in which `Connect` need not happen, and
  `TunnelPath` begins with an accepted connection.
- Config, login and flags: text that viper and yaml turn into a record when a
  command starts, and that nothing changes while the program runs. What happens
  to the file is theirs and the file system's.
- The entries of the proxy cache, which stay for ever, and the goroutine that each
  call of `Client.Serve` leaves waiting for its context: memory that no other state
  depends on.
- What a message or a header says: JSON, urls, host names, allowlists and generated
  passwords. `Framing` has frames as long as their senders say; `TunnelPath` an
  allowlist that admits or refuses.
- The port range is any `PortMin .. PortMax` with `PortMin` above 0; a server
  configured with port 0 asks the kernel for a port that it then does not report.
- Power loss: `save` syncs neither the file nor its directory, so what a machine
  keeps is up to its file system; `ClaimStore` has process deaths only.
- yamux, TLS and the kernel are taken to work: a stream is reliable and in order
  until it breaks.

## Plan

Done: `AddressLease`, `ControlPlane`, `ClaimSet`, `ClaimStore`, `Agent`, `Duplex`,
`TunnelPath`, `HttpProxy`, `RemoteCall` and `Framing` with their proofs.

What could follow:

1. `RunLifecycle` (`Run`, `lotund`): binding, a fatal error of one of the two
   servers, cancellation, what `Run` should wait for, the end of the process.
2. The allocation of ports as a loop, against the set definition that `ControlPlane`
   uses.
3. FIN and RST of a stream as messages that take their time, and the loss of a
   session that one end learns of before the other.
