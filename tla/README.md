# Verification of the tvpn macOS client

TLA+ modules, TLC configurations and TLAPS proofs for the VPN client in
`src/TestMac`: a Swift window (`ViewController.swift`), an Objective-C++ wrapper,
and a C++ service (`cpp/`) that fetches a server's address over TCP, connects to
that server over TLS or over TCP disguised as HTTP, opens a `utun` device, changes the
machine's routes and copies packets between device and server.

The repository has no tests and its README is a title, so what the program
promises is taken from its code, its comments and its messages.

## 1. The system

### Components, state, operations

| Component | Source | State | Operations |
|---|---|---|---|
| Window | `ViewController.swift` | `isRun`, the switch's state and text, `day_traffic`, `month_traffic`, user level | `switchAction`, `viewWillDisappear`, the callbacks `stop_call` and `show_traffic`, `loginAction` |
| Wrapper | `cpp/network_objc_wrapper.mm` | the callbacks' blocks | passes calls down, dispatches callbacks to the main queue |
| Session | `cpp/network_service.cpp`: `init`, `start_vpn`, `get_vpnserver_ip`, `connect_server`, `stop_vpn` | `g_isRun`, `firstOpen`, `global_default_gateway_ip`, `g_protocol`, `target_test_ip`, `client_sock`, `g_fd_tun_dev`, `g_private_ip` and the kernel's routes and descriptors | connect, set up routes, run the loop, clean up, report a status |
| Packet loop | `tun_and_socket` | `recvTime`, `sendTime`, `lastTime`, the descriptor sets | one `select` round: read the device, read the server, check time, report traffic |
| TLS reassembly | `write_tun` | `g_tcp_buf`, `g_tcp_len` | cut a byte stream into IP packets |
| HTTP reassembly | `write_tun_http`, `pop_front_xdpi_head` | `g_tcp_buf`, `g_tcp_len`, two local lengths | cut a byte stream into HTTP messages |
| HTTP heads | `cpp/sockhttp.cpp`, `cpp/http_client.cpp`, `cpp/vpn_packet.cpp` | `VpnPacket` offsets | write the head of a request or a response, parse it |
| TLS client | `cpp/ssl_client2.cpp` | `server_fd`, `ssl` and their context | init, connect, read, write, close |
| Device and interface | `cpp/sysutl.cpp` | the utun device | open, read, write, set the address |
| Login and account | `login`; `loginAction`, `show_traffic` | `g_premium`, `g_day_limit`, `g_month_limit`, `in_traffic`, `out_traffic` | log in and out, count, judge a report |
| Process | `quit_signal_handler`, the end of the process | nothing of its own: the routes outlive it | SIGINT, any death, the next start |
| DNS | `set_dns`, `popen_fill` | the system's list of servers | put 8.8.8.8 in front |
| Obfuscation | `cpp/obfuscation_utl.cpp` | none | encode, decode |
| Others | strings, time, sockets, log, demo wrappers, mbedtls headers | | |

### How they interact

- The main thread runs the window. `switchAction` dispatches a block to a
  background queue; the block sets `isRun`, calls `start_vpn` and clears `isRun`.
  `start_vpn` returns only when the session is over.
- `start_vpn` and `tun_and_socket` call back (`stopCallback`, `trafficCallback`); the
  wrapper dispatches each callback to the main queue, so the window hears of a
  status later than it was true, in order, and not at all while
  `viewWillDisappear` holds the main thread.
- `stop_vpn` runs on the main thread and only clears `g_isRun`, which the
  background thread tests at the head of each round. All the file's globals are
  shared without a lock.
- `loginAction` dispatches a block of its own, so `login` runs beside `start_vpn`; whichever
  finds `firstOpen` unset runs `init`, both if they are quick, and its answer sets the level and the limits a running session is judged by.
- Routes are changed by separate `route` commands, the DNS servers by `networksetup`. They
  belong to the system and outlive the process, whose memory and descriptors do not.
- `init` installs `quit_signal_handler` for SIGINT: it runs its own `route` commands on the main
  thread while the background threads go on with theirs, then exits.
- The static buffers `g_tcp_buf`, `g_tcp_len` outlive a session.

### What is hard

Two threads over unlocked globals; a guard (`isRun`) that is written by three
parties; callbacks that arrive late; a stop that races the start of the loop;
results of calls that are ignored; a byte stream cut anywhere; uninitialised
lengths; a round that a `continue` cuts short; cleanup that runs on globals
another session may have changed; a process that ends between two commands and leaves
the system's configuration to the next one; a counter that starts over. `PROJECT.json` lists these hazards, each at its
line, with the property that covers it or the reason none does.

### What makes each component correct

| Component | Correct when |
|---|---|
| Session | the default route returns to the gateway, no route is taken without a gateway to return to, the tunnel and connection are closed, the host route is removed, the end is reported |
| Window | it ends up showing the truth and can start again; a stop takes the VPN down; closing ends |
| Packet loop | a stop is seen within one select, silence ends the session, traffic is reported |
| Reassembly | packets come out whole, once and in order; no buffer overflows; nothing complete is held back |
| Heads | the head fits in front of the packet, and the parser recovers what was written |
| Account | a session over the quota of the level the user settles at is stopped |
| Process | SIGINT leaves the machine on its gateway; a process that knows a gateway is on it when no session holds the route; only a death or a lost gateway leaves a host route behind |
| DNS | the user's servers are never lost, repeated or reordered |
| Obfuscation | decoding gives the packet back |

## 2. The modules

| Module | Models | Built on |
|---|---|---|
| `PacketStream` | the promise of the tunnel: packets delivered whole, once, in order; only a change of connection skips any | – |
| `TunRelay` | `write_tun` and the loop's read over TLS | implements `PacketStream` |
| `HttpRelay` | `write_tun_http` and `pop_front_xdpi_head` over TCP | implements `PacketStream` |
| `HttpHead` | `VpnPacket`, the head writers, `parse_http_head`, `pop_front_xdpi_head`, the obfuscation | – |
| `EventLoop` | `tun_and_socket` for one session: select, timeouts, ages | – |
| `Account` | the traffic counters, the reports, `show_traffic`, the level and the limits as logins set them | extends and implements `EventLoop` |
| `NetworkService` | `start_vpn`, `login`, `stop_vpn`, routes, descriptors and callbacks, for any application | – |
| `VpnClient` | the window and the background blocks | extends and implements `NetworkService` |
| `Application` | the process: SIGINT, death, the next start, the DNS servers | extends `VpnClient`, implements `NetworkService` while it lives |
| `*Proofs` | the theorems about the module of that name | extends it and TLAPS |
| `MC*` | the constants of the small instances | extends the module |

Definitions marked "Fault" in the modules are no part of any specification:
each is a plausible mistake in the definition that follows it, and the properties
are known to fail with it in place (`mutants` in `PROJECT.json`).

### NetworkService and VpnClient

A session `s` is one call of `start_vpn`, a login `l` one call of `login`; `pc` says where in it the thread is. The
unit of a step is one call that changes shared state: a global, the kernel's
routes, the open descriptors or the main queue. So `init` is `BeginInit` (`firstOpen`, and
the shell opening the file), `WriteGateway` and `LoadGateway`; `get_vpnserver_ip` is `FetchTraffic`
and `AnswerNames`; `connect_server` is `ConnectSsl` and `Handshake`, or `ConnectHttp`, and then
`GetPrivateIp`; each `route` command is a step, before the loop (`AddHostRoute`, `AddOwnRoute`,
`ChangeRoute`, `AddFallbackRoute`) and after it (`DeleteHostRoute`, `DeleteDefaultRoute`,
`AddGatewayRoute`). A round of the loop is `LoopHead`, the test of `g_isRun`, and what it carries
(phase "carry"), after which it goes on (`RoundEnds`), reports the traffic (`ReportTraffic`, which
tests nothing) or breaks (`LoopBreaks`). The clean-up is `CloseConnection`, `CloseTun` and `Leave`,
which clears `g_isRun`.

- `start_vpn` and `login` test `firstOpen` and `init` sets it later, so two calls in quick
  succession both run `init`, and `OpenFirst` allows it. The second may read the gateway while the
  first one's tunnel is the default route and leave `global_default_gateway_ip` empty: this is the
  finding `GatewayKnown`. `forgot` is a history variable that notes that an `init` has put nothing in place of a
  known gateway. No guard reads it; the properties of the routes name it where the machine ends up without
  a default route or with a host route for that reason: `DefaultRouteRestored` then says only that no
  utun is left as the default route.
- A descriptor is named by the session that opened it and its role (`web`,
  `spare`: the socket `connect_server` makes before it connects, `server`, `tun`). `fds` is the
  set of open ones; the globals hold a name. So a close through a global that
  another session has overwritten closes the other session's descriptor, as in
  the code. That the system gives a closed descriptor's number to a later one is not
  modelled.
- `defaultRoute` is the gateway, a utun or nothing. `route add` changes nothing where a
  route exists; a command without a gateway changes nothing; closing a utun takes a
  route through it along. The host route to the private address goes with its utun
  and is left out.
- The private address is left out: it decides no more than where `AddOwnRoute`'s route leads.
- `gateway` is "unread", "empty" (a gateway is read while the default route has
  none) or "known".
- `posted` is the main queue. `MaxPosted` bounds only `ReportTraffic`: statuses are
  never dropped.
- Amounts of traffic are abstracted to within and over quota; `Account` has the amounts.
- `login` has the steps of `init`, then fails without a word (`LoginFails`, its socket left open) or
  answers (`LoginAnswers`). It changes no route.

`NetSpec` is the service under any application: it may make each call of `start_vpn` and
`login` once, and `stop_vpn` at any time. `VpnClient` adds the window. `HandlePosted` is
the main queue running its oldest block, refused while the window is in the loop of
`viewWillDisappear`. `Patient` restricts the user, not the program: a patient user
clicks the switch only when the last click has been answered. He may log in at any time:
a login that fails is never answered, so there is nothing to wait for.

### Application

`process` is "up", at one of the three points of `quit_signal_handler`, or "ended". The handler
runs on the main thread, which handles nothing else meanwhile; the other threads go on
(`OnThread`), and `raced` remembers whether one of them changed the default route or the gateway during the handler.

`Die` is the end of the process, possible at every point: a kill, the menu's quit, the handler's
`exit(0)`, SIGINT before `init` has installed the handler, and the exceptions nothing catches
(`std::stoi` of an answer, a string of -1 bytes). Memory is forgotten, the kernel closes
the descriptors, and a `utun` takes a default route through it along. The routes, the DNS
servers and `/tmp/default_gateway.txt` stay. The calls of one process are those of the next,
so the number of processes is not bounded. `stranded` remembers the host routes a death left; `HostRoutesRemoved`
exempts them, and a process whose second `init` has lost the gateway (`forgot`), without which the route is not deleted.

`dns` is the system's list of servers, in order. `set_dns` is called between the last route
command and status 0; its reading and its writing are one step, since between them only another
session's `set_dns` can run, which writes the same. `DnsLines` is how many lines fit the buffer of
`popen_fill`, and `DnsReadable` whether `networksetup`'s answers can always be read: where
a list is longer or cannot be read the code drops the user's servers, so `OwnServersKept` assumes both. The test for
8.8.8.8 is a search in the text, so it also finds an address such as 18.8.8.8; such addresses are not in the model.

### EventLoop

`pc` is the point in a round: the head with its test of `g_isRun`, `select`, the branch
for the device, the branch for the socket, the checks at the end. A `continue` is a
step to the head. Time is kept as the age of `recvTime`, `sendTime`, `lastTime`, the select
call and the first `stop_vpn`; an age stops growing at the first value the code does not
distinguish from greater ones, so the state space is finite without a bound on the run. A read may
succeed, be passed over, fail, or stay blocked.

### Account

Account adds to each step of the loop what it does to the counters, and the main thread that
judges the reports. `in_traffic + out_traffic` has 32 bits, so the counter starts over after
`Reach` kilobytes; a report carries the counter of its time and is judged later, at the
level the user has by then. Logins may be answered at any time, late, refused or out of
order, and a logout takes effect at once. An answer that is not a refusal sets the level and both limits,
0 for none among them, while the session runs (`ViewController.swift:136-141`); a refused one leaves all three. Every answer
is shown with traffic of its own, which may be over the new limits (`LoginAnswer`). What was used before
the session is a constant.

`QuotaEnforced` says that a session does not carry the server's data for ever if from some time on the level
always has a limit that the counter can be seen above of (`InForce`), whether or not logins and logouts go on exchanging
one such limit for another. A limit beyond that, such as the 10 G
in the comment of `show_traffic` for a premium user who has used less than 6 G before, is never seen
exceeded within one session: the counter starts over at 4 GB. That case is not covered by the property, and
`PROJECT.json` lists it as a hazard without one.

### TunRelay and HttpRelay

A byte is its position in everything the server ever sends. A buffer is then a
sequence of positions, and a packet is intact if it is the sequence of positions
it was sent at: no copy, offset or length can be wrong without showing. `ip_len` read
at the first byte of a packet is that packet's length; read anywhere else it is
any member of `Junk`. In `HttpRelay` a head's units are: a part of the first line, the
rest of it, then the text up to the end of Content-Length, then the empty line;
the lengths that `write_tun_http` leaves uninitialised are chosen from `Garbage`, any integers: the code
compares their sum with the bytes it has as an unsigned number, so a negative sum is too long (`Ready`).
Two things are left out: a sum of two leftover lengths that overflows an `int`, and the bytes in front of the
data that a negative leftover head, possible only after a split first line, would have decoded.
`write_tun` keeps a tail with `memcpy` even if it already lies in `g_tcp_buf`; on macOS
`memcpy` is `memmove`, so this is a copy as any other. The bytes of an unfinished packet stay in `g_tcp_buf` (`relay`) over the end of a session.

The refinement of `PacketStream` maps its cursor to the first byte not yet delivered:
what has been read less what is held in `relay` and `data`.

### HttpHead

The lines of a head have the lengths the code gives them, and `Capacity` is the
real 4096. Characters know their line and whether they are CR or LF. `LineEnds` says where
`parse_http_head` ends a line, `ReadLine` what one turn of its loop and of the loop of
`pop_front_xdpi_head` does, and `ReadLines` is the loop: a function of the number of turns, of
which there are no more than breaks in the text. The two loops of the code are one here, since the
second visits the lines in the order the first has found them. `PrefixReading` states what `HttpRelay` assumes
of the parser (`ReadHead` and `Ready`), so the two modules together connect the characters to the packets.

`StringsAssumption` and `RoomAssumption` are what the writers need of the strings they are given: no MIME
type is that of a web page (the parser would take the body for one), and a head of the longest ones fits a quarter of
the buffer. The program's own strings leave 574 of the 1024 bytes free (`MCHttpHead.cfg`).

The obfuscation is an exclusive or with a key computed from the length of the piece. A byte
keeps the set of keys it has met, each a length and a place in the key's four bytes; meeting one
twice removes it. `http_write` encodes the first four bytes and the rest apart, and
`write_tun_http` decodes at the lengths it parsed. A byte is clear when its set is empty, so
two different keys are taken never to cancel each other.

## 3. The runs

| Run | Question | Bounds | Result |
|---|---|---|---|
| `TunRelayFitting` | with packets of a header to `BUF_SIZE` bytes, is the packet stream delivered? | header 2, buffer 4, packets of 2, 3, 4 bytes, 4 packets | passes |
| `TunRelayAny` | with any lengths, do buffers hold? | packets of 2, 4, 6 bytes, misread lengths 0..6, 3 packets | passes |
| `HttpRelayWholeHeads` | when no read ends inside a head, is the packet stream delivered? | buffer 8, heads 4, 5, bodies 2, 3, leftovers -2, 0, 1, 3, 5, 3 messages | passes |
| `HttpRelaySplitHeads` | and when one does? | the same, no negative leftover | finding |
| `HttpHead` | do heads fit and parse, cut near every line end, and do packets come out clear? | the longest strings of the source; packets of 20, 1501 and 4000 bytes; leftovers -40, 0 and 30; 3 requests | passes |
| `Account` | are stops, silence and an exceeded quota answered, whatever the logins do? | select 1, limit 2; limits 0 and 2 a day, 0 and 3 a month, with 1 and 2 used, counter of 3, 1 between reports | passes |
| `EventLoopSilence` | is silence in both directions noticed? | select 2, limit 4 | finding |
| `VpnClientAny` | any user, overlapping sessions, any number of them in `init` | 2 sessions, no login, 1 server, 1 waiting report | passes |
| `Application` | a user who waits, and a process that ends at any point and starts again | 1 session and 1 login at a time in any number of processes, 1 server, 1 waiting report, 2 own DNS servers | passes |
| `VpnClientOverlap` | can two sessions be active? | as `VpnClientAny` | finding |
| `VpnClientGateway` | does a session hold the default route only with a gateway to go back to? | 1 session and 1 login, patient | finding |
| `VpnClientQuit` | does a closing window close? | 1 session | finding |

What each property says stands above its definition.

### Why the bounds are enough

- Reassembly depends on where a read ends relative to a header, to a packet's
  length and to the buffer's end. A header of 2 and a buffer of 4 give a read that ends
  inside a header, at its end, inside the body, at the end of the packet and with
  several packets; 3 or 4 packets give a session change with a tail left, followed
  by packets of a new session.
- The 60 second limit only matters relative to the 2 second select: twice the select is
  enough for a round of timeouts to fit within the limit and beyond it.
- In `Account` each limit is one kilobyte away at the start, and of the counter's three values one is
  above it: a report can meet the limit, pass it, and meet the counter after it has started over. Logins
  exchange a limit for none and back at any time.
  The bound `told` lets the main thread be one report behind; a longer queue only delays
  the judgement.
- Two sessions overlap in every pair of steps in `VpnClientAny`; the effects are on single
  globals, so a third session adds interference of the same kind. The theorems below cover any number.
- `Application` has one session, since a user who waits has one at a time, and each
  process makes its calls anew, so sessions follow each other without a bound. It has one
  server, for the time the run takes; `HostRoutesAreRemoved` is proved for any number of servers.
  `VpnClientAny` checks nothing that names servers. It has no login, for the time the run takes: its
  theorems cover any number of logins, and `Application` runs one beside the session.
- With one traffic report waiting, a late status, a late report, and both can still be
  queued in every order.
- In `HttpHead` lines are of the greatest length, so the head is the longest; cuts
  are at each line end, one and two bytes before and after it, and the same at the
  end of the message and of the next message's first line.

`CHECK_DEADLOCK FALSE` is set where the system may stop: sessions are finitely many
and the window closes, the loop and the process end, and the packets of `HttpHead` are counted.

### Fairness

- `EventLoop`: the thread runs, time passes and `select` returns on timeout (`Tick`, `Head`,
  `SelectTimeout`, `Check` are weakly fair). Nothing is assumed of the reads and
  writes, which can block on a socket without a timeout, or of what arrives;
  so `StopEnds` allows for a read or write that blocks for ever.
- `Account`: the loop's, and a main thread that shows a waiting report. Nothing is assumed of
  the user or of the web service, so a login need not be answered.
- `VpnClient`: the main queue and background queue run, `route` commands and closes
  return, and so does the test of `g_isRun` at the head of a round. Nothing is assumed of the user, the web service,
  the VPN server, of the reads and writes of a round, which may block for ever as in `EventLoop`, or of the end of a
  session nobody stops. So `QuitEnds` and `StopEndsRunning` exempt a session that stays in "carry" for ever.
- `Application`: the same as long as there is a process, and a handler that has begun goes on to
  its exit. Nothing is assumed of a death or of the next start.

## 4. Findings

Each is a line of the code that says one thing and a run that shows another.

1. `OneSession` (`ViewController.swift:161`, "not run over"): `isRun` is set by the
   background block and not by the click, and a late status 1 clears it, so two
   sessions can be active over the same globals.
2. `GatewayKnown` (`network_service.cpp:656`, "global_default_gateway_ip empty."): two calls
   can both run `init`, and the second overwrites the known gateway with nothing once the first one's utun is the
   default route. At its end that session deletes the default route and has no gateway to add.
3. `QuitEnds` (`ViewController.swift:60`, "wait for quit..."): `tun_and_socket` sets
   `g_isRun` at its start, after `stop_vpn` has cleared it; a window closed while a session is
   setting up then waits for ever.
4. `SilenceEnds` (`network_service.cpp:384`, "send or recv timeout"): a round that
   ends in a `continue` skips the check, and a session silent in both directions only
   has such rounds.
5. `OnlyWholePackets` (`network_service.cpp:315`, "whole packet not ready yet"): a
   read that ends inside a head leaves a length uninitialised, and a part of a message can
   be taken for a packet.

## 5. The proofs

All theorems hold for every value of the constants that satisfies the named
assumptions of the module.

| Theorem | Says | Argument |
|---|---|---|
| `TunRelayProofs!TypeCorrect`, `RelayNeverOverflows` | the buffers of `write_tun` never overflow, whatever the server sends | `Buffers`: a kept tail is shorter than a packet of at most `BufSize`, so a read fits behind it |
| `TunRelayProofs!AlwaysAligned`, `PacketsComeWhole`, `PacketsStayInOrder`, `KeepsNoWholePacket` | with packets of a header to `BUF_SIZE` bytes, headers are looked for only where packets start; what is delivered is whole and in order; nothing complete is kept | `Inv`: packets lie end to end on the wire; the data and the kept tail are a contiguous piece of it that starts at a packet's first byte; deliveries are packets that end before it |
| `TunRelayProofs!RelayImplementsPacketStream` | `TunRelay` implements `PacketStream` | the same invariant, one step lemma per action |
| `PacketStreamProofs!StreamIsInOrder` | whatever implements `PacketStream` delivers packets in the order they were sent and none twice, over any number of sessions | `Inv`: packets lie end to end on the wire, and what has been delivered ends at or before the cursor, or before the wire's end between sessions; the next packet starts at the cursor. For packets of at least a byte (`Sized`) |
| `HttpRelayProofs!TypeCorrect` | `write_tun_http` keeps its bounds for any uninitialised lengths, negative ones included | a message is at least as long as its head |
| `HttpRelayProofs!KeepsNoWholeMessage`, `DeliversWholePackets`, `RelayImplementsPacketStream` | when no read ends inside a head (`~SplitHeads`), `HttpRelay` delivers whole packets, keeps no whole message and implements `PacketStream` | `WholeInv`: messages lie end to end on the wire, what is held is contiguous and starts at a message, and no read has ended inside a head; so the lengths are read anew wherever the parser starts |
| `HttpRelayProofs!MessagesStayInOrder` | and writes its packets in order, none twice | inherited: the refinement maps it to `PacketStream`, of which `StreamIsInOrder` is proved |
| `HttpHeadProofs!HeadsFit`, `Types` | for any strings the assumptions allow, the head fits in front of the packet: the assertion of `push_front` never fails | `IInv`: the packet begins `HeadSize(head)` after `front`, at `Room`; a head is none or one of the writers', whose lines add up to at most the room (`RequestIsHead`, `ResponseIsHead`) |
| `HttpHeadProofs!PrefixesAreRead`, `AnyPartIsRead` | what the parser learns from a part of a message: at the model's cuts, and at a cut after any byte at all | `PrefixIsParsed`, below |
| `HttpHeadProofs!MessagesRoundTrip` | of a whole message, whatever follows it and whatever the lengths were, the receiver finds the head and gets the packet back, clear | `PrefixIsParsed`, and `PacketIsClear`: the receiver's two pieces are the writer's two, so each byte meets the same key twice |
| `NetworkServiceProofs!NetTypeCorrect` | the globals of the service keep their types | part of `NetInv` |
| `NetworkServiceProofs!DefaultRouteIsRestored` | for any number of sessions and logins, any application, and whoever runs `init`, the route returns to the gateway, or to nothing after an `init` has forgotten it | `NetInv`: a default route other than the gateway belongs to a session that is still routing (`RouteOwned`); a session past the check has a gateway, unless it is forgotten (`GatewayRead`); without a default route a session is there to bring the gateway back, unless it is forgotten (`RouteReturns`). The last needs the two others |
| `VpnClientProofs!ApplicationUsesService` | the application implements `NetSpec` | each step of the window is a step of the service or leaves it unchanged |
| `VpnClientProofs!ApplicationRestoresRoute` | the same in the application | from the two above |
| `VpnClientProofs!TypeCorrect`, `WindowComesToRest` | types; a window that has handled every callback shows a stopped VPN | `LastWord`: when no session is active the last callback in the queue is "stopped", or the window already shows it |
| `EventLoopProofs!TypeCorrect`, `StopIsSeen` | types; a stop is never older than one select while the loop waits | `StopCounted`: in `select` with `g_isRun` cleared, the stop is no older than the call |
| `EventLoopProofs!AccountRunsLoop`, `AccountStopIsSeen`, `AccountTypeCorrect` | the account beside the loop implements the loop, so what is proved of the loop holds of it; the counters keep their ranges | each step of `Account` is a step of the loop, a stop among them, or leaves the loop unchanged |
| `ApplicationProofs!AppTypeCorrect`, `ProcessUsesTheService` | types over any number of processes; a process uses the service as `NetSpec` allows as long as it lives | one step lemma per action; the handler's commands happen where `NetSpec` is not asked |
| `ApplicationProofs!OwnServersAreKept` | the user's DNS servers are kept, in order, ours at most once in front | the list is one of the two at all times, and `set_dns` maps either to the second |
| `ApplicationProofs!ProcessIsOnGateway`, `InterruptRestores` | a process that knows a gateway, and has not forgotten one, is on it when no session routes; SIGINT restores it, if no thread changes the route or the gateway meanwhile | `RouteInv`: `RouteReturns` for a process that knows a gateway; for one that does not, `FileTrue`: while a call is in `init`, a gateway in the file is the one the machine is on, however many calls write it, since no session routes before (`RouteStays`); while the handler runs, what it has done so far |
| `ApplicationProofs!TunnelIsClosed`, `HostRoutesAreRemoved` | with a user who waits, a session closes its own descriptors, and only a death or a forgotten gateway leaves a host route | `OneAtATime`: one call of `start_vpn` is under way and the window shows it; `Tidy`: the globals name that session's descriptors; `HostOwned`: unless the gateway is forgotten, a host route is stranded or the session's own, at `target_test_ip` |
| `ApplicationProofs!PatientUserHasOneSession` | with a user who waits, two sessions are never active at once in any process: finding 1 needs one who does not | `OneAtATime`, as above |
| `ApplicationProofs!WindowRestsInEveryProcess` | in every process a window that has handled every callback shows a stopped VPN | `LastWord` again: a death empties the queue and a start shows a stopped window, so it holds over both |

The properties themselves are mostly not inductive: `Aligned` says nothing of the
bytes behind the first, `DefaultRouteRestored` nothing of whose route the default
route is, `WindowSettles` nothing of the queue. The invariants above say that. They
were checked with TLC before they were proved.

The parser's proof follows its loop. `SetInduction` is induction over a set of naturals, from the
least number outside it, and all that is needed for loops written as functions of a number.
Everything about the parser is said of any stream that begins with the lines of a head
(`StreamPrefix`: which character stands where): `LineEnds` finds a line where there is one whole
(`LineIsFound`) and nothing where it is cut (`NoLineIsLeft`); so after `k` turns the reader stands after `k` lines
(`LinesAreRead`), and the turns suffice since every line has a break (`BreaksSuffice`). A line is
there as soon as its CR is (the first needs its LF too), so the last that is there (`LastLine`) may be cut
between the two; hence the body's length is known at the CR of its line, three bytes before the head's.

The fitting theorems of `TunRelayProofs` assume `Fitting`: the server's packets
are at least a header and at most `BUF_SIZE` long. Without it (`TunRelayAny`) only
the bounds of the buffers hold.

`TunnelIsClosed`, `HostRoutesAreRemoved` and `PatientUserHasOneSession` assume `Patient`. It describes the
user and is not ensured by the code; what fails without it is described under the findings. The other theorems of
the service, the window and the process assume nothing beyond the constants' types.

### Only model-checked

- Liveness under fairness: `StopEnds`, `DeadPeerNoticed`, `QuotaEnforced`, `StopEndsRunning`.
  The prover has no rule for `ENABLED`, from which weak fairness is made.
- That the small instances show the findings: a violation is a behaviour, not a theorem. For three of the five a
  theorem says what they need: `PatientUserHasOneSession` an impatient user (`OneSession`),
  `DeliversWholePackets` a split head (`OnlyWholePackets`), and `DefaultRouteIsRestored` a gateway that an `init`
  has forgotten, which is what the lost default route of `GatewayKnown` comes from.

## 6. Not modelled, and why

| Part | Reason |
|---|---|
| mbedtls | third party, present as headers and binaries only (35,029 of the repository's 40,152 lines of implementation, so the client's own code is about an eighth): `ssl_read` is a byte stream that can fail, `ssl_write` can fail |
| The TLS contexts as overlapping sessions initialise and free them under each other | what a call on such a context does is the library's; that sessions overlap is the finding `OneSession` |
| The static packet buffer of the loop shared by two overlapping sessions | their overlap is itself a finding |
| Names, passwords, the country code, labels and texts | nothing is decided by them here |
| `get_private_ip_http`, `get_next_private_ip`, `exception_signal_handler`, `write_xdpi_head_2` and the like | never called or never installed |
| `alpha_to_number` and the lengths coded as letters | no writer codes them: the branch that reads them is shown not to be taken |
| `route` and `networksetup` commands that fail for other reasons than those above | nothing in the code looks at their results |
| Socket helpers, log, time formats | input and output only; the steps that use them have their outcomes |
| Linux, iOS and Android branches | not compiled; of the server's side only the writer of response heads, which is in the same file, is modelled |
| Demo wrappers and delegate | no logic |

## 7. Plan

Done, in this order: the packet stream and `TunRelay`; the service and the window,
where the concurrency is; the packet loop; HTTP reassembly and heads; `login` and the
account; the process, its signal handler and DNS; the obfuscation; the theorems above.

Left:

1. The contexts of `ssl_client2.cpp` as a module of their own, with who has initialised and who
   has freed them, to say from which overlap on the library is used outside its rules.
2. The private address and the results `connect_server` ignores, as a property of what the window
   is told of a connection.
3. Which user a limit belongs to, and the limits above the counter's reach.
