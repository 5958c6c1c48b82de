# openfortivpn-go: a verification project

openfortivpn-go is a client for FortiGate SSL VPNs. It authenticates over HTTPS,
switches the connection to a packet stream, lets `pppd` (or, on Windows, its own PPP
engine) negotiate an address over it, and then changes the host's routes and DNS.
This directory holds TLA+ models of the parts of the program where order and failure
matter, TLC configurations that check them on small instances, and proofs of the
central invariants. Paths below are relative to `src/`.

## The system

| part | state it keeps | operations | interacts with | what makes it correct |
|---|---|---|---|---|
| session, `internal/tunnel` | `Tunnel`: `ipv4Cfg`, `savedDefault`, `savedGatewayRoute`, `state` | `Run`, `connect`, `onIPCPComplete`, `teardownNetwork` | everything below | the network is left as it was found; one setup per attempt; a signal ends the process |
| routes and DNS, `internal/ipv4` | the kernel's table, `/etc/resolv.conf`, the backup | `GetDefault`, `Add`, `Delete`; `Add`, `Remove` | called by the session | what is restored was never written by the client |
| `pppd` process, `internal/ppp/pppd_unix.go` | child process, PTY, PID file | `Start`, `cleanupOrphan`, `Wait`, `Close` | relay (PTY), session, the next run of the program | no two `pppd` of ours at once; nobody else's process is signalled |
| packet relay, `internal/io` | two channels, error channel, IPCP event | `RunLoop` and five goroutines | TLS, PTY, `OnIPCP`, `OnCancel` | ordered bounded pipes; everybody gets out |
| HDLC framing, `internal/hdlc` | `Encoder.needFlag`, the reader's buffer | `Encode`, `FindFrame`, `Decode` | relay, Windows link | packets survive any cut into reads; garbled ones do not |
| IPCP and retransmission, `internal/ppp/pppproto` | identifier, proposal, retries, deadlines | `NegotiateIPCP`, `retransmitter` | a `Link` | it ends, within a budget, with options the gateway granted |
| LCP, Demux, Windows engine, `internal/ppp/tun_windows.go` | queues, retries, link, wintun session | `run`, `NegotiateLCP`, `Demux.run`, pumps, `Close` | relay (pipe) | no goroutine is blocked for ever; packets reach the adapter |
| authentication, `internal/auth`; HTTP, `internal/httptunnel`; SAML server | `Client.cookie`, the listening socket | `Authenticate` in three kinds, `Do`, `ServeSAML` | session, the gateway, a browser | the cookie belongs to this login |
| TLS connection, `internal/tlsconn` | the connection | `Dial`, `VerifyConnectionState`, `VerifyCert` | session, a proxy | no secret goes to a certificate the user did not admit |
| configuration, `internal/config`; command line, `cmd/openfortivpn` | `config.Config`, the signal context | `LoadFile`, `RunE`, `Validate` | session | flags over argument over file over defaults |
| prompts, XML search | | ask, find | authentication, session | terminal I/O and a text function |
| macOS and Windows network managers | those systems | external utilities | session | as on Linux |

**Hard behaviours.** Two goroutines of an attempt may configure the network: the monitor,
which `RunLoop` joins, and a polling goroutine, which nobody joins and which may still run
in the teardown, or in the next attempt. `pppd` may die between any two system calls, and
the kernel then takes its routes away. A signal may come anywhere. The relay's five goroutines block
in reads, writes, channel operations and a callback. Frames are lost, repeated and cut apart. On Windows two negotiations, a dispatcher,
a reader and two pumps share one link. The program may be killed, and its `pppd` goes on; the
next run knows of it only what the PID file says. Every exchange with the gateway may fail, and
the session then starts over with what the last attempt left in memory. `PROJECT.json` lists the hazards with their lines.

## The modules

| module | models | checked by | proved in |
|---|---|---|---|
| `Tunnel` | session, its goroutines, Linux routes, resolv.conf, ppp interface | `MCTunnel` | `TunnelProofs`, `RestoreProofs` |
| `Relay`, implementing `Pipe` twice | `RunLoop` | `MCRelay` | `RelayProofs` |
| `Hdlc` | framing and the reader's buffer | `MCHdlc` | `HdlcProofs` |
| `Ipcp`, implementing `Grant` | IPCP over a lossy link | `MCIpcp` | `IpcpProofs` |
| `Engine` | LCP, Demux and the Windows engine | `MCEngine` | `EngineProofs` |
| `Settings` | configuration file, command line, validation | by `Client` | by `ClientProofs` |
| `Login`, extending `Settings` | dialling, certificates, the three authenticators, HTTP exchanges, SAML server | by `Client` | by `ClientProofs` |
| `Pppd` | start, end and orphans of `pppd`, PID file, process table | by `Client` | by `ClientProofs` |
| `Client`, composing the three above | the runs of the program on a host | `MCClient` | `ClientProofs` |
| `Induction` | facts about numbers and sequences that the proofs of `Client` and `Hdlc` cite | | |

`Client` composes `Login` and `Pppd` action by action: `connect` calls the one, then the other.
Otherwise composition is by abstraction: an event of one module is a step of another. `Tunnel` sees
of the relay that it runs, fails, and returns when `pppd` is gone and the monitor has ended;
`Relay` opens that up and shows (`Stops`) that it does return. `Tunnel` takes an address from
the negotiation; `Ipcp` shows that on Windows it is one the gateway granted (on Unix `pppd`
negotiates it). `Engine` lets IPCP end either way; `Ipcp!Ends` shows that it ends. `Relay`
and `Engine` carry packets whole and count those the framing has delivered; `Hdlc` shows
which those are. `Client` has one step for a session, `Tunnel` has one for each exchange that
`Login` opens up.
In each module an action named like a function is that function, or the piece of it between
two points where another goroutine can come in between: a system call, a channel operation,
a lock. Comments say *Faulty* or *Mutant* where an operator is a deliberately wrong variant
used to test that a property can fail.

### Tunnel

`pc` walks through `connect` one blocking call at a time; `apc[g]` does it for each goroutine
that may reach `onIPCPComplete` (goroutine 0 is the monitor, goroutine *n* the polling
goroutine of attempt *n*). The routing table leads from each destination to a set of next hops:
at most one, but the host may have several default routes, of different metrics, or none
(`HostDefaults`). `AddRoute` is refused where a route is already, through an interface that is
gone, and for reasons the client cannot foresee: a next hop off link, an interface without a
name, no permission. `DeleteRoute` matches the next hop if it is given one, else takes the
first route there is, that through ppp before the host's own. `GetDefault`, each `Add` and
`Delete` of a route and each edit of `resolv.conf` may fail; as in the code the next call follows,
and an attempt of `os.WriteFile` that fails may leave the file empty. The loops over split routes
and over the two /1 routes are one step each, in which any of the routes may fail. A route
to 0.0.0.0/1 counts as a default route for `GetDefault`, as it does in `route_linux.go:26`. `resolv.conf` is
counted as "the lines it had" and "blocks of VPN lines". `MaxFaults` bounds failing calls and
changes of uplink together. History variables remember the network at the start of the attempt
(`was`), which attempt stored the values that teardown restores (`routeBy`, `dnsBy`), whether a
step of the setup ran outside its own `RunLoop` (`stray`), the calls that failed (`failed`), and the
gateway's latest reply.

The premises of `GatewayPinned` and `NetworkRestored` name what the code leaves open.
`setupRoutes` warns and goes on when the host route to the gateway cannot be added
(`tunnel.go:499-500`) or the default route could not be read (`tunnel.go:444-445`), and replaces the
default route all the same: the gateway is then not pinned. A call of the teardown that fails is
logged and loses what it was to restore; `NetworkRestored` says that it loses nothing else, and
that no failing call of the *setup* loses anything. When pppd has died, and its default route
with it, `tunnel.go:567-568` deletes another default route of the host, if there is one:
`NetworkRestored` therefore says of the default routes that the saved one is there again and none
that was not there before.

`stray` is the premise of three properties, and deliberately so: they say that *apart from*
the unjoined goroutine the session is right, and `tunnel_shutdown` shows what that goroutine
does. `NetworkRestored` has two more premises, the two ways in which stored values are wrong
by themselves: a `savedDefault` or backup kept from an earlier attempt (the fields are never
cleared, so a later attempt whose setup failed early restores a route of another network),
and a `resolv.conf` that was empty (the empty backup means "none", `dns_unix.go:67`). Such a file is
never written back, and a later attempt's backup is then the client's own block, which
`SavesOnlyOriginals` allows for, as it does for a `dns.Remove` that failed.

### Ipcp

The client's loop, one action per kind of frame, with the retransmission deadline and the
overall timeout as counters of ticks (`next`, `left`). The gateway answers any request with
an Ack, a Nak or a Reject, late or never, and sends frames unasked. The link loses frames at
either end; being a TLS stream it neither reorders nor duplicates them, but a retransmitted
request is answered twice. The history records which requests were sent and acknowledged.
`Grant` is what a negotiation promises: adopt, once, options the peer has granted and that
hold an address, or fail.

### Relay

Four goroutines with a program counter and the packets in their hands, the two channels, the
event channel, `errCh`, and the caller's goroutine from `select` to `return`. Packets are
numbered. The TLS connection may break or have its deadline set; the PTY may close. A write
is accepted when the other side likes. `Pipe` is a bounded FIFO; both directions implement it.

### Hdlc

The real encoding over real bytes, with the check sequence and the escapes. A word of 16 bits
is a pair of bytes, the exclusive or is taken bit by bit, and the table of the check sequence is
computed by eight shifts of the polynomial 0x8408, where the source lists it. A loop over bytes is
`Along`, which leads a state from byte to byte. The reader finds frames in a buffer that is filled
in pieces: `Take` is one turn of its inner loop, `Compact` the turn that finds no frame and moves
the rest to the front. Writes and faults, each replacing a byte on the wire, come at any time, and
a read takes any piece of what there is. `OwnFlags` tells the two kinds of sender apart: one
that opens every frame, as `pppd` does on an idle line, and an `Encoder`, which opens the first
(see `hdlc_shared` below).

### Engine

One program counter per goroutine of the Windows engine, three bounded queues, and `Close`
at any moment. LCP frames are distinguished by whether they answer the current request.
Timers fire at any time, within the retry budget (the 60 s timeout of LCP is thereby
subsumed), and a write may time out at any time. The writing side, the wintun session and `RunLoop` appear by what can block or
fail.

### Settings

A file is a sequence of key and text. `Good` says what `applyKey` accepts of each key,
`LoadFile` applies lines up to the first it does not accept, as the code does: what was applied
stays, and `main` goes on with a warning. Argument and flags follow, then `Validate`. `InForce`
says what the outcome should be without the order of these steps: the last line of a key among
the lines before the error, the flag where there is one, lists joined. Numbers are texts
with a value below 2^32. Lower-casing, trimming and comments are abstracted, a line without "="
is one of an unknown key; arguments are host and port already split, and texts such as "+443"
that only the conversion of the argument accepts are left out, as is a timeout of 0 by flag.

### Login

`at` is the place in `connect`: resolve, dial, proxy, TLS, the authenticator's requests, the
index page and the allocation, then a second connection to fetch the configuration. A request
and its answer are one step, which keeps of the answer the status, the marks the client
searches for and where a cookie stands. `jar` is the cookie of the HTTP client, which every
answer may replace; `cookie` is what `Authenticate` returned, which the second connection starts
with. Cookies are known by the attempt they are from. `saml` is the callback server,
which may outlive its attempt and then holds the port of the next one.

### Pppd

The process table says what runs under a PID: nothing, a `pppd` of ours, or another program.
`step` walks through `cleanupOrphan`, `Start` and `Close`, cut at each system call; the poll of
ten seconds and the two waits of three are steps that may come at any time. `gone` is the set
of closed `waitDone` channels: `os.Process` sends nothing to a process that was reaped.
`deferred` are the goroutines `Close` leaves behind when SIGKILL has no effect; they remove the PID
file when their process ends, whoever it names by then. The history records which processes the
file never named or stopped naming (`escaped`) and whether a signal went to a process of
somebody else (`astray`).

Two things the code cannot exclude are excluded, and named so in the module: that the orphan's
PID is taken by another program within the ten seconds of the poll (`pppd_unix.go:198` would
send it SIGKILL), and that one PID comes back while a deferred close waits for it.

### Client

`Configure` is the start of the program, `Exit` its end, `Crash` the end that leaves everything
behind. `Reconnect` begins the next attempt with `--persistent`. One client runs at a time. Two
at once share the PID file, and the second ends the first one's `pppd` as an orphan; that
is real and not modelled. `intent` keeps what the user said about certificates, anywhere in file
or flags, to be compared with what the program then does (`Guarded`). The session is
one state between `Activate` and `EndSession`; `Tunnel` has what happens in it.

## What the runs check

| run | bounds | shows |
|---|---|---|
| `tunnel` | 2 attempts, 1 failing call or change of uplink, 2 uplinks (symmetric), one default route, full and split replies, resolv.conf with lines; reconnection with resolv.conf edited in place, one attempt with /1 routes and resolvconf | types; the monitor is joined; one setup per attempt; the gateway stays pinned; only originals are saved; the network is restored |
| `tunnel_live` | 1 attempt, 2 failing calls, no default route or two, all eight settings of routes, DNS and /1 routes; resolv.conf with and without lines | the gateway stays pinned and the network is restored beside a second default route; a signal ends the process; a setup that found its interface completes |
| `ipcp` | 2 addresses, 2 retries, interval 2 and timeout 5 ticks, 1 unasked frame | one meaning per identifier, agreement, budget, no starvation, the negotiation ends, it implements `Grant` |
| `relay` | channels of capacity 1, 2 packets down (both may be Acks), 2 up, a read of the PTY completing up to 2 | types, the IPCP event is kept, both pipes, shutdown and that it only winds down, delivery |
| `hdlc` | 3 frames of 3 packets, pieces of 1, 5 and 40 bytes, 1 garbled byte, a buffer of 30 | packets come out whole; garbled ones do not; of every frame of up to 3 packets with any one byte garbled to an escape or a flag (125, 126) none decodes that was not sent; a fault costs two frames at most; the buffer never fills |
| `engine` | queues of capacity 1, 1 retry, 3 frames | types, the negotiations end, `Close` stops everything, a closed pipe leaves nothing that goes round |
| `client` | 2 runs of 2 attempts, 1 crash, 2 PIDs, 1 hang, 1 failed system call, a proxy; 29 files and command lines, 7 of them refused; 2 certificates, 9 answers | types, effective settings, secrets only where they may go, no two `pppd` at once, no foreign process signalled, a signal ends the program |

The bounds are small and enough for what can go wrong. The session's state carries over from
one attempt to the next only through the fields of `Tunnel`, so two attempts show every way a
value can be stale, and more add only more of the same; TLAPS proves all six invariants
for any number. A run of the program meets only what the one before left in the
process table and the PID file, so two runs show every way an orphan can be found or missed;
two PIDs let an orphan and a new child coexist, or one PID change hands. The answers of `client`
have each mark and each status the authenticators branch on; the files have a line in error of each
kind with a pin behind it. With capacity one a channel is full whenever it is not empty, the case where
writers block. Two retries give a request that is repeated, one that is adjusted, and one too
many. The timeout is not a multiple of the interval, and falls between retransmissions as
well as after them. The buffer of 30 bytes is larger than any encoded packet, as 65536 is
larger than any packet the gateway's MRU admits. `hdlc` reads three kinds of packets: one with
control characters and an escape, one with flags in both halves of the byte range, one of
plain bytes with a check sequence that needs escapes.

`NoOverlap` excludes what the code leaves open, by name: a `pppd` may run beside a new one when
it was sent SIGKILL and hangs, or when it lost its place in the PID file by a crash before the file was
written, a failed write, read or `ps`, or an older deferred close. TLC shows with these
five that there is no sixth.

`tunnel` has failing calls and one default route over two attempts, `tunnel_live` two failing calls,
so that a call of the setup and one of the teardown fail together, and a second default route, over one.
The death of pppd is free in both.

`CHECK_DEADLOCK FALSE` in `MCIpcp.cfg` and `MCClient.cfg`: after the negotiation, and after the
last run of the program, the model has nothing to do.

### Where the code and its documents disagree

Each is a run whose property TLC violates.

* `tunnel_shutdown`: README.md promises a clean shutdown that takes the routes and DNS down.
  The polling goroutine of `tunnel.go:241` is not waited for: TLC's trace has it still in its
  setup when the teardown is over, and the process exits with what it then set.
* `tunnel_stale`: `tunnel.go:60` says the fields are reset on each connect attempt. `ipv4Cfg`
  is not; `parseXMLConfig` appends to it, so split routes accumulate and new name servers are
  ignored once two are known.
* `tunnel_silent`: a signal does not end a process that waits for an HTTP answer; nothing in
  `httptunnel` knows the context or sets a deadline. The run states the scheduler's fairness
  and leaves out the gateway's.
* `hdlc_shared`: an `Encoder` opens only its first frame with a flag, as its test wants, and
  the program's writers keep one for the session (`relay.go:246`, `tun_windows.go:347`). The
  readers (`relay.go:219`, `tun_windows.go:389`) skip the closing flag of a frame and then look
  for an opening one, so the second of two frames that share a flag is lost. On Windows, where
  both ends are this code, that is every other frame; with `pppd` it is whatever frames
  `pppd` sends without an opening flag.
* `engine_steady`: after the negotiation `Demux` still takes packets off the link, and drops
  IPv4 packets that `pumpLinkToTun` was to forward.

Read off the code, each without a run of its own:

* README.md:185 calls unknown keys a hard error; `main.go:110-111` warns and goes on with the
  keys before it. `EffectiveSettings` leaves files with unknown keys out, and `Guarded` has to allow
  for a pin behind the error, which is lost.
* `tunnel.go:490` says "Always protect the tunnel"; the host route to the gateway may fail to be
  added, and the default route is replaced without it (`tunnel.go:499-537`).
* `tunnel.go:539` says that `teardownNetwork` restores routing to its state before the VPN. On a host
  with two default routes it may delete the one that was not saved (`tunnel.go:567-568`) after
  pppd's death, and a value saved in an earlier attempt is not that state (`Tunnel` above).
* `lcp.go:28` says that an Echo-Request seen during negotiation is answered; it is until LCP has its
  Ack, and not while IPCP still negotiates.
* `tunnel.go:163` dials again with the cookie `Authenticate` returned, though the gateway may
  have renewed it in the answers between.
* The prompts (`userinput.go:30`, `:46`) do not look at the context: a signal takes effect when
  the user has answered. `Client!SignalEnds` supposes that users answer.
* `CipherList`, `Seclevel1` and `IfaceName` are read from file or flags and used nowhere else;
  a `pkcs11:` client certificate is accepted and then passed over (`connect.go:162`).

## Fairness

* `Tunnel!Scheduling`: every goroutine that can take a step does (Go's scheduler); a wait for
  the interface ends after 60 s (`tunnel.go:592`), so its timeout is a step of the goroutine;
  a signalled `pppd` exits (`Process.Close` sends SIGTERM, then SIGKILL after 3 s). A `pppd`
  stuck in the kernel, for which `pppd_unix.go:124` makes provision, is outside of it.
* `Tunnel!GatewayAnswers`: HTTP requests are answered or fail. The code does not ensure it,
  so it is a conjunct of its own, and `tunnel_silent` shows what happens without.
* `Ipcp!FairSpec`: the client runs and time passes. The gateway and the link owe nothing.
* `Relay!FairSpec`: a goroutine moves when it can do so without the other side. Nobody has to
  send a packet or to take one; only `Delivered` supposes that `pppd` takes what it is
  offered. The callback `OnIPCP` returns (`Tunnel!SetupCompletes` and the 60 s limit).
* `Engine!FairSpec`: goroutines run, timers run out. Frames and `Close` owe nothing.
* `Client!FairSpec`: the client takes its next step, and the gateway, the proxy and the user
  answer what they are asked (the code sets no deadline for them: see `tunnel_silent` and
  `connect.go:103`). Nobody need come back from the SAML page, and a session need not end by
  itself. Per PID, a `pppd` that hangs wakes up some time, and SIGKILL ends one that does not
  hang; SIGTERM need not.

No strong fairness is used anywhere.

## What is proved

All theorems are proved for every value of the constants under the named assumptions
(`TunnelAssumption`, `IpcpAssumption`, `RelayAssumption`, `EngineAssumption`, `HdlcAssumption`,
`SettingsAssumption`, `LoginAssumption`, `PppdAssumption`, `ClientAssumption`), which state
types, that capacities are not zero and that distinguished values are distinct. What some
theorems about `Hdlc` suppose beyond that is in their statements and below.

`TunnelProofs`: type correctness (`TypeCorrect`), that no monitor exists outside `RunLoop`
(`Joined`), and that at most one goroutine of an attempt is in `onIPCPComplete`
(`Exclusive`). Neither of the last two is inductive: mutual exclusion needs to know that whoever
is inside has its attempt's once at "running" (`Claims`), and that the attempt a monitor
belongs to does not change under it, which is what `MonitorJoined` gives when the attempt
number advances. `SetupInv` is the conjunction. The proof goes by the main goroutine, the
agents and the world.

On top of it `RouteInv` gives `Pinned` (`GatewayPinned`): an interface exists only while
`RunLoop` runs, and no route leads to ppp without one (`Link`); the table the attempt began with
has no default route through ppp, and only ppp ever stands in 0.0.0.0/1 (`Clean`); until a setup
reads the default route the default routes are those from before, with nothing in the halves
beside them (`Untouched`); a goroutine about to pin holds the route that was saved, one of the
host's own, and one past the pin has the gateway reached through it, unless one of the two calls
failed (`Held`, `Anchored`); and the route that was saved is not one of the client's own
(`SavedHop`). `BackupInv` gives `Originals`
(`SavesOnlyOriginals`): the backup is nothing that the client wrote (`Kept`), because a file
with both original lines and a block of the client's means that the originals are saved, that the
setup has passed its DNS step, and that the teardown has not reached its own (`BlockIsOurs`) - or
that a `dns.Remove` has failed, which excuses it for good (`DNSLost`).

`RestoreProofs`: `Restored`, that `connect` returns with the network as it found it, whichever
calls failed, as far as `NetworkRestored` goes. A session changes four things, and each has its
invariant over all of `connect`: extra routes are the table's own or lead into the tunnel
(`Detours`); the host route is the saved one, where there was none, or untouched, or left over by a
failed call (`HostRoute`, `LeftPinned`); the saved route was one of the host's default routes, none
but those and ppp's is ever there, and the saved one is missing only where the teardown puts
it back (`SavedRoute`, `Movers`, `DefaultRoute`); and `resolv.conf` is as before unless the
backup is of this attempt (`SavedDNS`, `Edited` where the file is edited in place, `Registered` with
resolvconf; `Pending` tells the setup before its DNS step from that behind it). That the teardown has
a route to restore when it gets there is part of the type invariant's strengthening
(`Restorable`). The main goroutine's part of the proof is the teardown, where one difference after
the other goes; the agents' is the setup; the world's is the death of `pppd`, which takes routes
away under both.

`EngineProofs`: `Bounded`, the types of the Windows engine for any capacity and retry budget:
no channel beyond its capacity, requests paid for by retries (`Budget`), and room in `errCh` for
every pump that ends (`Errors`). `Winds` (`WindsDown`) is half of why `Close` stops everything:
`StepsLeft` weighs where each goroutine is, the frames in the channels (one passes up to three
goroutines) and the retries left, and once the pipe is closed every step lowers it, so nothing
goes round; it is never more than 5 * Cap + MaxRetries + 23 (`StepsBounded`). The other half, that
somebody can move as long as not all have stopped, is a matter of ENABLED and is TLC's
(`CloseStopsAll`).

`ClientProofs`: types (`Types`), `NoOverlap` (`StartsAlone`) and `OnlyOurs` (`SignalsOnlyOurs`,
which is silent on a PID given away between the two signals of `cleanupOrphan`).
`PppdInv` says that the child is a live `pppd` until it is reaped (`ChildKnown`), that behind
`isOurPPPD` the target is one of ours until it exits (`TargetKnown`), and that a live `pppd` is
the child, or named by the file, or accounted for by SIGKILL or the exceptions (`AllAccounted`);
at the launch the file names nothing, so everything is accounted for. The types need where
`connect` is when a routine of `Pppd` is in progress (`Placed`).

`Effective` proves `EffectiveSettings` for files of any length without unknown keys and any
combination of argument and flags. `Loaded` says what the settings are behind each line of the
file (nothing changes from the first error on); `FileLines` concludes, by induction over the lines,
that a setting is that of the last line of its key before the error, and a list those of all of
them in order (`FileSettled`). `Settled` takes this through argument and flags, and `Derived` says
that no step of a run changes its settings.
`Guards` proves `Guarded`: the settings waive or pin what the user did (`IntentKept`), there is no
cookie but one of this attempt or of the command line, and what is secret goes over a connection
that has passed the checks (`Checked`).

`HdlcProofs` goes from bits to the stream.

* *Bytes*: a byte is the sum of its bits (`SameBits`), so that exclusive or with 255 is the
  complement and with 32 its own inverse. The two entries of the table that a correct check
  sequence meets are computed (`Entries`), and whatever the sum of a packet is, its complement
  behind the packet leads to the residue 0xf0b8 (`Residue`).
* *Packets*: unescaping undoes escaping (`UnescapeEscape`, induction over the bytes), hence
  `RoundTrip`: any packet of any length decodes from its frame to itself.
* *Types*: `Types`, with the search inside the buffer.
* *A clean line* whose frames open with flags of their own: the bytes the reader has yet to
  search are the frames of the packets on their way (`Pending`), so a search finds the first of
  them whole, or nothing while part of it is missing (`NextFrame`). `OnItsWay` is the invariant;
  `Delivered` (`AllDelivered`) and `RoomLeft` (`NeverFull`, given room for one longest frame)
  follow from it.
* *A line that garbles bytes*: the *sound* places of the stream are those where the frame of a
  packet lies whole behind a flag or the beginning of the stream, and the end. A frame more is a
  place more. A garbled byte spoils at most two, that of the frame it is in and, when it was the
  flag between two, that of the frame behind it (`SoundGarble`). `Take` passes over at most one
  sound place, and then its packet comes out (`FoundFirst`, `StreamTake`). Hence `Accounted`: what
  was sent is what came out and what lies in sound places, but for two per fault. When the stream
  has been read and searched it holds nothing but its end, and `WayBack` (`Resynchronises`) follows.
* *The buffer on such a line*: no part of the stream is longer than the frames that begin in it,
  one that began before, and two per fault (`Dense`, the invariant of `StaysDense`). A buffer in
  which nothing is found holds no two sound places. So it never fills (`NeverSpins`) if it has room
  for two longest frames and two more for each byte the line garbles in all. With packets of 1500
  bytes, 65536 bytes are enough for nine; of a longer series of faults the theorem says nothing.

* *No garbled packet*: whatever comes out was sent, in that order. `Line` is what a sender has
  written for the packets sent, and what the reader has yet to search is the rest of it, with the
  bytes that were garbled in place of those written (`Remains`); that is so before and after every
  read, search and fault (`Trail`, `Traced`). What lies between two flags of the line is the frame
  of one packet (`Framing`), so a frame that decodes where the line is as it was written is that
  of a packet sent, behind all that came out before (`NextSent`). Whether a garbled frame can
  decode is a matter of the check sequence: `Detects(n)` says that where up to `n` bytes of a
  line of these packets are garbled, no frame decodes that was not sent as it is. `Authentic`:
  under `Detects(n)`, what comes out was sent as long as no more than `n` bytes have been
  garbled; `AllAuthentic` is the case of all the line garbles, `Genuine` itself. `Detects(0)` needs
  nothing (`DetectsNothing`), hence `CleanGenuine`. This part does not suppose `OwnFlags`.
* *One garbled byte*: the frame of any packet, of any length, with one byte garbled is not decoded
  (`DetectsByte`), if the byte is no escape and becomes neither an escape nor a control character,
  which the decoder skips (`Garbles`). A shift moves bits and adds one of them to some, so
  the high byte of a table entry tells the index (`HighBits`, `HighApart`); a step of the checksum
  therefore tells two bytes apart, and two sums (`FcsApart`), and data that differ in one byte have
  different sums (`SumsApart`). A byte of the escape that is garbled is one byte of the data that
  comes out wrong (`GarbledEscape`). The decoder begins at a sum of its own behind the header,
  which is that of the two bytes the header stands for (`HeaderSum`), so a garbled header counts
  as well. This is not yet `Detects(1)`: an escape that is lost or made and a control
  character leave data of another length, and a flag cuts a frame in two or joins two.

Of the theorems about the stream those from `OnItsWay` to `NeverSpins` suppose `OwnFlags`; without
it packets are lost on a clean line (`hdlc_shared`).

`Induction` has the principle of the least number, derived from the well-foundedness of inclusion
among finite sets, and from it induction up to a number (`UpTo`), the existence of functions
defined by recursion (`Recursion`) and induction over sequences (`SeqInduction`). The library states
induction for an operator, which the provers at hand cannot instantiate; here what is to be shown
is the set of the numbers, or sequences, it holds of.

`IpcpProofs`: type correctness, `Unambiguous`, `Agreed`, `WithinBudget`, `Persistent`, and
`Refines`: the negotiation implements `Grant`. The inductive invariant `IInv` says that
requests under way were sent and Acks under way were given (`Genuine`, `Honest`), that the
current identifier is the newest and used for the current proposal only (`Newest`), that
sends are paid for by retries (`Budget`), and that the time since the last request and the
time to the next add up to the restart interval (`Timely`). Agreement needs all but the last
two: an Ack of the current identifier was given for a request that was sent under it, and
that request is the current proposal. Refinement then maps an accepted Ack to `Adopt`, the
gateway's Acks to `Grant`, failures to `Fail`, everything else to stuttering.

`RelayProofs`: type correctness, `Kept`, and that both directions implement `Pipe`
(`GatewayToPppd`, `PppdToGateway`) for channels of any capacity and reads of any burst. The
invariant behind the pipes is `Ordered`: the packets a reader has read are, in order, those
written, the one in the writer's hand, those in the channel and those in the reader's hand.
It needs to know who holds what where (`Held`): a reader that reads holds nothing, a writer
that writes holds one packet. `PacketStep` reduces each step that moves packets to a fact
about four sequences (`LineRead`, `LineForward`, `LineRecv`, `LineAccept`). `EventKept` needs
`Expected`: before the first Ack the monitor waits unless the context is done. `Winds`
(`WindsDown`) bounds the shutdown of `RunLoop` as its namesake does the engine's: once the context
is done every step lowers `StepsLeft`, because a reader looks at the context before each read.
A read it is in may still bring `Burst` packets, each of which may be forwarded, taken and written.
So at most 4 * Cap + 6 * Burst + 19 steps are left, of all goroutines and the world outside;
`Stops`, that they are taken, is TLC's.

Only model-checked: all liveness (`SignalEndsProcess`, `SetupCompletes`, `Ends`, `Stops`,
`Delivered` of `Relay`, `NegotiationEnds`, `CloseStopsAll`, `SignalEnds`), which the proof system
does not handle, and the hypothesis of `AllAuthentic` (`Detected`). That a garbled frame never
decodes is not true of every set of packets: a check sequence of 16 bits lets some patterns of
errors pass, one garbled byte among them when it is the escape itself, since what follows then
counts as it stands and the frame is a byte longer. TLC tries every line of up to three packets of
`hdlc`, with any one byte replaced by an escape or a flag.

## What is not modelled

* macOS and Windows route and DNS managers: they run utilities (`route`, `netsh`, `dscacheutil`)
  whose effect is not in this repository.
* The FortiGate header and the layouts of Echo and Terminate frames: straight-line code over a
  few bytes. One edge of it is among the hazards: a length field below four.
* The wintun loader, and the driver's behaviour when its session ends under a pump.
* The text of HTTP requests and answers, the XML search, prompts, logging, the arguments of
  `pppd`, cryptography, version and build.
* Data: route metrics beyond the order of routes through ppp and others (a restored default route
  loses its metric, `route_linux.go:32`), the
  order of lines in `resolv.conf`, packet contents outside of `Hdlc`, the fields of a login
  challenge, which are handed back unread.
* Data races: unsynchronised reads of `ipv4Cfg` and `savedDefault` see a whole old or new
  value in the model.
* Two clients at once on one host, and a PID that comes back within a wait of ten seconds
  (see `Pppd` and `Client`).

## Plan

Done, in this order: `Tunnel` (the heart of the program), `Ipcp` with `Grant` and their
proofs, `Relay` with `Pipe`, `Hdlc`, `Engine`, `TunnelProofs`, `RelayProofs`; `Settings`,
`Login`, `Pppd` and `Client` with `ClientProofs`; the rest of `TunnelProofs`,
`RestoreProofs`, `EngineProofs`; `Induction`, `HdlcProofs`, and the settings and secrets of
`ClientProofs`.

To come:

1. Two clients on one host: what the second one's `cleanupOrphan` does to the first one's session.
2. `Engine`: answers to Echo-Requests and Configure-Requests in each phase, with the patience of
   the gateway, and the wintun session as a resource that ends under its users.
3. The renewal of a cookie between allocation and second connection, in `Login`.
4. Proof of the restoration with a stray goroutine bounded to one system call.
5. `Detects(1)` from `DetectsByte`, on conditions on the packets and the garbage under which no
   escape is lost or made and no flag is hit.
