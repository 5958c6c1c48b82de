------------------------------- MODULE Tunnel -------------------------------
(***************************************************************************)
(* The life of one openfortivpn process: tunnel.Run and connect (the main  *)
(* goroutine), the monitor goroutine that RunLoop starts and joins, the    *)
(* polling goroutine that connect starts and nobody joins, and the parts   *)
(* of the operating system they change - the routing table, resolv.conf,  *)
(* the ppp interface.  One attempt is one call of connect; --persistent    *)
(* makes several.  The packet relay, pppd and the gateway appear as the    *)
(* events the tunnel can tell apart; module Ipcp opens one of them up.     *)
(***************************************************************************)
EXTENDS Integers, Sequences, FiniteSets

CONSTANTS
  MaxAttempts,   \* bound on the calls of connect
  MaxFaults,     \* bound on failing calls and changes of the host's uplink together
  Uplinks,       \* physical next hops the host may route through
  HostDefaults,  \* sets of uplinks the host may have default routes through
  SplitNets,     \* networks a gateway may ask to be split-routed
  IPs,           \* addresses a gateway may assign
  Servers,       \* DNS servers a gateway may name
  Configs,       \* config.Config values under study, see ConfigType
  Replies,       \* the gateway's XML configurations, see ReplyType
  Resolvs,       \* contents of resolv.conf at start: has it lines of its own?
  None           \* nil

Monitor  == 0                  \* ifConfigMonitor of the running attempt
Attempts == 1..MaxAttempts
Pollers  == Attempts           \* the polling goroutine of each attempt
Agents   == {Monitor} \cup Pollers

PPP    == "ppp"                                   \* the ppp interface as next hop
Hops   == Uplinks \cup {PPP}
Halves == {"0/1", "128/1"}
Dests  == {"default", "gateway"} \cup Halves \cup SplitNets
\* The calls of setup and teardown whose failure is at most logged.
Calls  == {"getdef", "pin", "route", "swap", "dns", "restoreDNS", "unpin", "clear", "restore"}

ConfigType == [SetRoutes: BOOLEAN, SetDNS: BOOLEAN, HalfInternetRoutes: BOOLEAN,
               UseResolvconf: BOOLEAN, Persistent: BOOLEAN]
ReplyType  == [ip: IPs \cup {None}, ns: Seq(Servers), split: SUBSET SplitNets]
InfoType   == [ip: IPs \cup {None}, dns: BOOLEAN]        \* vpnio.IPCPInfo
\* resolv.conf: its own lines (kept or lost) under some blocks of VPN lines.
ContentType == [orig: BOOLEAN, vpn: Nat]

ASSUME TunnelAssumption ==
  /\ MaxAttempts \in Nat \ {0}
  /\ MaxFaults \in Nat
  /\ HostDefaults \subseteq SUBSET Uplinks
  /\ Configs \subseteq ConfigType
  /\ Replies \subseteq ReplyType
  /\ Resolvs \subseteq BOOLEAN
  /\ None \notin Hops \cup IPs \cup Servers
  /\ PPP \notin Uplinks
  /\ SplitNets \cap ({"default", "gateway"} \cup Halves) = {}

NoContent == [orig |-> FALSE, vpn |-> 0]
NoInfo    == [ip |-> None, dns |-> FALSE]
NoConfig  == [ip |-> None, ns |-> << >>, split |-> {}]

VARIABLES
  \* the process
  cfg,            \* the user's configuration
  pc,             \* where the main goroutine is
  attempt,        \* number of the running call of connect
  cancelled,      \* the context of Run is done (SIGINT, SIGTERM, SIGHUP)
  state,          \* Tunnel.state
  ipv4Cfg,        \* Tunnel.ipv4Cfg
  savedDefault,   \* Tunnel.savedDefault
  savedGateway,   \* Tunnel.savedGatewayRoute
  backup,         \* resolvConfDNS.backup
  \* the goroutines that may run onIPCPComplete
  apc,            \* where each one is
  info,           \* the IPCPInfo each one holds
  def,            \* defRoute in each one's onIPCPComplete
  once,           \* ipcpOnce of each attempt
  ipcpCh,         \* the event channel of the running RunLoop
  \* the world
  pppd,           \* the ppp process: none, running, or running and signalled
  lease,          \* the address this session's IPCP negotiation settles on
  iface,          \* the address of the ppp interface, None when there is none
  table,          \* routing table: the next hops of each destination, whatever their metrics
  resolv,         \* resolv.conf
  roams,          \* changes of uplink so far
  \* history, for the properties
  was,            \* the network when the attempt began: its table and resolv
  routeBy,        \* the attempt that last stored savedDefault, 0 for none
  dnsBy,          \* the attempt that last stored backup, 0 for none
  stray,          \* a step of onIPCPComplete ran outside its own RunLoop
  reply,          \* the gateway's XML configuration of this attempt
  failed          \* the calls that failed so far, each with its attempt

procVars  == <<cfg, pc, attempt, cancelled, state>>
tunVars   == <<ipv4Cfg, savedDefault, savedGateway, backup>>
agentVars == <<apc, info, def, once, ipcpCh>>
linkVars  == <<pppd, lease, iface>>
netVars   == <<table, resolv>>
hist      == <<was, routeBy, dnsBy, stray, reply, failed>>
vars == <<procVars, tunVars, agentVars, linkVars, netVars, roams, hist>>

MainPC == {"connect", "dial", "auth", "allocate", "redial", "fetch", "start",
           "activate", "relay", "join", "restoreDNS", "unpin", "clear",
           "restore", "down", "cleanup", "backoff", "exited"}
\* The steps of onIPCPComplete, run inside ipcpOnce.Do.
BodyPC  == {"find", "getdef", "pin", "route", "swap", "dns", "up"}
AgentPC == {"off", "select", "read", "poll", "enter", "exit"} \cup BodyPC

AttemptOf(g) == IF g = Monitor THEN attempt ELSE g
InRunLoop    == pc \in {"relay", "join"}
Alive        == pc # "exited"                 \* exit takes every goroutine along

Init ==
  /\ cfg \in Configs
  /\ pc = "connect" /\ attempt = 1 /\ cancelled = FALSE
  /\ state = "down"
  /\ ipv4Cfg = NoConfig /\ savedDefault = None /\ savedGateway = None
  /\ backup = NoContent
  /\ apc = [g \in Agents |-> "off"]
  /\ info = [g \in Agents |-> NoInfo]
  /\ def = [g \in Agents |-> None]
  /\ once = [a \in Attempts |-> "new"]
  /\ ipcpCh = "empty"
  /\ pppd = "none" /\ lease = None /\ iface = None
  /\ \E us \in HostDefaults :
       table = [d \in Dests |-> IF d = "default" THEN us ELSE {}]
  /\ \E b \in Resolvs : resolv = [orig |-> b, vpn |-> 0]
  /\ roams = 0
  /\ was = [table |-> table, resolv |-> resolv]
  /\ routeBy = 0 /\ dnsBy = 0 /\ stray = FALSE /\ reply = NoConfig
  /\ failed = {}

-----------------------------------------------------------------------------
(* Calls that fail: what a call of this attempt leaves in the history.      *)

FaultLeft == roams + Cardinality(failed) < MaxFaults
Failed(c) == <<attempt, c>> \in failed
Succeeds  == failed' = failed
Fails(c, must) == /\ must \/ FaultLeft
                  /\ failed' = failed \cup {<<attempt, c>>}

(* The routing table, as netlinkRouteManager changes it.                   *)

\* A destination takes one route, but there may be default routes of several metrics;
\* a route through ppp needs the interface.
Accepts(d, h) == /\ h \notin table[d]
                 /\ table[d] = {} \/ d = "default"
                 /\ h = PPP => iface # None

\* RouteAdd: refused where a route is already, or for reasons of its own - an unknown
\* interface, a next hop off link, no permission.
AddRoute(d, h, c) ==
  \/ Accepts(d, h) /\ table' = [table EXCEPT ![d] = @ \cup {h}] /\ Succeeds
  \/ table' = table /\ Fails(c, table[d] # {} \/ ~Accepts(d, h))

\* A loop of RouteAdd through ppp, each of which may fail, for whatever reason.
AddThroughPPP(wanted, c) ==
  LET free == {d \in wanted : Accepts(d, PPP)}
  IN \E ds \in SUBSET free :
       /\ table' = [d \in Dests |-> IF d \in ds THEN table[d] \cup {PPP} ELSE table[d]]
       /\ (ds = free /\ Succeeds) \/ Fails(c, FALSE)

\* The first of some routes: one through ppp has the lowest metric.
First(hs) == IF PPP \in hs THEN {PPP} ELSE hs

\* RouteDel matches the next hop when it has one; a route through ppp has none and
\* matches any route to the destination, and the first one goes.  That there is none is
\* no failure.
Matching(d, h) == IF h = PPP THEN First(table[d]) ELSE table[d] \cap {h}
DeleteRoute(d, h, c) ==
  \/ \E r \in Matching(d, h) : table' = [table EXCEPT ![d] = @ \ {r}] /\ Succeeds
  \/ table' = table /\ ((Matching(d, h) = {} /\ Succeeds) \/ Fails(c, FALSE))

\* The kernel drops the routes of an interface that disappears.
FlushPPP(t) == [d \in Dests |-> t[d] \ {PPP}]

(* resolv.conf, edited in place or through the resolvconf utility.          *)

\* WriteFile truncates first: a write that fails leaves the old file or none of it.
Unwritten(old) == resolv' \in {old, NoContent}

\* ReadFile may fail, or resolvconf, and nothing happens, or WriteFile.
AddDNS ==
  \/ UNCHANGED <<resolv, backup, dnsBy>> /\ Fails("dns", FALSE)
  \/ /\ cfg.UseResolvconf
     /\ resolv' = [resolv EXCEPT !.vpn = 1] /\ UNCHANGED <<backup, dnsBy>> /\ Succeeds
  \/ /\ ~cfg.UseResolvconf
     /\ backup' = resolv /\ dnsBy' = attempt
     /\ \/ resolv' = [resolv EXCEPT !.vpn = resolv.vpn + 1] /\ Succeeds
        \/ Unwritten(resolv) /\ Fails("dns", FALSE)

\* Faulty: the block of the latest setup is taken out, set up or not.
RemoveOneBlock == resolv' = [resolv EXCEPT !.vpn = @ - 1] /\ Succeeds

RemoveDNS ==
  \/ /\ resolv' = IF cfg.UseResolvconf THEN [resolv EXCEPT !.vpn = 0]
                  ELSE IF backup = NoContent THEN resolv ELSE backup
     /\ Succeeds
  \/ cfg.UseResolvconf /\ resolv' = resolv /\ Fails("restoreDNS", FALSE)
  \/ ~cfg.UseResolvconf /\ backup # NoContent /\ Unwritten(resolv) /\ Fails("restoreDNS", FALSE)

(* parseXMLConfig adds to what an earlier attempt left in ipv4Cfg.          *)

AppendServers(old, new) ==
  LET all == old \o new IN IF Len(all) <= 2 THEN all ELSE SubSeq(all, 1, 2)

ParseXML(c, r) == [ip    |-> r.ip,
                   ns    |-> AppendServers(c.ns, r.ns),
                   split |-> c.split \cup r.split]

-----------------------------------------------------------------------------
(* The main goroutine: Run and connect.                                    *)

Goto(p) == pc' = p /\ UNCHANGED <<cfg, attempt, cancelled, state>>

Connect ==
  /\ pc = "connect"
  /\ pc' = "dial" /\ state' = "connecting"
  /\ was' = [table |-> table, resolv |-> resolv]
  /\ UNCHANGED <<cfg, attempt, cancelled, tunVars, agentVars, linkVars,
                 netVars, roams, routeBy, dnsBy, stray, reply, failed>>

\* Resolve the gateway and open the first TLS connection; both end with the
\* context.
Dial ==
  /\ pc = "dial" /\ ~cancelled
  /\ Goto("auth")
  /\ UNCHANGED <<tunVars, agentVars, linkVars, netVars, roams, hist>>

\* The HTTP exchanges do not look at the context.
Authenticate ==
  /\ pc = "auth"
  /\ Goto("allocate")
  /\ UNCHANGED <<tunVars, agentVars, linkVars, netVars, roams, hist>>

RequestVPNAllocation ==
  /\ pc = "allocate"
  /\ Goto("redial")
  /\ UNCHANGED <<tunVars, agentVars, linkVars, netVars, roams, hist>>

Redial ==
  /\ pc = "redial" /\ ~cancelled
  /\ Goto("fetch")
  /\ UNCHANGED <<tunVars, agentVars, linkVars, netVars, roams, hist>>

FetchConfig ==
  /\ pc = "fetch"
  /\ reply' \in Replies /\ ipv4Cfg' = ParseXML(ipv4Cfg, reply')
  /\ Goto("start")
  /\ UNCHANGED <<savedDefault, savedGateway, backup, agentVars, linkVars,
                 netVars, roams, was, routeBy, dnsBy, stray, failed>>

StartPPPD ==
  /\ pc = "start"
  /\ pppd' = "running" /\ lease' \in IPs
  /\ Goto("activate")
  /\ UNCHANGED <<tunVars, agentVars, iface, netVars, roams, hist>>

\* SendRaw, then the polling goroutine and RunLoop with its monitor start.
Activate ==
  /\ pc = "activate"
  /\ Goto("relay")
  /\ apc' = [apc EXCEPT ![Monitor] = "select", ![attempt] = "read"]
  /\ ipcpCh' = "empty"
  /\ UNCHANGED <<tunVars, info, def, once, linkVars, netVars, roams, hist>>

\* Every step before the relay may fail, and connect returns: the deferred
\* calls run, teardownNetwork does not.
Fail ==
  /\ pc \in {"dial", "auth", "allocate", "redial", "fetch", "start", "activate"}
  /\ Goto("cleanup")
  /\ UNCHANGED <<tunVars, agentVars, linkVars, netVars, roams, hist>>

Signalled == IF pppd = "running" THEN "killed" ELSE pppd

\* Faulty: RunLoop waits without unblocking anybody.
LeaveBlocked ==
  /\ Goto("join")
  /\ UNCHANGED <<tunVars, agentVars, linkVars, netVars, roams, hist>>

\* RunLoop's select: an error of a relay goroutine or the context, then
\* unblock, which closes the ppp process.
LeaveRelay ==
  /\ pppd' = Signalled
  /\ Goto("join")
  /\ UNCHANGED <<tunVars, agentVars, lease, iface, netVars, roams, hist>>

RelayError == pc = "relay" /\ ~cancelled /\ pppd # "none" /\ LeaveRelay
StopRelay  == pc = "relay" /\ (cancelled \/ pppd = "none") /\ LeaveRelay

\* Faulty: only the packet goroutines are waited for.
JoinRelays ==
  /\ pc = "join" /\ pppd = "none"
  /\ pc' = "restoreDNS" /\ state' = "disconnecting"
  /\ UNCHANGED <<cfg, attempt, cancelled, tunVars, agentVars, linkVars,
                 netVars, roams, hist>>

\* wg.Wait: the relay goroutines end when pppd is gone, the monitor when it
\* returns.  Process.Wait then returns at once.
Join ==
  /\ pc = "join" /\ pppd = "none" /\ apc[Monitor] = "exit"
  /\ pc' = "restoreDNS" /\ state' = "disconnecting"
  /\ apc' = [apc EXCEPT ![Monitor] = "off"] /\ ipcpCh' = "empty"
  /\ UNCHANGED <<cfg, attempt, cancelled, tunVars, info, def, once, linkVars, netVars, roams, hist>>

\* teardownNetwork, one call at a time; each may fail, and the next one follows.
RestoreDNS ==
  /\ pc = "restoreDNS"
  /\ IF cfg.SetDNS THEN RemoveDNS ELSE UNCHANGED resolv /\ Succeeds
  /\ Goto("unpin")
  /\ UNCHANGED <<tunVars, agentVars, linkVars, table, roams, was, routeBy, dnsBy,
                 stray, reply>>

ReplacesDefault == cfg.SetRoutes /\ savedDefault # None
                     /\ ipv4Cfg.split = {} /\ ~cfg.HalfInternetRoutes

\* Faulty: the host route is only removed along with the default route.
UnpinWithDefault ==
  /\ pc = "unpin"
  /\ IF ReplacesDefault /\ savedGateway # None
     THEN DeleteRoute("gateway", savedGateway, "unpin") /\ savedGateway' = None
     ELSE UNCHANGED <<table, savedGateway, failed>>
  /\ Goto(IF ReplacesDefault THEN "clear" ELSE "down")
  /\ UNCHANGED <<ipv4Cfg, savedDefault, backup, agentVars, linkVars, resolv,
                 roams, was, routeBy, dnsBy, stray, reply>>

UnpinGateway ==
  /\ pc = "unpin"
  /\ IF savedGateway = None THEN UNCHANGED <<table, failed>>
     ELSE DeleteRoute("gateway", savedGateway, "unpin")
  /\ savedGateway' = None
  /\ Goto(IF ReplacesDefault THEN "clear" ELSE "down")
  /\ UNCHANGED <<ipv4Cfg, savedDefault, backup, agentVars, linkVars, resolv,
                 roams, was, routeBy, dnsBy, stray, reply>>

\* Any default route there is, the host's other one too.
ClearDefault ==
  /\ pc = "clear"
  /\ DeleteRoute("default", PPP, "clear")
  /\ Goto("restore")
  /\ UNCHANGED <<tunVars, agentVars, linkVars, resolv, roams, was, routeBy, dnsBy,
                 stray, reply>>

\* Faulty: a default route that is left is taken for the original one.
RestoreIfNone ==
  /\ pc = "restore"
  /\ IF table["default"] = {} THEN AddRoute("default", savedDefault, "restore")
     ELSE UNCHANGED <<table, failed>>
  /\ Goto("down")
  /\ UNCHANGED <<tunVars, agentVars, linkVars, resolv, roams, was, routeBy, dnsBy,
                 stray, reply>>

RestoreDefault ==
  /\ pc = "restore"
  /\ AddRoute("default", savedDefault, "restore")
  /\ Goto("down")
  /\ UNCHANGED <<tunVars, agentVars, linkVars, resolv, roams, was, routeBy, dnsBy,
                 stray, reply>>

Down ==
  /\ pc = "down"
  /\ pc' = "cleanup" /\ state' = "down"
  /\ UNCHANGED <<cfg, attempt, cancelled, tunVars, agentVars, linkVars,
                 netVars, roams, hist>>

\* The deferred calls: Close the ppp process and wait for it.
CloseProcess ==
  /\ pc = "cleanup" /\ pppd = "running"
  /\ pppd' = Signalled
  /\ UNCHANGED <<procVars, tunVars, agentVars, lease, iface, netVars, roams, hist>>

Return ==
  /\ pc = "cleanup" /\ pppd = "none"
  /\ Goto(IF cfg.Persistent THEN "backoff" ELSE "exited")
  /\ UNCHANGED <<tunVars, agentVars, linkVars, netVars, roams, hist>>

Reconnect ==
  /\ pc = "backoff" /\ ~cancelled /\ attempt < MaxAttempts
  /\ pc' = "connect" /\ attempt' = attempt + 1
  /\ UNCHANGED <<cfg, cancelled, state, tunVars, agentVars, linkVars,
                 netVars, roams, hist>>

GiveUp ==
  /\ pc = "backoff" /\ cancelled
  /\ Goto("exited")
  /\ UNCHANGED <<tunVars, agentVars, linkVars, netVars, roams, hist>>

\* The steps that wait for the gateway's answer to an HTTP request, and the others.
AwaitGateway == Authenticate \/ RequestVPNAllocation \/ FetchConfig
                  \/ (pc \in {"auth", "allocate", "fetch"} /\ Fail)
MainStep ==
  \/ Connect \/ Dial \/ Redial \/ StartPPPD \/ Activate \/ StopRelay
  \/ (pc \notin {"auth", "allocate", "fetch"} /\ Fail)
  \/ Join \/ RestoreDNS \/ UnpinGateway \/ ClearDefault \/ RestoreDefault
  \/ Down \/ CloseProcess \/ Return \/ Reconnect \/ GiveUp

-----------------------------------------------------------------------------
(* The goroutines that lead to onIPCPComplete.                             *)

Move(g, p) == apc' = [apc EXCEPT ![g] = p]
\* The goroutine returns, and its variables go with it.
Exit(g) == /\ Move(g, "exit")
           /\ info' = [info EXCEPT ![g] = NoInfo]
           /\ def' = [def EXCEPT ![g] = None]

\* ifConfigMonitor: either case of the select when both are ready.
MonitorEvent ==
  /\ apc[Monitor] = "select" /\ ipcpCh = "queued"
  /\ Move(Monitor, "enter")
  /\ ipcpCh' = "taken"
  /\ \E b \in BOOLEAN : info' = [info EXCEPT ![Monitor] = [ip |-> lease, dns |-> b]]
  /\ UNCHANGED <<procVars, tunVars, def, once, linkVars, netVars, roams, hist>>

MonitorCancelled ==
  /\ apc[Monitor] = "select" /\ (cancelled \/ pc = "join")
  /\ Exit(Monitor)
  /\ UNCHANGED <<procVars, tunVars, once, ipcpCh, linkVars, netVars,
                 roams, hist>>

\* The polling goroutine reads the shared ipv4Cfg when it gets to run, looks
\* for that address for up to a minute, then reads ipv4Cfg again.
PollerRead(g) ==
  /\ apc[g] = "read"
  /\ info' = [info EXCEPT ![g] = [ip |-> ipv4Cfg.ip, dns |-> FALSE]]
  /\ Move(g, IF ipv4Cfg.ip = None THEN "exit" ELSE "poll")
  /\ UNCHANGED <<procVars, tunVars, def, once, ipcpCh, linkVars, netVars, roams, hist>>

Found(g) == iface # None /\ iface = info[g].ip

PollerFound(g) ==
  /\ apc[g] = "poll" /\ Found(g)
  /\ info' = [info EXCEPT ![g] = [ip |-> ipv4Cfg.ip, dns |-> ipv4Cfg.ns # << >>]]
  /\ Move(g, "enter")
  /\ UNCHANGED <<procVars, tunVars, def, once, ipcpCh, linkVars, netVars, roams, hist>>

PollerTimeout(g) ==
  /\ apc[g] = "poll" /\ ~Found(g)
  /\ Exit(g)
  /\ UNCHANGED <<procVars, tunVars, once, ipcpCh, linkVars, netVars,
                 roams, hist>>

\* Faulty: no once.
EnterAlways(g) ==
  /\ apc[g] = "enter"
  /\ once' = [once EXCEPT ![AttemptOf(g)] = "running"]
  /\ Move(g, "find")
  /\ UNCHANGED <<procVars, tunVars, info, def, ipcpCh, linkVars, netVars, roams, hist>>

\* ipcpOnce.Do: the second caller waits for the first to finish.
EnterOnce(g) ==
  /\ apc[g] = "enter"
  /\ \/ /\ once[AttemptOf(g)] = "new"
        /\ once' = [once EXCEPT ![AttemptOf(g)] = "running"]
        /\ Move(g, "find")
        /\ UNCHANGED <<info, def>>
     \/ /\ once[AttemptOf(g)] = "done"
        /\ Exit(g)
        /\ UNCHANGED once
  /\ UNCHANGED <<procVars, tunVars, ipcpCh, linkVars, netVars, roams, hist>>

LeaveOnce(g) ==
  /\ Exit(g)
  /\ once' = [once EXCEPT ![AttemptOf(g)] = "done"]

\* History: this step of g belongs to the RunLoop of its own attempt, or not.
Mark(g) == /\ stray' = (stray \/ ~(InRunLoop /\ AttemptOf(g) = attempt))
           /\ UNCHANGED <<was, reply>>

FindIface(g) ==
  /\ apc[g] = "find" /\ Found(g)
  /\ Move(g, "getdef")
  /\ UNCHANGED <<procVars, tunVars, info, def, once, ipcpCh, linkVars, netVars,
                 roams, hist>>

FindTimeout(g) ==
  /\ apc[g] = "find" /\ ~Found(g)
  /\ LeaveOnce(g)
  /\ UNCHANGED <<procVars, tunVars, ipcpCh, linkVars, netVars, roams, hist>>

\* GetDefault takes the first route to address zero, 0.0.0.0/1 among them.
Listed == First(table["default"] \cup table["0/1"])

\* Faulty: no default route is taken for a failure of the setup.
NeedDefault(g) ==
  /\ apc[g] = "getdef"
  /\ \/ \E h \in Listed : /\ def' = [def EXCEPT ![g] = h]
                          /\ savedDefault' = h /\ routeBy' = attempt
                          /\ Move(g, IF cfg.SetRoutes THEN "pin" ELSE "dns")
                          /\ UNCHANGED <<info, once>>
     \/ Listed = {} /\ LeaveOnce(g) /\ UNCHANGED <<savedDefault, routeBy>>
  /\ Mark(g)
  /\ UNCHANGED <<procVars, ipv4Cfg, savedGateway, backup, ipcpCh,
                 linkVars, netVars, roams, dnsBy, failed>>

GetDefault(g) ==
  /\ apc[g] = "getdef"
  /\ \/ \E h \in Listed : /\ def' = [def EXCEPT ![g] = h]
                          /\ savedDefault' = h /\ routeBy' = attempt
                          /\ Succeeds
     \/ /\ def' = [def EXCEPT ![g] = None]
        /\ UNCHANGED <<savedDefault, routeBy>>
        /\ (Listed = {} /\ Succeeds) \/ Fails("getdef", FALSE)
  /\ Mark(g)
  /\ Move(g, IF cfg.SetRoutes THEN "pin" ELSE "dns")
  /\ UNCHANGED <<procVars, ipv4Cfg, savedGateway, backup, info, once, ipcpCh,
                 linkVars, netVars, roams, dnsBy>>

\* Faulty: the /1 routes are thought to need no host route.
PinUnlessHalf(g) ==
  /\ apc[g] = "pin"
  /\ IF def[g] # None /\ ~cfg.HalfInternetRoutes
     THEN /\ AddRoute("gateway", def[g], "pin")
          /\ savedGateway' = IF table' # table THEN def[g] ELSE savedGateway
     ELSE UNCHANGED <<table, savedGateway, failed>>
  /\ Move(g, "route")
  /\ Mark(g)
  /\ UNCHANGED <<procVars, ipv4Cfg, savedDefault, backup, info, def, once, ipcpCh,
                 linkVars, resolv, roams, routeBy, dnsBy>>

\* Faulty: the default route is looked up a second time.
PinByLookup(g) ==
  /\ apc[g] = "pin"
  /\ \/ \E h \in Listed : /\ AddRoute("gateway", h, "pin")
                          /\ savedGateway' = IF table' # table THEN h ELSE savedGateway
     \/ Listed = {} /\ UNCHANGED <<table, savedGateway, failed>>
  /\ Move(g, "route")
  /\ Mark(g)
  /\ UNCHANGED <<procVars, ipv4Cfg, savedDefault, backup, info, def, once, ipcpCh,
                 linkVars, resolv, roams, routeBy, dnsBy>>

\* setupRoutes: the host route to the gateway comes first, and when it cannot be added
\* the setup goes on.
PinGateway(g) ==
  /\ apc[g] = "pin"
  /\ IF def[g] # None
     THEN /\ AddRoute("gateway", def[g], "pin")
          /\ savedGateway' = IF table' # table THEN def[g] ELSE savedGateway
     ELSE UNCHANGED <<table, savedGateway, failed>>
  /\ Move(g, "route")
  /\ Mark(g)
  /\ UNCHANGED <<procVars, ipv4Cfg, savedDefault, backup, info, def, once, ipcpCh,
                 linkVars, resolv, roams, routeBy, dnsBy>>

\* The split routes, or the two halves; else the default route makes room, if it can be
\* deleted.
SetupRoutes(g) ==
  /\ apc[g] = "route"
  /\ \/ /\ ipv4Cfg.split # {} \/ cfg.HalfInternetRoutes
        /\ AddThroughPPP(IF ipv4Cfg.split # {} THEN ipv4Cfg.split ELSE Halves, "route")
        /\ Move(g, "dns")
     \/ /\ ipv4Cfg.split = {} /\ ~cfg.HalfInternetRoutes
        /\ IF def[g] = None THEN UNCHANGED <<table, failed>>
           ELSE DeleteRoute("default", def[g], "route")
        /\ Move(g, "swap")
  /\ Mark(g)
  /\ UNCHANGED <<procVars, tunVars, info, def, once, ipcpCh, linkVars, resolv,
                 roams, routeBy, dnsBy>>

SwapDefault(g) ==
  /\ apc[g] = "swap"
  /\ AddThroughPPP({"default"}, "swap")
  /\ Move(g, "dns")
  /\ Mark(g)
  /\ UNCHANGED <<procVars, tunVars, info, def, once, ipcpCh, linkVars, resolv,
                 roams, routeBy, dnsBy>>

SetupDNS(g) ==
  /\ apc[g] = "dns"
  /\ IF cfg.SetDNS /\ (info[g].dns \/ ipv4Cfg.ns # << >>)
     THEN AddDNS ELSE UNCHANGED <<resolv, backup, dnsBy, failed>>
  /\ Mark(g)
  /\ Move(g, "up")
  /\ UNCHANGED <<procVars, ipv4Cfg, savedDefault, savedGateway, info, def, once,
                 ipcpCh, linkVars, table, roams, routeBy>>

SetUp(g) ==
  /\ apc[g] = "up"
  /\ state' = "up"
  /\ LeaveOnce(g)
  /\ Mark(g)
  /\ UNCHANGED <<cfg, pc, attempt, cancelled, tunVars, ipcpCh,
                 linkVars, netVars, roams, routeBy, dnsBy, failed>>

Body(g) == \/ FindIface(g) \/ FindTimeout(g) \/ GetDefault(g) \/ PinGateway(g)
           \/ SetupRoutes(g) \/ SwapDefault(g) \/ SetupDNS(g) \/ SetUp(g)

AgentStep(g) ==
  /\ Alive
  /\ \/ g = Monitor /\ (MonitorEvent \/ MonitorCancelled)
     \/ g \in Pollers /\ (PollerRead(g) \/ PollerFound(g) \/ PollerTimeout(g))
     \/ EnterOnce(g)
     \/ Body(g)

-----------------------------------------------------------------------------
(* The world outside.                                                      *)

Cancel ==
  /\ Alive /\ ~cancelled
  /\ cancelled' = TRUE
  /\ UNCHANGED <<cfg, pc, attempt, state, tunVars, agentVars, linkVars,
                 netVars, roams, hist>>

\* sslReader recognises the gateway's Configure-Ack, before pppd gets it; the
\* monitor takes one event only.
AckSeen ==
  /\ InRunLoop /\ pppd # "none" /\ ipcpCh = "empty"
  /\ ipcpCh' = "queued"
  /\ UNCHANGED <<procVars, tunVars, apc, info, def, once, linkVars, netVars, roams, hist>>

IfaceUp ==
  /\ pc = "relay" /\ pppd = "running" /\ iface = None
  /\ iface' = lease
  /\ UNCHANGED <<procVars, tunVars, agentVars, pppd, lease, netVars, roams, hist>>

PPPDExit ==
  /\ pppd # "none"
  /\ pppd' = "none" /\ iface' = None
  /\ table' = FlushPPP(table)
  /\ UNCHANGED <<procVars, tunVars, agentVars, lease, resolv, roams, hist>>

\* The host changes its uplink while the client waits to reconnect.
Roam ==
  /\ pc = "backoff" /\ FaultLeft
  /\ \E us \in HostDefaults \ {table["default"]} :
       table' = [table EXCEPT !["default"] = us]
  /\ roams' = roams + 1
  /\ UNCHANGED <<procVars, tunVars, agentVars, linkVars, resolv, hist>>

Exited == ~Alive /\ UNCHANGED vars

Next == \/ MainStep \/ AwaitGateway \/ RelayError
        \/ \E g \in Agents : AgentStep(g)
        \/ Cancel \/ AckSeen \/ IfaceUp \/ PPPDExit \/ Roam \/ Exited

Spec == Init /\ [][Next]_vars

\* The scheduler runs every goroutine that can move; a signalled ppp process
\* exits (SIGTERM, then SIGKILL).
Scheduling == /\ WF_vars(MainStep)
              /\ \A g \in Agents : WF_vars(AgentStep(g))
              /\ WF_vars(pppd = "killed" /\ PPPDExit)

\* The gateway answers every HTTP request, or the connection breaks.
GatewayAnswers == WF_vars(AwaitGateway)

SilentSpec == Spec /\ Scheduling
FairSpec   == SilentSpec /\ GatewayAnswers

-----------------------------------------------------------------------------
TypeOK ==
  /\ cfg \in Configs /\ pc \in MainPC /\ attempt \in Attempts
  /\ cancelled \in BOOLEAN
  /\ state \in {"down", "connecting", "up", "disconnecting"}
  /\ ipv4Cfg \in ReplyType /\ Len(ipv4Cfg.ns) <= 2
  /\ savedDefault \in Hops \cup {None} /\ savedGateway \in Hops \cup {None}
  /\ backup \in ContentType /\ resolv \in ContentType
  /\ apc \in [Agents -> AgentPC]
  /\ info \in [Agents -> InfoType]
  /\ def \in [Agents -> Hops \cup {None}]
  /\ once \in [Attempts -> {"new", "running", "done"}]
  /\ ipcpCh \in {"empty", "queued", "taken"}
  /\ pppd \in {"none", "running", "killed"}
  /\ lease \in IPs \cup {None} /\ iface \in IPs \cup {None}
  /\ table \in [Dests -> SUBSET Hops]
  /\ roams \in Nat
  /\ was \in [table: [Dests -> SUBSET Hops], resolv: ContentType]
  /\ routeBy \in 0..MaxAttempts /\ dnsBy \in 0..MaxAttempts
  /\ stray \in BOOLEAN /\ reply \in ReplyType
  /\ failed \subseteq Attempts \X Calls

-----------------------------------------------------------------------------
(* What holds.                                                             *)

\* RunLoop's wg.Wait keeps the monitor's onIPCPComplete out of the teardown:
\* once RunLoop has returned no monitor goroutine exists.
MonitorJoined == ~InRunLoop => apc[Monitor] = "off"

\* ipcpOnce: the monitor and the polling goroutine of one attempt are never in
\* onIPCPComplete together.
OneSetup ==
  \A g, h \in Agents :
    g # h /\ AttemptOf(g) = AttemptOf(h) /\ apc[g] \in BodyPC => apc[h] \notin BodyPC

\* While packets are relayed and traffic goes through the tunnel, the gateway itself
\* is reached through the very uplink whose default route was saved: the TLS session is
\* never routed into itself - unless the default route could not be read or the host
\* route not be added: setupRoutes then warns and goes on without it.
GatewayPinned ==
  InRunLoop /\ ~stray /\ was.table["default"] # {}
    /\ ~Failed("getdef") /\ ~Failed("pin")
    /\ PPP \in table["default"] \cup table["0/1"] \cup table["128/1"]
      => table["gateway"] = {savedDefault} /\ savedDefault \in was.table["default"]

\* A call of dns.Remove has failed in some attempt.
DNSLost == \E a \in Attempts : <<a, "restoreDNS">> \in failed

\* What is kept for the restoration was never written by the client itself: the
\* saved default route is no tunnel route, the backup has no VPN name servers beside
\* lines of the host's own.  (A file without any is not written back, and a later
\* attempt finds in it what this one left - as it does when dns.Remove failed.)
SavesOnlyOriginals ==
  ~stray => /\ savedDefault # PPP
            /\ backup.vpn = 0 \/ ~backup.orig \/ DNSLost

\* connect returns with the network as it found it - also when the ppp process died
\* between any two steps of the setup, and whichever calls of the setup failed - provided
\* what it restores was saved in this attempt and no setup strayed out of its RunLoop.
\* A failed call of the teardown loses what it was to restore and nothing else.  Of the
\* host's default routes the saved one is there again, and no foreign one: with one uplink
\* that is all there was, but of more of them the teardown may have deleted another.
NetworkRestored ==
  pc = "cleanup" /\ pppd = "none" /\ ~stray =>
    /\ \A d \in Dests \ {"default", "gateway"} : table[d] = was.table[d]
    /\ ~Failed("unpin") => table["gateway"] = was.table["gateway"]
    /\ routeBy = 0 => table["default"] = was.table["default"]
    /\ routeBy = attempt =>
         /\ table["default"] \subseteq was.table["default"]
         /\ ~Failed("restore") => savedDefault \in table["default"]
    /\ dnsBy \in {0, attempt} /\ was.resolv # NoContent /\ ~DNSLost
         => resolv = was.resolv

\* After a signal the process ends, wherever it catches it: in the middle of a
\* setup, of a wait for the interface, of a teardown or of a backoff.
SignalEndsProcess == cancelled ~> ~Alive

\* A setup that has found the interface completes, or the interface is gone.
SetupCompletes ==
  (\E g \in Agents : apc[g] = "find" /\ Found(g))
    ~> (state = "up" \/ iface = None \/ ~Alive)

(* What the documents say and the code does not keep.                      *)

\* README.md:65 and tunnel.go:539: the process leaves routes and DNS as it found
\* them (teardownNetwork "restores routing and DNS to their pre-VPN state").
CleanShutdown ==
  ~Alive => /\ table = was.table
            /\ was.resolv # NoContent => resolv = was.resolv

\* tunnel.go:60: ipv4Cfg is reset on each connect attempt, so what an attempt
\* applies is what the gateway sent in this attempt.
ConfigOfThisAttempt == pc = "relay" => ipv4Cfg = ParseXML(NoConfig, reply)
=============================================================================
