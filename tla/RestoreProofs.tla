--------------------------- MODULE RestoreProofs ----------------------------
(***************************************************************************)
(* That a session gives the network back: NetworkRestored, for any number  *)
(* of attempts, of uplinks and of failing calls, any configuration and any *)
(* gateway.  The argument follows the four things a session changes one by *)
(* one: the routes through the tunnel that add to the table, the host      *)
(* route to the gateway, the default routes, and resolv.conf.  Each has an *)
(* invariant that says, from the first step of connect to the last, by how *)
(* much it may differ from what the attempt began with, and what the       *)
(* teardown needs to know then.                                            *)
(***************************************************************************)
EXTENDS TunnelProofs

Opening    == {"connect", "dial", "auth", "allocate", "redial", "fetch", "start", "activate"}
Attempting == pc \notin {"connect", "backoff", "exited"}
Extras     == Dests \ {"default", "gateway"}

\* Additional routes lead into the tunnel.
Detours ==
  /\ \A d \in Dests : PPP \notin was.table[d]
  /\ ~stray /\ Attempting => \A d \in Extras : table[d] \ {PPP} = was.table[d]

\* The host route is the one that was added, or the table's own, unless a failed call has
\* left it there.
LeftPinned == pc \in {"clear", "restore", "down", "cleanup"} /\ Failed("unpin")
HostRoute ==
  ~stray =>
    /\ savedGateway # None =>
         /\ pc \in {"relay", "join", "restoreDNS", "unpin"}
         /\ savedGateway # PPP /\ table["gateway"] = {savedGateway}
         /\ was.table["gateway"] = {}
    /\ savedGateway = None /\ Attempting /\ ~LeftPinned =>
         table["gateway"] = was.table["gateway"]

\* The saved default route is of this attempt, or of an earlier one, or there is none.
SavedRoute ==
  ~stray =>
    /\ routeBy <= attempt
    /\ routeBy = attempt => pc \notin Opening /\ savedDefault \in was.table["default"]
    /\ routeBy = 0 => savedDefault = None

\* A default route is deleted only after it was saved, and only where it is put back.
Replacing == cfg.SetRoutes /\ ~cfg.HalfInternetRoutes /\ ipv4Cfg.split = {}
Mover(g) ==
  /\ apc[g] \in {"pin", "route", "swap"} => cfg.SetRoutes
  /\ apc[g] \in {"pin", "route"} =>
       def[g] = None \/ (def[g] = savedDefault /\ routeBy = attempt)
Movers == ~stray /\ InRunLoop => \A g \in Agents : Own(g) => Mover(g)
DefaultRoute ==
  ~stray /\ Attempting =>
    /\ routeBy = 0 => table["default"] \ {PPP} = was.table["default"]
    /\ routeBy = attempt =>
         /\ table["default"] \subseteq was.table["default"] \cup {PPP}
         /\ pc \in {"relay", "join", "restoreDNS", "unpin"} =>
              savedDefault \in table["default"] \/ Replacing
         /\ pc \in {"down", "cleanup"} /\ ~Failed("restore") =>
              savedDefault \in table["default"]

\* resolv.conf: what the backup is, and what the file may hold when edited in place, or
\* through resolvconf.
SavedDNS ==
  ~stray =>
    /\ dnsBy <= attempt
    /\ dnsBy = attempt => pc \notin Opening /\ backup = was.resolv
    /\ dnsBy = 0 => backup = NoContent
    /\ cfg.UseResolvconf => dnsBy = 0
Pending ==
  ~InRunLoop \/ (once[attempt] # "done" /\ \A g \in Agents : Own(g) => apc[g] # "up")
Edited ==
  ~stray /\ ~cfg.UseResolvconf =>
    /\ Early /\ Pending => resolv = was.resolv
    /\ pc \in {"relay", "join", "restoreDNS"} =>
         resolv = was.resolv \/ (cfg.SetDNS /\ dnsBy = attempt)
    /\ pc \in {"unpin", "clear", "restore", "down", "cleanup"} /\ dnsBy \in {0, attempt}
         /\ was.resolv # NoContent /\ ~DNSLost => resolv = was.resolv
Registered ==
  ~stray /\ ~DNSLost /\ cfg.UseResolvconf =>
    /\ resolv.vpn # 0 => cfg.SetDNS /\ pc \in {"relay", "join", "restoreDNS"}
    /\ Attempting => was.resolv.orig = resolv.orig /\ was.resolv.vpn = 0

RouteParts == Detours /\ HostRoute /\ SavedRoute /\ Movers /\ DefaultRoute
DNSParts   == SavedDNS /\ Edited /\ Registered
RestoreInv == RouteInv /\ RouteParts /\ DNSParts

-----------------------------------------------------------------------------
(* What each kind of step leaves alone.                                    *)

\* What the main goroutine leaves alone.
LEMMA MainMoves ==
  ASSUME TypeOK, Restorable, MainStep \/ AwaitGateway \/ RelayError, ~Connect
  PROVE  /\ UNCHANGED <<was, cfg, stray, savedDefault, routeBy, dnsBy, backup, def>>
         /\ Attempting' => Attempting
         /\ pc \in {"relay", "join", "restoreDNS"} =>
              pc' \in {"relay", "join", "restoreDNS", "unpin"}
         /\ UnpinGateway \/ (savedGateway' = savedGateway /\ pc # "unpin")
         /\ UnpinGateway \/ table'["gateway"] = table["gateway"]
         /\ ClearDefault \/ RestoreDefault
              \/ (table'["default"] = table["default"] /\ pc \notin {"clear", "restore"})
         /\ \A d \in Extras : table'[d] = table[d]
<1> USE DEF procVars, tunVars, agentVars, linkVars, netVars, hist, Goto, Attempting
<1>1. CASE UnpinGateway
  <2>1. \A d \in Dests \ {"gateway"} : table'[d] = table[d]
    <3>1. CASE savedGateway = None  BY <1>1, <3>1 DEF UnpinGateway
    <3>2. CASE savedGateway # None
      <4>1. DeleteRoute("gateway", savedGateway, "unpin") /\ savedGateway \in Hops
        BY <1>1, <3>2 DEF UnpinGateway, TypeOK
      <4> QED  BY <4>1, Deleted, Names DEF Calls
    <3> QED  BY <3>1, <3>2
  <2>2. /\ pc = "unpin"
        /\ UNCHANGED <<was, cfg, stray, savedDefault, routeBy, dnsBy, backup, def>>
    BY <1>1 DEF UnpinGateway
  <2> QED  BY <1>1, <2>1, <2>2, Names DEF Extras
<1>2. CASE ClearDefault \/ RestoreDefault
  <2>1. savedDefault \in Hops \/ ~RestoreDefault
    BY DEF RestoreDefault, Restorable, TypeOK
  <2>2. \A d \in Dests \ {"default"} : table'[d] = table[d]
    BY <1>2, <2>1, Deleted, Added, Names DEF ClearDefault, RestoreDefault, Calls
  <2>3. /\ pc \in {"clear", "restore"} /\ savedGateway' = savedGateway
        /\ UNCHANGED <<was, cfg, stray, savedDefault, routeBy, dnsBy, backup, def>>
    BY <1>2 DEF ClearDefault, RestoreDefault
  <2> QED  BY <1>2, <2>2, <2>3, Names DEF Extras
<1>3. CASE Dial \/ Authenticate \/ RequestVPNAllocation \/ Redial \/ FetchConfig \/ StartPPPD
  BY <1>3 DEF Dial, Authenticate, RequestVPNAllocation, Redial, FetchConfig, StartPPPD
<1>4. CASE Activate \/ StopRelay \/ RelayError \/ Join \/ RestoreDNS
  BY <1>4 DEF Activate, StopRelay, RelayError, LeaveRelay, Join, RestoreDNS
<1>5. CASE Fail \/ Down \/ CloseProcess \/ Return \/ Reconnect \/ GiveUp
  BY <1>5 DEF Fail, Down, CloseProcess, Return, Reconnect, GiveUp
<1> QED  BY <1>1, <1>2, <1>3, <1>4, <1>5 DEF MainStep, AwaitGateway

LEMMA ConnectFrame ==
  ASSUME TypeOK, Link, Connect
  PROVE  /\ pc = "connect" /\ pc' = "dial" /\ Attempting'
         /\ was' = [table |-> table, resolv |-> resolv]
         /\ UNCHANGED <<cfg, attempt, stray, table, resolv, savedGateway, savedDefault, routeBy,
                        dnsBy, backup, apc, once, def, ipv4Cfg, failed>>
         /\ \A d \in Dests : PPP \notin table[d]
BY DEF Connect, Link, InRunLoop, Attempting, netVars, tunVars, agentVars

\* What the setups do to the routes beside the default routes and the host route.
LEMMA SetupExtras ==
  ASSUME TypeOK, NEW g \in Agents, Setup(g), NEW d \in Extras
  PROVE  table'[d] \in {table[d], table[d] \cup {PPP}}
<1>0. d \in Dests /\ d # "default" /\ d # "gateway"  BY DEF Extras
<1>1. CASE ~SetupRoutes(g) /\ ~SwapDefault(g)
  <2>1. GetDefault(g) \/ PinGateway(g) \/ SetupDNS(g) \/ SetUp(g)  BY <1>1 DEF Setup
  <2> QED  BY <1>0, <2>1, SetupTable
<1>2. CASE SwapDefault(g)
  <2>1. AddThroughPPP({"default"}, "swap")  BY <1>2 DEF SwapDefault
  <2> QED  BY <1>0, <2>1, Through, Names DEF Calls
<1>3. CASE SetupRoutes(g)
  <2>1. CASE AddThroughPPP(IF ipv4Cfg.split # {} THEN ipv4Cfg.split ELSE Halves, "route")
    <3> DEFINE ds == IF ipv4Cfg.split # {} THEN ipv4Cfg.split ELSE Halves
    <3>1. ds \subseteq Dests  BY Names DEF TypeOK, ReplyType
    <3>2. AddThroughPPP(ds, "route")  BY <2>1
    <3> HIDE DEF ds
    <3> QED  BY <1>0, <3>1, <3>2, Through DEF Calls
  <2>2. CASE def[g] # None /\ DeleteRoute("default", def[g], "route")
    BY <1>0, <2>2, Deleted, Names DEF Calls, TypeOK
  <2>3. CASE table' = table  BY <2>3
  <2> QED  BY <1>3, <2>1, <2>2, <2>3 DEF SetupRoutes
<1> QED  BY <1>1, <1>2, <1>3

\* What a quiet step leaves alone beside what Quietness names.
LEMMA QuietRest ==
  ASSUME NEW g \in Agents, Quiet(g)
  PROVE  UNCHANGED <<ipv4Cfg, savedGateway, routeBy, dnsBy>>
BY DEF Quiet, MonitorEvent, MonitorCancelled, PollerRead, PollerFound, PollerTimeout,
       EnterOnce, FindIface, FindTimeout, tunVars, hist

\* Each thing a setup writes is written by one of its steps.
LEMMA SetupRest ==
  ASSUME NEW g \in Agents, Setup(g)
  PROVE  /\ ipv4Cfg' = ipv4Cfg
         /\ GetDefault(g) \/ UNCHANGED <<savedDefault, routeBy>>
         /\ GetDefault(g) \/ SetUp(g) \/ def' = def
         /\ PinGateway(g) \/ savedGateway' = savedGateway
         /\ SetupDNS(g) \/ UNCHANGED <<resolv, backup, dnsBy>>
BY DEF Setup, GetDefault, PinGateway, SetupRoutes, SwapDefault, SetupDNS, SetUp, tunVars,
       netVars

LEMMA WorldRest ==
  ASSUME Cancel \/ AckSeen \/ IfaceUp \/ PPPDExit \/ Roam \/ UNCHANGED vars
  PROVE  UNCHANGED <<cfg, ipv4Cfg, savedGateway, backup, routeBy, dnsBy, resolv>>
BY DEF Cancel, AckSeen, IfaceUp, PPPDExit, Roam, vars, procVars, tunVars, netVars, hist

-----------------------------------------------------------------------------
(* Steps that change none of it, and those of the world.                   *)

LEMMA QuietRestore ==
  ASSUME RestoreInv, NEW g \in Agents, Quiet(g) PROVE RouteParts' /\ DNSParts'
<1> USE DEF RestoreInv, RouteParts, DNSParts, RouteInv, SetupInv
<1>1. /\ UNCHANGED <<cfg, pc, attempt, table, was, stray, savedDefault, resolv, backup, failed>>
      /\ UNCHANGED <<ipv4Cfg, savedGateway, routeBy, dnsBy>>
  BY Quietness, QuietRest
<1>2. \A h \in Agents : Own(h)' <=> Own(h)  BY <1>1 DEF Own, AttemptOf
<1>3. Detours' /\ HostRoute' /\ SavedRoute' /\ SavedDNS' /\ Registered'
  BY <1>1 DEF Detours, HostRoute, LeftPinned, Failed, SavedRoute, SavedDNS, Registered,
              DNSLost, Attempting
<1>4. DefaultRoute'
  BY <1>1 DEF DefaultRoute, Replacing, Attempting, Failed
<1>5. Movers'
  <2>1. \A h \in Agents : Mover(h) => Mover(h)'
    <3> SUFFICES ASSUME NEW h \in Agents, Mover(h) PROVE Mover(h)'  OBVIOUS
    <3>1. apc'[g] \notin {"pin", "route", "swap"}  BY Quietness DEF BodyPC
    <3>2. h # g => apc'[h] = apc[h] /\ def'[h] = def[h]  BY Quietness
    <3> QED  BY <1>1, <3>1, <3>2 DEF Mover
  <2> QED  BY <1>1, <1>2, <2>1 DEF Movers, InRunLoop
<1>6. Pending' => Pending
  <2>1. AttemptOf(g) \in Attempts /\ attempt \in Attempts
    BY AgentAttempt DEF TypeOK
  <2>2. once'[attempt] # "done" => once[attempt] # "done"
    BY <2>1, Quietness DEF TypeOK
  <2>3. \A h \in Agents : apc[h] = "up" => apc'[h] = "up"
    BY Quietness DEF BodyPC
  <2> QED  BY <1>1, <1>2, <2>2, <2>3 DEF Pending, InRunLoop
<1>7. Edited'  BY <1>1, <1>6 DEF Edited, DNSLost, Early, InRunLoop
<1> QED  BY <1>3, <1>4, <1>5, <1>7

LEMMA WorldRestore ==
  ASSUME RestoreInv, Cancel \/ AckSeen \/ IfaceUp \/ PPPDExit \/ Roam \/ UNCHANGED vars
  PROVE  RouteParts' /\ DNSParts'
<1> USE DEF RestoreInv, RouteParts, DNSParts, RouteInv, SetupInv
<1>1. /\ UNCHANGED <<pc, attempt, apc, once, def, was, stray, savedDefault, failed>>
      /\ UNCHANGED <<cfg, ipv4Cfg, savedGateway, backup, routeBy, dnsBy, resolv>>
  BY WorldFrame, WorldRest
<1>2. \A h \in Agents : Own(h)' <=> Own(h)  BY <1>1 DEF Own, AttemptOf
<1>3. SavedRoute' /\ SavedDNS' /\ Registered'
  BY <1>1 DEF SavedRoute, SavedDNS, Registered, DNSLost, Attempting
<1>4. Edited'
  <2>1. Pending' <=> Pending  BY <1>1, <1>2 DEF Pending, InRunLoop
  <2> QED  BY <1>1, <2>1 DEF Edited, DNSLost, Early, InRunLoop
<1>5. Movers'  BY <1>1, <1>2 DEF Movers, Mover, InRunLoop
<1>6. CASE table' = table
  <2>1. Detours' /\ HostRoute'
    BY <1>1, <1>6 DEF Detours, HostRoute, LeftPinned, Failed, Attempting
  <2>2. DefaultRoute'
    BY <1>1, <1>6 DEF DefaultRoute, Replacing, Failed, Attempting
  <2> QED  BY <1>3, <1>4, <1>5, <2>1, <2>2
<1>7. CASE table' = FlushPPP(table)
  <2>1. \A e \in Dests : table'[e] = table[e] \ {PPP}  BY <1>7, Flushed
  <2>2. Detours'  BY <1>1, <2>1 DEF Detours, Attempting, Extras
  <2>3. HostRoute'
    <3>1. \A d \in Dests : PPP \notin was.table[d]  BY DEF Detours
    <3>2. (LeftPinned' <=> LeftPinned) /\ (Attempting' <=> Attempting)
      BY <1>1 DEF LeftPinned, Failed, Attempting
    <3> QED  BY <1>1, <2>1, <3>1, <3>2, Names DEF HostRoute
  <2>4. DefaultRoute'
    <3>1. PPP \notin was.table["default"]  BY DEF Clean
    <3>2. /\ Attempting' <=> Attempting
          /\ Replacing' <=> Replacing
          /\ Failed("restore")' <=> Failed("restore")
      BY <1>1 DEF Attempting, Replacing, Failed
    <3>3. table'["default"] = table["default"] \ {PPP}  BY <2>1, Names
    <3>4. ~stray /\ routeBy = attempt => savedDefault # PPP  BY <3>1 DEF SavedRoute
    <3> QED  BY <1>1, <3>2, <3>3, <3>4 DEF DefaultRoute
  <2> QED  BY <1>3, <1>4, <1>5, <2>2, <2>3, <2>4
<1>8. CASE Roam
  <2>1. pc = "backoff" /\ table'["gateway"] = table["gateway"]
    BY <1>8, WorldFrame, Names DEF Roam, PPPDExit, linkVars
  <2>2. Detours' /\ HostRoute'  BY <1>1, <2>1 DEF Detours, HostRoute, Attempting
  <2>3. DefaultRoute'  BY <1>1, <2>1 DEF DefaultRoute, Attempting
  <2> QED  BY <1>3, <1>4, <1>5, <2>2, <2>3
<1> QED  BY <1>6, <1>7, <1>8, WorldFrame

-----------------------------------------------------------------------------
(* The steps of onIPCPComplete in the RunLoop they belong to.              *)

\* Whose step it is, and what the invariants say of it.
LEMMA OwnFrame ==
  ASSUME RestoreInv, NEW g \in Agents, Setup(g), ~stray'
  PROVE  /\ UNCHANGED <<cfg, pc, attempt, was, ipv4Cfg>>
         /\ ~stray /\ InRunLoop /\ Own(g) /\ apc[g] \in BodyPC /\ Mover(g)
         /\ \A h \in Agents : Own(h)' <=> Own(h)
         /\ \A h \in Agents : h # g /\ Own(h) => apc'[h] = apc[h] /\ apc[h] \notin BodyPC
         /\ once[attempt] = "running" /\ attempt \in Nat \ {0}
         /\ table \in Table /\ def[g] \in Hops \cup {None}
         /\ failed \subseteq failed' /\ \A c \in Calls : Failed(c) => Failed(c)'
<1> USE DEF RestoreInv, RouteInv, SetupInv
<1>1. /\ UNCHANGED <<cfg, pc, attempt, was, ipv4Cfg>>
      /\ ~stray /\ InRunLoop /\ Own(g) /\ apc[g] \in BodyPC
      /\ \A h \in Agents : h # g => apc'[h] = apc[h]
  BY SetupFrame, SetupRest
<1>2. \A h \in Agents : Own(h)' <=> Own(h)  BY <1>1 DEF Own, AttemptOf
<1>3. \A h \in Agents : h # g /\ Own(h) => apc[h] \notin BodyPC
  BY <1>1, Alone
<1>4. once[attempt] = "running"  BY <1>1 DEF Claims, Own
<1>5. attempt \in Nat \ {0}  BY TunnelAssumption DEF TypeOK, Attempts
<1>6. table \in Table /\ def[g] \in Hops \cup {None}  BY DEF TypeOK, Table
<1>7. Mover(g)  BY <1>1 DEF RouteParts, Movers
<1>8. failed \subseteq failed' /\ \A c \in Calls : Failed(c) => Failed(c)'
  BY <1>1, SetupTable DEF Failed
<1> QED  BY <1>1, <1>2, <1>3, <1>4, <1>5, <1>6, <1>7, <1>8

\* The others' part of Movers, and the own part where it is not a mover any more.
LEMMA OwnMovers ==
  ASSUME RestoreInv, NEW g \in Agents, Setup(g), ~stray', Mover(g)' PROVE Movers'
<1>1. ASSUME NEW h \in Agents, Own(h), h # g PROVE Mover(h)'
  <2>1. apc'[h] \notin BodyPC  BY <1>1, OwnFrame
  <2> QED  BY <2>1 DEF Mover, BodyPC
<1> QED  BY <1>1, OwnFrame DEF Movers

LEMMA OwnExtras ==
  ASSUME RestoreInv, NEW g \in Agents, Setup(g), ~stray' PROVE Detours'
<1> USE DEF RestoreInv, RouteParts, RouteInv, SetupInv
<1>1. /\ \A d \in Extras : table'[d] \in {table[d], table[d] \cup {PPP}}
      /\ UNCHANGED <<pc, was>> /\ ~stray
  BY SetupExtras, OwnFrame
<1> QED  BY <1>1 DEF Detours, Attempting, Extras

LEMMA OwnHostRoute ==
  ASSUME RestoreInv, NEW g \in Agents, Setup(g), ~stray' PROVE HostRoute'
<1> USE DEF RestoreInv, RouteParts, RouteInv, SetupInv
<1>1. UNCHANGED <<pc, was>> /\ ~stray /\ pc \in {"relay", "join"} /\ Own(g)
  BY OwnFrame DEF InRunLoop
<1>2. ~LeftPinned /\ ~LeftPinned' /\ Attempting /\ Attempting'
  BY <1>1 DEF LeftPinned, Attempting
<1>3. CASE savedGateway' = savedGateway /\ table'["gateway"] = table["gateway"]
  BY <1>1, <1>2, <1>3 DEF HostRoute
<1>4. CASE PinGateway(g)
  <2>1. CASE def[g] = None  BY <1>3, <1>4, <2>1 DEF PinGateway
  <2>2. CASE def[g] # None
    <3>1. /\ AddRoute("gateway", def[g], "pin") /\ def[g] \in Hops /\ apc[g] = "pin"
          /\ savedGateway' = IF table' # table THEN def[g] ELSE savedGateway
      BY <1>4, <2>2, OwnFrame DEF PinGateway
    <3>2. CASE table' = table  BY <1>3, <3>1, <3>2
    <3>3. CASE table' # table
      <4>1. table["gateway"] = {} /\ table'["gateway"] = table["gateway"] \cup {def[g]}
        BY <3>1, <3>3, Added, Names DEF Calls
      <4>2. savedGateway = None  BY <1>1, <4>1 DEF HostRoute
      <4>3. was.table["gateway"] = {}  BY <1>1, <1>2, <4>1, <4>2 DEF HostRoute
      <4>4. def[g] = savedDefault /\ routeBy = attempt
        BY <1>1, <2>2, <3>1, OwnFrame DEF Mover
      <4>5. def[g] # PPP  BY <1>1, <4>4 DEF SavedRoute, Clean
      <4> QED  BY <1>1, <3>1, <3>3, <2>2, <4>1, <4>3, <4>5 DEF HostRoute
    <3> QED  BY <3>2, <3>3
  <2> QED  BY <2>1, <2>2
<1> QED  BY <1>3, <1>4, SetupRest, SetupTable

LEMMA OwnDefault ==
  ASSUME RestoreInv, NEW g \in Agents, Setup(g), ~stray'
  PROVE  SavedRoute' /\ Movers' /\ DefaultRoute'
<1> USE DEF RestoreInv, RouteParts, RouteInv, SetupInv
<1> DEFINE d == was.table["default"]
<1>1. /\ UNCHANGED <<cfg, pc, attempt, was, ipv4Cfg>>
      /\ ~stray /\ InRunLoop /\ Own(g) /\ Mover(g) /\ pc \in {"relay", "join"}
      /\ once[attempt] = "running" /\ attempt \in Nat \ {0}
      /\ table \in Table /\ def[g] \in Hops \cup {None}
  BY OwnFrame DEF InRunLoop
<1>2. /\ routeBy = 0 => table["default"] \ {PPP} = d
      /\ routeBy = attempt =>
           /\ table["default"] \subseteq d \cup {PPP} /\ savedDefault \in d
           /\ savedDefault \in table["default"] \/ Replacing
  BY <1>1 DEF DefaultRoute, SavedRoute, Attempting
<1>3. Replacing' <=> Replacing  BY <1>1 DEF Replacing
<1>4. PPP \notin d  BY DEF Clean
<1>5. ASSUME routeBy' = 0 => table'["default"] \ {PPP} = d,
             routeBy' = attempt => /\ table'["default"] \subseteq d \cup {PPP}
                                   /\ savedDefault' \in table'["default"] \/ Replacing
      PROVE  DefaultRoute'
  BY <1>1, <1>3, <1>5 DEF DefaultRoute
<1>6. CASE GetDefault(g)
  <2>1. /\ apc[g] = "getdef" /\ table' = table
        /\ apc' = [apc EXCEPT ![g] = IF cfg.SetRoutes THEN "pin" ELSE "dns"]
        /\ \/ \E h \in Listed : /\ def' = [def EXCEPT ![g] = h]
                                /\ savedDefault' = h /\ routeBy' = attempt
           \/ /\ def' = [def EXCEPT ![g] = None]
              /\ UNCHANGED <<savedDefault, routeBy>>
    BY <1>6 DEF GetDefault, Move, netVars
  <2>2. Before
    <3>1. \A h \in Agents : h # g /\ Own(h) => apc[h] \notin BodyPC  BY OwnFrame
    <3> QED  BY <1>1, <2>1, <3>1 DEF Before
  <2>3. table["default"] = d /\ \A e \in Halves : PPP \notin table[e]
    BY <1>1, <2>2 DEF Untouched, Early
  <2>4. table["0/1"] = {}  BY <2>3, Names DEF Clean
  <2>5. Listed = d  BY <1>4, <2>3, <2>4 DEF Listed, First
  <2>6. apc'[g] \in {"pin", "dns"} /\ (apc'[g] = "pin" => cfg.SetRoutes)
    BY <2>1 DEF TypeOK
  <2>7. CASE \E h \in Listed : /\ def' = [def EXCEPT ![g] = h]
                               /\ savedDefault' = h /\ routeBy' = attempt
    <3>1. savedDefault' \in d /\ routeBy' = attempt /\ def'[g] = savedDefault'
      BY <2>5, <2>7 DEF TypeOK
    <3>2. SavedRoute'  BY <1>1, <3>1 DEF SavedRoute, Opening
    <3>3. Mover(g)'  BY <1>1, <2>6, <3>1 DEF Mover
    <3>4. DefaultRoute'  BY <1>1, <1>5, <2>1, <2>3, <3>1
    <3> QED  BY <3>2, <3>3, <3>4, OwnMovers
  <2>8. CASE def' = [def EXCEPT ![g] = None] /\ UNCHANGED <<savedDefault, routeBy>>
    <3>1. SavedRoute'  BY <1>1, <2>8 DEF SavedRoute
    <3>2. Mover(g)'  BY <1>1, <2>6, <2>8 DEF Mover, TypeOK
    <3>3. DefaultRoute'  BY <1>2, <1>5, <2>1, <2>8
    <3> QED  BY <3>1, <3>2, <3>3, OwnMovers
  <2> QED  BY <2>1, <2>7, <2>8
<1>7. CASE ~GetDefault(g)
  <2>1. UNCHANGED <<savedDefault, routeBy>>  BY <1>7, SetupRest
  <2>2. SavedRoute'  BY <1>1, <2>1 DEF SavedRoute
  <2>3. CASE PinGateway(g)
    <3>1. table'["default"] = table["default"]  BY <2>3, SetupTable, Names
    <3>2. apc[g] = "pin" /\ apc'[g] = "route" /\ def' = def
      BY <2>3 DEF PinGateway, Move, TypeOK
    <3>3. Mover(g)'  BY <1>1, <2>1, <3>2 DEF Mover
    <3>4. DefaultRoute'  BY <1>2, <1>5, <2>1, <3>1
    <3> QED  BY <2>2, <3>3, <3>4, OwnMovers
  <2>4. CASE SetupRoutes(g)
    <3>1. /\ apc[g] = "route" /\ cfg.SetRoutes
          /\ def[g] = None \/ (def[g] = savedDefault /\ routeBy = attempt)
          /\ apc'[g] \in {"dns", "swap"} /\ def' = def
      BY <1>1, <2>4 DEF SetupRoutes, Mover, Move, TypeOK
    <3>2. Mover(g)'  BY <1>1, <3>1 DEF Mover
    <3>3. CASE AddThroughPPP(IF ipv4Cfg.split # {} THEN ipv4Cfg.split ELSE Halves, "route")
      <4> DEFINE ds == IF ipv4Cfg.split # {} THEN ipv4Cfg.split ELSE Halves
      <4>1. ds \subseteq Dests /\ "default" \notin ds  BY Names DEF TypeOK, ReplyType
      <4>2. AddThroughPPP(ds, "route")  BY <3>3
      <4> HIDE DEF ds
      <4>3. table'["default"] = table["default"]
        BY <4>1, <4>2, Through, Names DEF Calls
      <4>4. DefaultRoute'  BY <1>2, <1>5, <2>1, <4>3
      <4> QED  BY <2>2, <3>2, <4>4, OwnMovers
    <3>4. CASE /\ ipv4Cfg.split = {} /\ ~cfg.HalfInternetRoutes /\ def[g] # None
               /\ DeleteRoute("default", def[g], "route")
      <4>1. Replacing /\ routeBy = attempt  BY <3>1, <3>4 DEF Replacing
      <4>2. table'["default"] \subseteq table["default"]
        BY <1>1, <3>4, Deleted, Names DEF Calls
      <4>3. DefaultRoute'  BY <1>1, <1>2, <1>5, <2>1, <4>1, <4>2
      <4> QED  BY <2>2, <3>2, <4>3, OwnMovers
    <3>5. CASE table' = table
      <4>1. DefaultRoute'  BY <1>2, <1>5, <2>1, <3>5
      <4> QED  BY <2>2, <3>2, <4>1, OwnMovers
    <3> QED  BY <2>4, <3>3, <3>4, <3>5 DEF SetupRoutes
  <2>5. CASE SwapDefault(g)
    <3>1. AddThroughPPP({"default"}, "swap") /\ apc'[g] = "dns"
      BY <2>5 DEF SwapDefault, Move, TypeOK
    <3>2. table'["default"] \in {table["default"], table["default"] \cup {PPP}}
      BY <3>1, Through, Names DEF Calls
    <3>3. Mover(g)'  BY <3>1 DEF Mover
    <3>4. table'["default"] \ {PPP} = table["default"] \ {PPP}
          /\ table["default"] \subseteq table'["default"]
      BY <3>2
    <3>5. DefaultRoute'  BY <1>2, <1>5, <2>1, <3>4
    <3> QED  BY <2>2, <3>3, <3>5, OwnMovers
  <2>6. CASE SetupDNS(g) \/ SetUp(g)
    <3>1. table' = table /\ apc'[g] \in {"up", "exit"}
      BY <2>6 DEF SetupDNS, SetUp, LeaveOnce, Exit, Move, netVars, TypeOK
    <3>2. Mover(g)'  BY <3>1 DEF Mover
    <3>3. DefaultRoute'  BY <1>2, <1>5, <2>1, <3>1
    <3> QED  BY <2>2, <3>2, <3>3, OwnMovers
  <2> QED  BY <1>7, <2>3, <2>4, <2>5, <2>6 DEF Setup
<1> QED  BY <1>6, <1>7


LEMMA OwnDNS ==
  ASSUME RestoreInv, NEW g \in Agents, Setup(g), ~stray'
  PROVE  SavedDNS' /\ Edited' /\ Registered'
<1> USE DEF RestoreInv, DNSParts, RouteInv, SetupInv
<1>1. /\ UNCHANGED <<cfg, pc, attempt, was, ipv4Cfg>>
      /\ ~stray /\ InRunLoop /\ Own(g) /\ pc \in {"relay", "join"}
      /\ once[attempt] = "running" /\ attempt \in Nat \ {0}
      /\ \A h \in Agents : Own(h)' <=> Own(h)
      /\ \A h \in Agents : h # g /\ Own(h) => apc'[h] = apc[h] /\ apc[h] \notin BodyPC
  BY OwnFrame DEF InRunLoop
<1>a. DNSLost => DNSLost'  BY SetupTable, StaysLost
<1>2. apc[g] # "up" => Pending  BY <1>1 DEF Pending, BodyPC
<1>3. CASE SetupDNS(g)
  <2>1. /\ apc[g] = "dns" /\ apc' = [apc EXCEPT ![g] = "up"]
        /\ \/ UNCHANGED <<resolv, backup, dnsBy>>
           \/ cfg.SetDNS /\ cfg.UseResolvconf /\ UNCHANGED <<backup, dnsBy>>
                /\ resolv' = [resolv EXCEPT !.vpn = 1]
           \/ cfg.SetDNS /\ ~cfg.UseResolvconf /\ backup' = resolv /\ dnsBy' = attempt
    BY <1>3 DEF SetupDNS, AddDNS, Move
  <2>2. ~Pending'
    BY <1>1, <2>1 DEF Pending, InRunLoop, TypeOK
  <2>3. CASE UNCHANGED <<resolv, backup, dnsBy>>
    <3>1. SavedDNS' /\ Registered'
      BY <1>1, <1>a, <2>3 DEF SavedDNS, Registered, Attempting
    <3>2. Edited'  BY <1>1, <1>a, <2>2, <2>3 DEF Edited
    <3> QED  BY <3>1, <3>2
  <2>4. CASE cfg.SetDNS /\ cfg.UseResolvconf /\ UNCHANGED <<backup, dnsBy>>
               /\ resolv' = [resolv EXCEPT !.vpn = 1]
    <3>1. SavedDNS' /\ Edited'  BY <1>1, <2>4 DEF SavedDNS, Edited
    <3>2. resolv'.orig = resolv.orig  BY <2>4 DEF TypeOK, ContentType
    <3>3. Registered'  BY <1>1, <1>a, <2>4, <3>2 DEF Registered, Attempting
    <3> QED  BY <3>1, <3>3
  <2>5. CASE cfg.SetDNS /\ ~cfg.UseResolvconf /\ backup' = resolv /\ dnsBy' = attempt
    <3>1. resolv = was.resolv
      BY <1>1, <1>2, <2>1, <2>5 DEF Edited, Early
    <3>2. SavedDNS'  BY <1>1, <2>5, <3>1 DEF SavedDNS, Opening
    <3>3. Edited'  BY <1>1, <2>2, <2>5 DEF Edited
    <3>4. Registered'  BY <1>1, <2>5 DEF Registered
    <3> QED  BY <3>2, <3>3, <3>4
  <2> QED  BY <2>1, <2>3, <2>4, <2>5
<1>4. CASE ~SetupDNS(g)
  <2>1. UNCHANGED <<resolv, backup, dnsBy>>  BY <1>4, SetupRest
  <2>2. SavedDNS' /\ Registered'
    BY <1>1, <1>a, <2>1 DEF SavedDNS, Registered, Attempting
  <2>3. Pending' => Pending
    <3>1. apc[g] = "up" => once'[attempt] = "done"
      <4>1. apc[g] = "up" => once' = [once EXCEPT ![AttemptOf(g)] = "done"]
        BY DEF Setup, GetDefault, PinGateway, SetupRoutes, SwapDefault, SetupDNS, SetUp,
               LeaveOnce
      <4> QED  BY <1>1, <4>1 DEF Own, TypeOK
    <3> QED  BY <1>1, <1>2, <3>1 DEF Pending, InRunLoop
  <2>4. Edited'  BY <1>1, <1>a, <2>1, <2>3 DEF Edited, Early
  <2> QED  BY <2>2, <2>4
<1> QED  BY <1>3, <1>4

-----------------------------------------------------------------------------
(* The main goroutine: connect takes the network's picture, the teardown   *)
(* puts it back.                                                           *)

LEMMA ConnectRestore ==
  ASSUME RestoreInv, Connect PROVE RouteParts' /\ DNSParts'
<1> USE DEF RestoreInv, RouteParts, DNSParts, RouteInv, SetupInv
<1>1. /\ pc = "connect" /\ pc' = "dial" /\ Attempting'
      /\ was' = [table |-> table, resolv |-> resolv]
      /\ UNCHANGED <<cfg, attempt, stray, table, resolv, savedGateway, savedDefault, routeBy,
                     dnsBy, backup, apc, once, def, ipv4Cfg, failed>>
      /\ \A d \in Dests : PPP \notin table[d]
  BY ConnectFrame
<1>2. was'.table = table /\ was'.resolv = resolv  BY <1>1
<1>3. ~stray => savedGateway = None  BY <1>1 DEF HostRoute
<1>4. ~stray => routeBy # attempt /\ dnsBy # attempt
  BY <1>1 DEF SavedRoute, SavedDNS, Opening
<1>5. Detours' /\ HostRoute'  BY <1>1, <1>2, <1>3, Names DEF Detours, HostRoute, Extras
<1>6. SavedRoute' /\ SavedDNS'
  BY <1>1, <1>4 DEF SavedRoute, SavedDNS
<1>7. Movers'  BY <1>1 DEF Movers, InRunLoop
<1>8. DefaultRoute'  BY <1>1, <1>2, <1>4, Names DEF DefaultRoute
<1>9. Edited'  BY <1>1, <1>2 DEF Edited
<1>10. ~stray /\ ~DNSLost /\ cfg.UseResolvconf => resolv.vpn = 0  BY <1>1 DEF Registered
<1>11. Registered'  BY <1>1, <1>2, <1>10 DEF Registered, DNSLost
<1> QED  BY <1>5, <1>6, <1>7, <1>8, <1>9, <1>11

\* Before and between the steps of the teardown.
LEMMA MainRest ==
  ASSUME TypeOK, MainStep \/ AwaitGateway \/ RelayError, ~Connect
  PROVE  /\ Reconnect \/ attempt' = attempt
         /\ RestoreDNS \/ resolv' = resolv
         /\ FetchConfig \/ ipv4Cfg' = ipv4Cfg
         /\ Activate \/ \A h \in Agents : apc'[h] \in BodyPC => apc'[h] = apc[h]
         /\ once' = once
         /\ pc' \in Opening => Reconnect \/ pc \in Opening
         /\ Early' => Early
         /\ InRunLoop' => InRunLoop \/ Activate
         /\ pc' = "relay" => pc = "activate"
         /\ pc' = "join" => pc = "relay"
         /\ pc' = "restoreDNS" => pc = "join"
         /\ pc' = "unpin" => RestoreDNS
         /\ pc' = "clear" => UnpinGateway /\ ReplacesDefault
         /\ pc' = "restore" => ClearDefault
         /\ pc' = "down" => RestoreDefault \/ (UnpinGateway /\ ~ReplacesDefault)
         /\ pc' = "cleanup" => Fail \/ pc \in {"down", "cleanup"}
<1> USE DEF procVars, tunVars, agentVars, netVars, Goto, Opening, Early, InRunLoop
<1>1. CASE Dial \/ Authenticate \/ RequestVPNAllocation \/ Redial \/ FetchConfig \/ StartPPPD
  BY <1>1 DEF Dial, Authenticate, RequestVPNAllocation, Redial, FetchConfig, StartPPPD
<1>2. CASE Activate \/ StopRelay \/ RelayError
  BY <1>2 DEF Activate, StopRelay, RelayError, LeaveRelay
<1>3. CASE Join
  <2>1. \A h \in Agents : apc'[h] \in BodyPC => apc'[h] = apc[h]
    BY <1>3 DEF Join, TypeOK, BodyPC
  <2> QED  BY <1>3, <2>1 DEF Join
<1>4. CASE RestoreDNS \/ UnpinGateway \/ ClearDefault \/ RestoreDefault
  BY <1>4 DEF RestoreDNS, UnpinGateway, ClearDefault, RestoreDefault
<1>5. CASE Fail \/ Down \/ CloseProcess \/ Return \/ Reconnect \/ GiveUp
  BY <1>5 DEF Fail, Down, CloseProcess, Return, Reconnect, GiveUp
<1> QED  BY <1>1, <1>2, <1>3, <1>4, <1>5 DEF MainStep, AwaitGateway

LEMMA MainDetours ==
  ASSUME RestoreInv, MainStep \/ AwaitGateway \/ RelayError, ~Connect
  PROVE  Detours' /\ HostRoute'
<1> USE DEF RestoreInv, RouteParts, RouteInv, SetupInv
<1>1. /\ UNCHANGED <<was, stray>> /\ (Attempting' => Attempting)
      /\ \A d \in Extras : table'[d] = table[d]
  BY MainMoves
<1>2. Detours'  BY <1>1 DEF Detours
<1>3. CASE UnpinGateway
  <2>1. /\ savedGateway' = None /\ pc = "unpin" /\ attempt' = attempt
        /\ pc' \in {"clear", "down"}
    BY <1>3 DEF UnpinGateway, Goto
  <2>2. ~stray /\ ~LeftPinned' => table'["gateway"] = was.table["gateway"]
    <3>1. CASE savedGateway = None
      <4>1. table' = table  BY <1>3, <3>1 DEF UnpinGateway
      <4>2. ~LeftPinned /\ Attempting  BY <2>1 DEF LeftPinned, Attempting
      <4> QED  BY <3>1, <4>1, <4>2 DEF HostRoute
    <3>2. CASE savedGateway # None
      <4>1. DeleteRoute("gateway", savedGateway, "unpin") /\ savedGateway \in Hops
        BY <1>3, <3>2 DEF UnpinGateway, TypeOK
      <4>2. \/ \E r \in table["gateway"] : table'["gateway"] = table["gateway"] \ {r}
            \/ table'["gateway"] = table["gateway"] /\ table["gateway"] = {}
            \/ savedGateway # PPP /\ savedGateway \notin table["gateway"]
            \/ failed' = failed \cup {<<attempt, "unpin">>}
        BY <4>1, Deleted, Names DEF Calls
      <4>3. failed' = failed \cup {<<attempt, "unpin">>} => LeftPinned'
        BY <2>1 DEF LeftPinned, Failed
      <4>4. ~stray => /\ table["gateway"] = {savedGateway} /\ was.table["gateway"] = {}
        BY <3>2 DEF HostRoute
      <4> QED  BY <4>2, <4>3, <4>4
    <3> QED  BY <3>1, <3>2
  <2> QED  BY <1>1, <1>2, <2>1, <2>2 DEF HostRoute
<1>4. CASE ~UnpinGateway
  <2>1. /\ savedGateway' = savedGateway /\ pc # "unpin" /\ table'["gateway"] = table["gateway"]
        /\ pc \in {"relay", "join", "restoreDNS"} =>
             pc' \in {"relay", "join", "restoreDNS", "unpin"}
    BY <1>4, MainMoves
  <2>2. Attempting' /\ LeftPinned => LeftPinned'
    <3>1. ASSUME Attempting', LeftPinned PROVE LeftPinned'
      <4>1. ~Reconnect /\ pc \in {"clear", "restore", "down", "cleanup"}
        BY <3>1 DEF LeftPinned, Reconnect
      <4>2. attempt' = attempt  BY <4>1, MainRest
      <4>3. <<attempt, "unpin">> \in failed'  BY <3>1, MainFailed DEF LeftPinned, Failed
      <4>4. pc' \in {"clear", "restore", "down", "cleanup"}
        BY <3>1, <4>1, MainRest DEF Attempting, MainPC, TypeOK, MainStep, AwaitGateway,
           RelayError, StopRelay, Dial, Authenticate, RequestVPNAllocation, Redial, FetchConfig,
           StartPPPD, Activate, Fail, Join, RestoreDNS, UnpinGateway, ClearDefault,
           RestoreDefault, Down, CloseProcess, Return, GiveUp, Goto, procVars
      <4> QED  BY <4>2, <4>3, <4>4 DEF LeftPinned, Failed
    <3> QED  BY <3>1
  <2> QED  BY <1>1, <1>2, <2>1, <2>2 DEF HostRoute
<1> QED  BY <1>3, <1>4

LEMMA MainSaved ==
  ASSUME RestoreInv, MainStep \/ AwaitGateway \/ RelayError, ~Connect
  PROVE  SavedRoute' /\ SavedDNS'
<1> USE DEF RestoreInv, RouteParts, DNSParts, RouteInv, SetupInv
<1>1. UNCHANGED <<was, cfg, stray, savedDefault, routeBy, dnsBy, backup>>
  BY MainMoves
<1>2. CASE Reconnect
  <2>1. attempt' = attempt + 1 /\ attempt \in Nat  /\ routeBy \in Nat /\ dnsBy \in Nat
    BY <1>2, TunnelAssumption DEF Reconnect, TypeOK, Attempts
  <2>2. ~stray => routeBy <= attempt /\ dnsBy <= attempt  BY DEF SavedRoute, SavedDNS
  <2>3. ~stray => /\ routeBy <= attempt' /\ routeBy # attempt'
                  /\ dnsBy <= attempt' /\ dnsBy # attempt'
    BY <2>1, <2>2
  <2> QED  BY <1>1, <2>3 DEF SavedRoute, SavedDNS
<1>3. CASE ~Reconnect
  <2>1. attempt' = attempt /\ (pc' \in Opening => pc \in Opening)  BY <1>3, MainRest
  <2> QED  BY <1>1, <2>1 DEF SavedRoute, SavedDNS
<1> QED  BY <1>2, <1>3

LEMMA MainMovers ==
  ASSUME RestoreInv, MainStep \/ AwaitGateway \/ RelayError, ~Connect
  PROVE  Movers'
<1> USE DEF RestoreInv, RouteParts, RouteInv, SetupInv
<1>1. UNCHANGED <<was, cfg, stray, savedDefault, routeBy, def>>
  BY MainMoves
<1>2. CASE Activate
  <2>1. \A h \in Agents : Own(h)' => apc'[h] \in {"select", "read"}
    BY <1>2, TunnelAssumption
    DEF Activate, Goto, Own, AttemptOf, TypeOK, Agents, Monitor, Pollers, Attempts
  <2> QED  BY <2>1 DEF Movers, Mover
<1>3. CASE ~InRunLoop'  BY <1>3 DEF Movers
<1>4. CASE InRunLoop' /\ ~Activate
  <2>1. InRunLoop /\ \A h \in Agents : apc'[h] \in BodyPC => apc'[h] = apc[h]
    BY <1>4, MainRest
  <2>2. ~Reconnect  BY <2>1 DEF InRunLoop, Reconnect
  <2>3. attempt' = attempt  BY <2>2, MainRest
  <2>4. \A h \in Agents : Own(h)' => Own(h)  BY <2>3 DEF Own, AttemptOf
  <2>5. \A h \in Agents : Mover(h) => Mover(h)'
    BY <1>1, <2>1, <2>3 DEF Mover, BodyPC
  <2> QED  BY <1>1, <2>1, <2>4, <2>5 DEF Movers
<1> QED  BY <1>2, <1>3, <1>4

LEMMA MainDefault ==
  ASSUME RestoreInv, MainStep \/ AwaitGateway \/ RelayError, ~Connect
  PROVE  DefaultRoute'
<1> USE DEF RestoreInv, RouteParts, RouteInv, SetupInv
<1> SUFFICES ASSUME ~stray', Attempting' PROVE DefaultRoute'  BY DEF DefaultRoute
<1> DEFINE d == was.table["default"]
<1>1. UNCHANGED <<was, cfg, stray, savedDefault, routeBy>> /\ ~stray /\ Attempting
  BY MainMoves
<1>2. ~Reconnect  BY DEF Reconnect, Attempting
<1>3. attempt' = attempt  BY <1>2, MainRest
<1>4. ASSUME routeBy = 0 PROVE table'["default"] \ {PPP} = d
  <2>1. savedDefault = None  BY <1>1, <1>4 DEF SavedRoute
  <2>2. ~ClearDefault /\ ~RestoreDefault
    BY <2>1 DEF Restorable, ClearDefault, RestoreDefault
  <2>3. table'["default"] = table["default"]  BY <2>2, MainMoves
  <2> QED  BY <1>1, <1>4, <2>3 DEF DefaultRoute
<1>5. ASSUME routeBy = attempt
      PROVE  /\ table'["default"] \subseteq d \cup {PPP}
             /\ pc' \in {"relay", "join", "restoreDNS", "unpin"} =>
                  savedDefault \in table'["default"] \/ Replacing'
             /\ pc' \in {"down", "cleanup"} /\ ~Failed("restore")' =>
                  savedDefault \in table'["default"]
  <2>1. /\ pc \notin Opening /\ savedDefault \in d
        /\ table["default"] \subseteq d \cup {PPP}
        /\ pc \in {"relay", "join", "restoreDNS", "unpin"} =>
             savedDefault \in table["default"] \/ Replacing
        /\ pc \in {"down", "cleanup"} /\ ~Failed("restore") =>
             savedDefault \in table["default"]
    BY <1>1, <1>5 DEF SavedRoute, DefaultRoute
  <2>2. savedDefault \in Hops /\ savedDefault # None /\ savedDefault # PPP
    BY <2>1, Names DEF TypeOK, Clean
  <2>3. ~FetchConfig /\ ~Fail  BY <2>1 DEF FetchConfig, Fail, Opening
  <2>4. Replacing' <=> Replacing  BY <1>1, <2>3, MainRest DEF Replacing
  <2>5. CASE ClearDefault
    <3>1. DeleteRoute("default", PPP, "clear") /\ pc' = "restore"
      BY <2>5 DEF ClearDefault, Goto
    <3>2. table'["default"] \subseteq table["default"]
      BY <3>1, Deleted, Names DEF Calls
    <3> QED  BY <2>1, <3>1, <3>2
  <2>6. CASE RestoreDefault
    <3>1. AddRoute("default", savedDefault, "restore") /\ pc' = "down"
      BY <2>6 DEF RestoreDefault, Goto
    <3>2. \/ table'["default"] = table["default"] \cup {savedDefault}
          \/ table' = table /\ failed' = failed \cup {<<attempt, "restore">>}
      BY <2>2, <3>1, Added, Names DEF Calls
    <3>3. failed' = failed \cup {<<attempt, "restore">>} => Failed("restore")'
      BY <1>3 DEF Failed
    <3> QED  BY <2>1, <3>1, <3>2, <3>3
  <2>7. CASE ~ClearDefault /\ ~RestoreDefault
    <3>1. table'["default"] = table["default"] /\ pc \notin {"clear", "restore"}
      BY <2>7, MainMoves
    <3>2. pc' \in {"relay", "join", "restoreDNS", "unpin"} =>
            pc \in {"relay", "join", "restoreDNS", "unpin"}
      BY <2>1, MainRest DEF RestoreDNS, Opening
    <3>3. Failed("restore") => Failed("restore")'
      BY <1>3, MainFailed DEF Failed
    <3>4. ASSUME pc' = "down" PROVE savedDefault \in table["default"]
      <4>1. pc = "unpin" /\ ~ReplacesDefault
        BY <2>7, <3>4, MainRest DEF UnpinGateway
      <4>2. ~Replacing  BY <2>2, <4>1 DEF ReplacesDefault, Replacing
      <4> QED  BY <2>1, <4>1, <4>2
    <3>5. pc' = "cleanup" => pc \in {"down", "cleanup"}  BY <2>3, MainRest
    <3> QED  BY <2>1, <2>4, <3>1, <3>2, <3>3, <3>4, <3>5
  <2> QED  BY <2>5, <2>6, <2>7
<1> QED  BY <1>1, <1>3, <1>4, <1>5 DEF DefaultRoute

\* dns.Remove gives back what it kept, or has failed.
LEMMA Given ==
  ASSUME TypeOK, RestoreDNS
  PROVE  /\ pc = "restoreDNS" /\ pc' = "unpin" /\ attempt' = attempt
         /\ \/ DNSLost'
            \/ ~cfg.SetDNS /\ resolv' = resolv
            \/ cfg.SetDNS /\ cfg.UseResolvconf /\ resolv' = [resolv EXCEPT !.vpn = 0]
            \/ cfg.SetDNS /\ ~cfg.UseResolvconf
                 /\ resolv' = IF backup = NoContent THEN resolv ELSE backup
<1>1. Fails("restoreDNS", FALSE) => DNSLost'
  <2>1. attempt \in Attempts  BY DEF TypeOK
  <2>2. Fails("restoreDNS", FALSE) => <<attempt, "restoreDNS">> \in failed'  BY DEF Fails
  <2> QED  BY <2>1, <2>2 DEF DNSLost
<1> QED  BY <1>1 DEF RestoreDNS, RemoveDNS, Goto

LEMMA MainEdited ==
  ASSUME RestoreInv, MainStep \/ AwaitGateway \/ RelayError, ~Connect
  PROVE  Edited'
<1> USE DEF RestoreInv, DNSParts, RouteInv, SetupInv
<1> SUFFICES ASSUME ~stray', ~cfg'.UseResolvconf PROVE Edited'  BY DEF Edited
<1>1. UNCHANGED <<was, cfg, stray, dnsBy, backup>> /\ ~stray /\ ~cfg.UseResolvconf
      /\ (DNSLost => DNSLost')
  BY MainMoves, MainFailed, StaysLost
<1>2. /\ Reconnect \/ attempt' = attempt
      /\ RestoreDNS \/ resolv' = resolv
      /\ once' = once
  BY MainRest
<1>3. ASSUME Early', Pending' PROVE resolv' = was.resolv
  <2>1. Early /\ ~RestoreDNS /\ ~Reconnect
    BY <1>3, MainRest DEF RestoreDNS, Reconnect, Early
  <2>2. UNCHANGED <<resolv, attempt, once>>  BY <1>2, <2>1
  <2>3. CASE ~InRunLoop  BY <1>1, <2>1, <2>2, <2>3 DEF Edited, Pending
  <2>4. CASE InRunLoop
    <3>1. pc' \in {"relay", "join"} => InRunLoop'  BY DEF InRunLoop
    <3>2. InRunLoop'
      BY <2>4, <1>3, MainMoves DEF InRunLoop, Early
    <3>3. \A h \in Agents : apc[h] = "up" => apc'[h] = "up"
      <4>1. UNCHANGED <<apc>>
        BY <2>1, <2>4, <3>2, MainFrame
           DEF MainStep, AwaitGateway, InRunLoop, Early, Connect, Dial, Redial, StartPPPD,
               Activate, StopRelay, RelayError, LeaveRelay, Fail, Join, UnpinGateway,
               ClearDefault, RestoreDefault, Down, CloseProcess, Return, GiveUp, Authenticate,
               RequestVPNAllocation, FetchConfig, agentVars, Goto
      <4> QED  BY <4>1
    <3>4. \A h \in Agents : Own(h)' <=> Own(h)  BY <2>2 DEF Own, AttemptOf
    <3>5. Pending  BY <1>3, <2>2, <3>2, <3>3, <3>4 DEF Pending
    <3> QED  BY <1>1, <2>1, <2>2, <3>5 DEF Edited
  <2> QED  BY <2>3, <2>4
<1>4. ASSUME pc' \in {"relay", "join", "restoreDNS"}
      PROVE  resolv' = was.resolv \/ (cfg.SetDNS /\ dnsBy = attempt')
  <2>1. pc \in {"activate", "relay", "join"}  BY <1>4, MainRest
  <2>2. UNCHANGED <<resolv, attempt>>
    BY <1>2, <2>1 DEF RestoreDNS, Reconnect
  <2>3. CASE pc = "activate"
    BY <1>1, <2>2, <2>3 DEF Edited, Early, Pending, InRunLoop
  <2>4. CASE pc # "activate"
    BY <1>1, <2>1, <2>2, <2>4 DEF Edited
  <2> QED  BY <2>3, <2>4
<1>5. ASSUME pc' \in {"unpin", "clear", "restore", "down", "cleanup"}, dnsBy \in {0, attempt'},
             was.resolv # NoContent, ~DNSLost'
      PROVE  resolv' = was.resolv
  <2>1. attempt' = attempt /\ ~DNSLost  BY <1>1, <1>2, <1>5 DEF Reconnect
  <2>2. CASE RestoreDNS
    <3>1. pc = "restoreDNS"
          /\ resolv' = IF cfg.SetDNS /\ backup # NoContent THEN backup ELSE resolv
      BY <1>1, <1>5, <2>2, Given
    <3>2. resolv = was.resolv \/ (cfg.SetDNS /\ dnsBy = attempt)
      BY <1>1, <3>1 DEF Edited
    <3>3. CASE dnsBy = attempt
      <4>1. backup = was.resolv  BY <1>1, <3>3 DEF SavedDNS
      <4> QED  BY <1>5, <3>1, <3>2, <4>1
    <3>4. CASE dnsBy # attempt
      <4>1. backup = NoContent  BY <1>1, <1>5, <2>1, <3>4 DEF SavedDNS
      <4> QED  BY <3>1, <3>2, <3>4, <4>1
    <3> QED  BY <3>3, <3>4
  <2>3. CASE ~RestoreDNS
    <3>1. resolv' = resolv  BY <1>2, <2>3
    <3>2. CASE Fail
      BY <1>1, <3>1, <3>2 DEF Fail, Edited, Early, Pending, InRunLoop
    <3>3. CASE ~Fail
      <4>1. pc \in {"unpin", "clear", "restore", "down", "cleanup"}
        BY <1>5, <2>3, <3>3, MainRest DEF UnpinGateway, ClearDefault, RestoreDefault
      <4> QED  BY <1>1, <1>5, <2>1, <3>1, <4>1 DEF Edited
    <3> QED  BY <3>2, <3>3
  <2> QED  BY <2>2, <2>3
<1> QED  BY <1>1, <1>3, <1>4, <1>5 DEF Edited

LEMMA MainRegistered ==
  ASSUME RestoreInv, MainStep \/ AwaitGateway \/ RelayError, ~Connect
  PROVE  Registered'
<1> USE DEF RestoreInv, DNSParts, RouteInv, SetupInv
<1> SUFFICES ASSUME ~DNSLost' PROVE Registered'  BY DEF Registered
<1>1. UNCHANGED <<was, cfg, stray>> /\ (Attempting' => Attempting) /\ ~DNSLost
  BY MainMoves, MainFailed, StaysLost
<1>2. CASE RestoreDNS
  <2>1. [resolv EXCEPT !.vpn = 0].vpn = 0 /\ [resolv EXCEPT !.vpn = 0].orig = resolv.orig
    BY DEF TypeOK, ContentType
  <2>2. pc = "restoreDNS"
        /\ ((~cfg.SetDNS /\ resolv' = resolv) \/ ~cfg.UseResolvconf
              \/ resolv' = [resolv EXCEPT !.vpn = 0])
    BY <1>2, Given
  <2> QED  BY <1>1, <2>1, <2>2 DEF Registered
<1>3. CASE ~RestoreDNS
  <2>1. resolv' = resolv  BY <1>3, MainRest
  <2>2. pc \in {"relay", "join", "restoreDNS"} =>
          pc' \in {"relay", "join", "restoreDNS"}
    BY <1>3, MainMoves, MainRest
  <2> QED  BY <1>1, <2>1, <2>2 DEF Registered
<1> QED  BY <1>2, <1>3

-----------------------------------------------------------------------------
LEMMA InitRestore == Init => RestoreInv
<1> SUFFICES ASSUME Init PROVE RestoreInv  OBVIOUS
<1>1. RouteInv  BY InitRoutes
<1>2. /\ pc = "connect" /\ attempt = 1 /\ savedGateway = None /\ savedDefault = None
      /\ routeBy = 0 /\ dnsBy = 0 /\ backup = NoContent /\ resolv.vpn = 0 /\ was.table = table
      /\ iface = None
  BY DEF Init
<1>3. Detours  BY <1>1, <1>2 DEF Detours, RouteInv, Link, Attempting
<1>4. HostRoute /\ SavedRoute /\ Movers /\ DefaultRoute
  BY <1>2 DEF HostRoute, SavedRoute, Movers, DefaultRoute, Attempting, InRunLoop
<1>5. DNSParts
  BY <1>2 DEF DNSParts, SavedDNS, Edited, Registered, Attempting, Early
<1> QED  BY <1>1, <1>3, <1>4, <1>5 DEF RestoreInv, RouteParts

LEMMA NextRestore == RestoreInv /\ [Next]_vars => RestoreInv'
<1> SUFFICES ASSUME RestoreInv, [Next]_vars PROVE RestoreInv'  OBVIOUS
<1>1. RouteInv'  BY NextRoutes DEF RestoreInv
<1>2. CASE Connect  BY <1>1, <1>2, ConnectRestore DEF RestoreInv
<1>3. CASE (MainStep \/ AwaitGateway \/ RelayError) /\ ~Connect
  BY <1>1, <1>3, MainDetours, MainSaved, MainMovers, MainDefault, MainEdited, MainRegistered
  DEF RestoreInv, RouteParts, DNSParts
<1>4. ASSUME NEW g \in Agents, AgentStep(g) PROVE RestoreInv'
  <2>1. CASE Quiet(g)  BY <1>1, <2>1, QuietRestore DEF RestoreInv
  <2>2. CASE Setup(g) /\ ~stray'
    BY <1>1, <2>2, OwnExtras, OwnHostRoute, OwnDefault, OwnDNS
    DEF RestoreInv, RouteParts, DNSParts
  <2>3. CASE Setup(g) /\ stray'
    <3>1. was' = was  BY <2>3, SetupFrame DEF RestoreInv, RouteInv, SetupInv
    <3> QED
      BY <1>1, <2>3, <3>1
      DEF RestoreInv, RouteParts, DNSParts, Detours, HostRoute, SavedRoute, Movers,
          DefaultRoute, SavedDNS, Edited, Registered
  <2> QED  BY <1>4, <2>1, <2>2, <2>3, StepKinds
<1>5. CASE Cancel \/ AckSeen \/ IfaceUp \/ PPPDExit \/ Roam \/ UNCHANGED vars
  BY <1>1, <1>5, WorldRestore DEF RestoreInv
<1> QED  BY <1>2, <1>3, <1>4, <1>5 DEF Next, Exited

\* connect returns with the network as it found it, for any number of attempts, of uplinks
\* and of failing calls, as far as nothing it was to restore was lost with a failed call of
\* the teardown, and what it restores was saved in this attempt.  Of several default routes
\* of the host the saved one is there again, and no other than the host's own.
THEOREM Restored == Spec => []NetworkRestored
<1>1. RestoreInv => NetworkRestored
  <2> SUFFICES ASSUME RestoreInv, pc = "cleanup", pppd = "none", ~stray
               PROVE  NetworkRestored
    BY DEF NetworkRestored
  <2> USE DEF RestoreInv, RouteParts, DNSParts, RouteInv, SetupInv
  <2>1. Attempting /\ \A d \in Dests : PPP \notin table[d]
    BY DEF Attempting, Link
  <2>2. \A d \in Extras : table[d] = was.table[d]
    <3>1. \A d \in Extras : table[d] \ {PPP} = was.table[d] /\ PPP \notin table[d]
      BY <2>1 DEF Detours, Extras
    <3> QED  BY <3>1
  <2>3. ~Failed("unpin") => table["gateway"] = was.table["gateway"]
    BY <2>1 DEF HostRoute, LeftPinned
  <2>4. /\ routeBy = 0 => table["default"] \ {PPP} = was.table["default"]
        /\ routeBy = attempt =>
             /\ table["default"] \subseteq was.table["default"] \cup {PPP}
             /\ ~Failed("restore") => savedDefault \in table["default"]
    BY <2>1 DEF DefaultRoute
  <2>5. PPP \notin table["default"]  BY <2>1, Names
  <2>6. /\ routeBy = 0 => table["default"] = was.table["default"]
        /\ routeBy = attempt =>
             /\ table["default"] \subseteq was.table["default"]
             /\ ~Failed("restore") => savedDefault \in table["default"]
    BY <2>4, <2>5
  <2>7. ASSUME dnsBy \in {0, attempt}, was.resolv # NoContent, ~DNSLost
        PROVE  resolv = was.resolv
    <3>1. CASE ~cfg.UseResolvconf  BY <2>7, <3>1 DEF Edited
    <3>2. CASE cfg.UseResolvconf
      <4>1. resolv \in ContentType /\ was.resolv \in ContentType  BY DEF TypeOK
      <4>2. resolv.vpn = 0 /\ was.resolv.vpn = 0 /\ resolv.orig = was.resolv.orig
        BY <2>1, <2>7, <3>2, <4>1 DEF Registered, ContentType
      <4> QED  BY <4>1, <4>2 DEF ContentType
    <3> QED  BY <3>1, <3>2
  <2> QED  BY <2>2, <2>3, <2>6, <2>7 DEF NetworkRestored, Extras
<1> QED  BY <1>1, InitRestore, NextRestore, PTL DEF Spec
=============================================================================
