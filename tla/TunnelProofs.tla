---------------------------- MODULE TunnelProofs ----------------------------
(***************************************************************************)
(* What the tunnel guarantees for any number of attempts, any configura-   *)
(* tion and any gateway: types; at most one setup per attempt, none of the *)
(* monitor's after RunLoop; the gateway pinned while traffic is diverted;  *)
(* nothing of the client's own among what it keeps to restore.             *)
(***************************************************************************)
EXTENDS Tunnel, SequenceTheorems, TLAPS

Table == [Dests -> SUBSET Hops]

-----------------------------------------------------------------------------
(* The operators of the model keep the types; what each of them may do.    *)

LEMMA Names ==
  /\ {"default", "gateway"} \cup Halves \subseteq Dests /\ SplitNets \subseteq Dests
  /\ "default" \notin SplitNets \cup Halves /\ "gateway" \notin SplitNets \cup Halves
  /\ "default" # "gateway" /\ "0/1" \in Halves /\ "128/1" \in Halves
  /\ PPP \in Hops /\ PPP # None
  /\ None \notin Hops /\ PPP \notin Uplinks /\ Hops = Uplinks \cup {PPP}
BY TunnelAssumption DEF Dests, Hops, Halves

\* A failed call is remembered with its attempt, and nothing that failed is forgotten.
LEMMA Remembered ==
  ASSUME TypeOK, NEW c \in Calls, failed' \in {failed, failed \cup {<<attempt, c>>}}
  PROVE  failed \subseteq failed' /\ failed' \subseteq Attempts \X Calls
BY DEF TypeOK

\* RouteAdd adds one route, where its destination has room and the hop is there, or
\* fails.
LEMMA Added ==
  ASSUME TypeOK, NEW d \in Dests, NEW h \in Hops, NEW c \in Calls, AddRoute(d, h, c)
  PROVE  /\ table' \in Table /\ \A e \in Dests \ {d} : table'[e] = table[e]
         /\ \/ /\ table'[d] = table[d] \cup {h} /\ h \notin table[d] /\ failed' = failed
               /\ table[d] = {} \/ d = "default"
               /\ h = PPP => iface # None
            \/ table' = table /\ failed' = failed \cup {<<attempt, c>>}
<1>1. CASE Accepts(d, h) /\ table' = [table EXCEPT ![d] = @ \cup {h}] /\ Succeeds
  BY <1>1 DEF TypeOK, Table, Accepts, Succeeds
<1>2. CASE table' = table /\ Fails(c, table[d] # {} \/ ~Accepts(d, h))
  BY <1>2 DEF TypeOK, Table, Fails
<1> QED  BY <1>1, <1>2 DEF AddRoute

\* RouteDel deletes the route it names, without a hop one through ppp before any other,
\* or fails, or finds none.
LEMMA Deleted ==
  ASSUME TypeOK, NEW d \in Dests, NEW h \in Hops, NEW c \in Calls, DeleteRoute(d, h, c)
  PROVE  /\ table' \in Table /\ \A e \in Dests \ {d} : table'[e] = table[e]
         /\ \/ \E r \in table[d] :
                 /\ table'[d] = table[d] \ {r} /\ failed' = failed
                 /\ IF h = PPP THEN PPP \in table[d] => r = PPP ELSE r = h
            \/ table' = table /\ failed' = failed
                 /\ IF h = PPP THEN table[d] = {} ELSE h \notin table[d]
            \/ table' = table /\ failed' = failed \cup {<<attempt, c>>}
<1>1. /\ Matching(d, h) \subseteq table[d]
      /\ h # PPP => Matching(d, h) \subseteq {h} /\ (Matching(d, h) = {} => h \notin table[d])
      /\ h = PPP /\ PPP \in table[d] => Matching(d, h) = {PPP}
      /\ h = PPP /\ PPP \notin table[d] => Matching(d, h) = table[d]
  BY DEF Matching, First
<1>2. ASSUME NEW r \in Matching(d, h), table' = [table EXCEPT ![d] = @ \ {r}], Succeeds
      PROVE  /\ table' \in Table /\ \A e \in Dests \ {d} : table'[e] = table[e]
             /\ r \in table[d] /\ table'[d] = table[d] \ {r} /\ failed' = failed
             /\ IF h = PPP THEN PPP \in table[d] => r = PPP ELSE r = h
  BY <1>1, <1>2 DEF TypeOK, Table, Succeeds
<1>3. CASE table' = table /\ ((Matching(d, h) = {} /\ Succeeds) \/ Fails(c, FALSE))
  BY <1>1, <1>3 DEF TypeOK, Table, Succeeds, Fails
<1> QED  BY <1>2, <1>3 DEF DeleteRoute

\* Routes through ppp are added where there was room.
LEMMA Through ==
  ASSUME TypeOK, NEW ds \in SUBSET Dests, NEW c \in Calls, AddThroughPPP(ds, c)
  PROVE  /\ table' \in Table
         /\ failed' \in {failed, failed \cup {<<attempt, c>>}}
         /\ \A e \in Dests : \/ table'[e] = table[e]
                             \/ /\ e \in ds /\ table'[e] = table[e] \cup {PPP}
                                /\ table[e] = {} \/ e = "default"
                                /\ iface # None
<1>1. PICK es \in SUBSET {d \in ds : Accepts(d, PPP)} :
        /\ table' = [d \in Dests |-> IF d \in es THEN table[d] \cup {PPP} ELSE table[d]]
        /\ (es = {d \in ds : Accepts(d, PPP)} /\ Succeeds) \/ Fails(c, FALSE)
  BY DEF AddThroughPPP
<1>2. \A e \in es : e \in ds /\ (table[e] = {} \/ e = "default") /\ iface # None
  BY <1>1 DEF Accepts
<1>3. table' \in Table  BY <1>1, Names DEF TypeOK, Table
<1>4. failed' \in {failed, failed \cup {<<attempt, c>>}}  BY <1>1 DEF Succeeds, Fails
<1> QED  BY <1>1, <1>2, <1>3, <1>4

\* The first two elements of a sequence form a sequence.
LEMMA FirstTwo ==
  ASSUME NEW S, NEW s \in Seq(S), ~(Len(s) <= 2)
  PROVE  SubSeq(s, 1, 2) \in Seq(S) /\ Len(SubSeq(s, 1, 2)) = 2
<1>1. \A i \in 1..2 : s[i] \in S  BY ElementOfSeq, LenProperties
<1> QED  BY <1>1, SubSeqProperties

\* parseXMLConfig leaves a configuration, with two name servers at most.
LEMMA Parsed ==
  ASSUME NEW c \in ReplyType, NEW r \in ReplyType
  PROVE  ParseXML(c, r) \in ReplyType /\ Len(ParseXML(c, r).ns) <= 2
<1>1. c.ns \o r.ns \in Seq(Servers)
  BY ConcatProperties DEF ReplyType
<1>2. AppendServers(c.ns, r.ns) \in Seq(Servers) /\ Len(AppendServers(c.ns, r.ns)) <= 2
  <2>1. CASE Len(c.ns \o r.ns) <= 2  BY <1>1, <2>1, Zenon DEF AppendServers
  <2>2. CASE ~(Len(c.ns \o r.ns) <= 2)
    <3>1. AppendServers(c.ns, r.ns) = SubSeq(c.ns \o r.ns, 1, 2)
      BY <2>2, Zenon DEF AppendServers
    <3>2. SubSeq(c.ns \o r.ns, 1, 2) \in Seq(Servers) /\ Len(SubSeq(c.ns \o r.ns, 1, 2)) = 2
      BY <1>1, <2>2, FirstTwo, Zenon
    <3>3. AppendServers(c.ns, r.ns) \in Seq(Servers) /\ Len(AppendServers(c.ns, r.ns)) = 2
      BY <3>1, <3>2, Zenon
    <3> QED  BY <3>3
  <2> QED  BY <2>1, <2>2
<1> QED  BY <1>2 DEF ParseXML, ReplyType

-----------------------------------------------------------------------------
(* Types.                                                                  *)

\* The teardown comes to restore a default route only when it has one.
Restorable == pc \in {"clear", "restore"} => savedDefault # None

LEMMA InitType == Init => TypeOK /\ Restorable
<1> SUFFICES ASSUME Init PROVE TypeOK /\ Restorable  OBVIOUS
<1> USE TunnelAssumption
<1>1. table \in Table  BY DEF Init, Table, Hops
<1>2. NoConfig \in ReplyType /\ Len(NoConfig.ns) <= 2
  BY DEF NoConfig, ReplyType
<1>3. NoContent \in ContentType /\ resolv \in ContentType /\ NoInfo \in InfoType
  BY DEF Init, NoContent, NoInfo, ContentType, InfoType
<1>4. /\ was \in [table: Table, resolv: ContentType] /\ stray \in BOOLEAN
      /\ routeBy \in 0..MaxAttempts /\ dnsBy \in 0..MaxAttempts /\ reply \in ReplyType
  <2>1. was \in [table: Table, resolv: ContentType]  BY <1>1, <1>3 DEF Init
  <2>2. 0 \in 0..MaxAttempts  OBVIOUS
  <2> QED  BY <1>2, <2>1, <2>2 DEF Init
<1>5. /\ apc \in [Agents -> AgentPC] /\ info \in [Agents -> InfoType]
      /\ def \in [Agents -> Hops \cup {None}]
      /\ once \in [Attempts -> {"new", "running", "done"}]
  BY <1>3 DEF Init, AgentPC
<1>6. pc \in MainPC /\ attempt \in Attempts /\ roams \in Nat
  BY DEF Init, MainPC, Attempts
<1>7. cfg \in Configs /\ cancelled \in BOOLEAN
      /\ state \in {"down", "connecting", "up", "disconnecting"}
      /\ ipcpCh \in {"empty", "queued", "taken"} /\ pppd \in {"none", "running", "killed"}
      /\ lease \in IPs \cup {None} /\ iface \in IPs \cup {None}
      /\ savedDefault \in Hops \cup {None} /\ savedGateway \in Hops \cup {None}
      /\ ipv4Cfg = NoConfig /\ backup = NoContent
  BY DEF Init
<1>8. failed \subseteq Attempts \X Calls /\ pc = "connect"  BY DEF Init
<1> QED
  BY <1>1, <1>2, <1>3, <1>4, <1>5, <1>6, <1>7, <1>8 DEF TypeOK, Table, Restorable

\* The contents resolv.conf can take.
LEMMA Contents ==
  /\ NoContent \in ContentType
  /\ \A c \in ContentType, n \in Nat : [c EXCEPT !.vpn = n] \in ContentType
BY DEF NoContent, ContentType

LEMMA FileType ==
  ASSUME TypeOK, \/ resolv' \in {resolv, backup, NoContent}
                 \/ \E n \in Nat : resolv' = [resolv EXCEPT !.vpn = n]
  PROVE  resolv' \in ContentType
BY Contents DEF TypeOK

LEMMA AddedDNS ==
  ASSUME TypeOK, AddDNS
  PROVE  /\ resolv' \in ContentType /\ backup' \in ContentType
         /\ dnsBy' \in {dnsBy, attempt}
<1>1. resolv.vpn + 1 \in Nat /\ 1 \in Nat  BY DEF TypeOK, ContentType
<1>2. \/ resolv' \in {resolv, NoContent}
      \/ \E n \in Nat : resolv' = [resolv EXCEPT !.vpn = n]
  BY <1>1 DEF AddDNS, Unwritten
<1>3. backup' \in {backup, resolv} /\ dnsBy' \in {dnsBy, attempt}  BY DEF AddDNS
<1> QED  BY <1>2, <1>3, FileType DEF TypeOK

\* Where an agent stands in Attempts.
LEMMA AgentAttempt ==
  ASSUME TypeOK, NEW g \in Agents PROVE AttemptOf(g) \in Attempts
  BY DEF TypeOK, AttemptOf, Agents, Pollers

LEMMA MainType ==
  ASSUME TypeOK, Restorable, MainStep \/ AwaitGateway \/ RelayError PROVE TypeOK'
<1> USE TunnelAssumption DEF TypeOK, tunVars, agentVars, linkVars, netVars, procVars, hist
<1>1. CASE Connect  BY <1>1 DEF Connect, MainPC
<1>2. CASE Dial  BY <1>2 DEF Dial, Goto, MainPC
<1>3. CASE Authenticate \/ RequestVPNAllocation \/ Redial \/ Fail
  BY <1>3 DEF Authenticate, RequestVPNAllocation, Redial, Fail, Goto, MainPC
<1>4. CASE FetchConfig
  <2>1. reply' \in ReplyType /\ ipv4Cfg' = ParseXML(ipv4Cfg, reply')
    BY <1>4 DEF FetchConfig
  <2>2. ipv4Cfg' \in ReplyType /\ Len(ipv4Cfg'.ns) <= 2
    BY <2>1, Parsed
  <2> QED  BY <1>4, <2>1, <2>2 DEF FetchConfig, Goto, MainPC
<1>5. CASE StartPPPD  BY <1>5 DEF StartPPPD, Goto, MainPC
<1>6. CASE Activate
  <2>1. apc' \in [Agents -> AgentPC]  BY <1>6 DEF Activate, AgentPC
  <2> QED  BY <1>6, <2>1 DEF Activate, Goto, MainPC
<1>7. CASE StopRelay \/ RelayError
  BY <1>7 DEF StopRelay, RelayError, LeaveRelay, Signalled, Goto, MainPC
<1>8. CASE Join  BY <1>8 DEF Join, MainPC, AgentPC
<1>9. CASE RestoreDNS
  <2>1. resolv' \in ContentType
    <3>1. \/ resolv' \in {resolv, backup, NoContent}
          \/ \E n \in Nat : resolv' = [resolv EXCEPT !.vpn = n]
      BY <1>9 DEF RestoreDNS, RemoveDNS, Unwritten
    <3> QED  BY <3>1, FileType
  <2>2. failed' \in {failed, failed \cup {<<attempt, "restoreDNS">>}}
    BY <1>9 DEF RestoreDNS, RemoveDNS, Succeeds, Fails
  <2>3. failed' \subseteq Attempts \X Calls  BY <2>2, Remembered DEF Calls
  <2> QED  BY <1>9, <2>1, <2>3 DEF RestoreDNS, Goto, MainPC
<1>10. CASE UnpinGateway
  <2>1. savedGateway # None => table' \in Table /\ failed' \subseteq Attempts \X Calls
    BY <1>10, Deleted, Remembered, Names DEF UnpinGateway, Calls
  <2>2. table' \in Table /\ failed' \subseteq Attempts \X Calls
    BY <1>10, <2>1 DEF UnpinGateway, Table
  <2> QED  BY <1>10, <2>2 DEF UnpinGateway, Goto, MainPC, Table
<1>11. CASE ClearDefault
  <2>1. table' \in Table /\ failed' \subseteq Attempts \X Calls
    BY <1>11, Deleted, Remembered, Names DEF ClearDefault, Calls
  <2> QED  BY <1>11, <2>1 DEF ClearDefault, Goto, MainPC, Table
<1>12. CASE RestoreDefault
  <2>1. savedDefault \in Hops  BY <1>12 DEF RestoreDefault, Restorable
  <2>2. table' \in Table /\ failed' \subseteq Attempts \X Calls
    BY <1>12, <2>1, Added, Remembered, Names DEF RestoreDefault, Calls
  <2> QED  BY <1>12, <2>2 DEF RestoreDefault, Goto, MainPC, Table
<1>13. CASE Down \/ Return  BY <1>13 DEF Down, Return, Goto, MainPC
<1>14. CASE CloseProcess  BY <1>14 DEF CloseProcess, Signalled
<1>15. CASE Reconnect  BY <1>15 DEF Reconnect, MainPC, Attempts
<1>16. CASE GiveUp  BY <1>16 DEF GiveUp, Goto, MainPC
<1> QED
  BY <1>1, <1>2, <1>3, <1>4, <1>5, <1>6, <1>7, <1>8, <1>9, <1>10, <1>11, <1>12, <1>13,
     <1>14, <1>15, <1>16
  DEF MainStep, AwaitGateway

LEMMA NothingHeld == NoInfo \in InfoType  BY DEF NoInfo, InfoType

LEMMA AgentType ==
  ASSUME NEW g \in Agents, TypeOK, AgentStep(g) PROVE TypeOK'
<1> USE TunnelAssumption, AgentAttempt
    DEF TypeOK, tunVars, agentVars, linkVars, netVars, procVars, hist
<1>1. CASE g = Monitor /\ (MonitorEvent \/ MonitorCancelled)
  <2>1. apc' \in [Agents -> AgentPC]
    BY <1>1 DEF MonitorEvent, MonitorCancelled, Exit, Move, AgentPC
  <2>2. \A b \in BOOLEAN : [ip |-> lease, dns |-> b] \in InfoType  BY DEF InfoType
  <2>3. info' \in [Agents -> InfoType]
    BY <1>1, <2>2, NothingHeld DEF MonitorEvent, MonitorCancelled, Exit
  <2> QED  BY <1>1, <2>1, <2>3 DEF MonitorEvent, MonitorCancelled, Exit
<1>2. CASE PollerRead(g) \/ PollerFound(g) \/ PollerTimeout(g)
  <2>1. apc' \in [Agents -> AgentPC]
    BY <1>2 DEF PollerRead, PollerFound, PollerTimeout, Exit, Move, AgentPC
  <2>2. \A b \in BOOLEAN : [ip |-> ipv4Cfg.ip, dns |-> b] \in InfoType
    BY DEF InfoType, ReplyType
  <2>3. info' \in [Agents -> InfoType]
    <3>1. \E i \in InfoType : info' = [info EXCEPT ![g] = i]
      BY <1>2, <2>2, NothingHeld DEF PollerRead, PollerFound, PollerTimeout, Exit
    <3> QED  BY <3>1
  <2> QED  BY <1>2, <2>1, <2>3 DEF PollerRead, PollerFound, PollerTimeout, Exit
<1>3. CASE EnterOnce(g)  BY <1>3, NothingHeld DEF EnterOnce, Exit, Move, AgentPC, BodyPC
<1>4. CASE FindIface(g) \/ FindTimeout(g)
  BY <1>4, NothingHeld DEF FindIface, FindTimeout, LeaveOnce, Exit, Move, AgentPC, BodyPC
<1>5. CASE GetDefault(g)
  <2>1. "default" \in Dests /\ attempt \in 0..MaxAttempts  BY DEF Dests, Attempts
  <2>2. Listed \subseteq Hops  BY Names DEF Listed, First
  <2>3. def' \in [Agents -> Hops \cup {None}] /\ savedDefault' \in Hops \cup {None}
        /\ routeBy' \in 0..MaxAttempts
    <3>1. ASSUME NEW h \in Listed, def' = [def EXCEPT ![g] = h], savedDefault' = h,
                 routeBy' = attempt
          PROVE  /\ def' \in [Agents -> Hops \cup {None}] /\ savedDefault' \in Hops
                 /\ routeBy' \in 0..MaxAttempts
      BY <2>1, <2>2, <3>1
    <3>2. CASE def' = [def EXCEPT ![g] = None] /\ UNCHANGED <<savedDefault, routeBy>>
      BY <3>2
    <3> QED  BY <1>5, <3>1, <3>2 DEF GetDefault
  <2>4. failed' \in {failed, failed \cup {<<attempt, "getdef">>}}
    BY <1>5 DEF GetDefault, Succeeds, Fails
  <2>5. failed' \subseteq Attempts \X Calls  BY <2>4, Remembered DEF Calls
  <2> QED  BY <1>5, <2>3, <2>5 DEF GetDefault, Mark, Move, AgentPC, BodyPC
<1>6. CASE PinGateway(g)
  <2>1. def[g] # None => table' \in Table /\ failed' \subseteq Attempts \X Calls
    BY <1>6, Added, Remembered, Names DEF PinGateway, Calls
  <2>2. /\ table' \in Table /\ failed' \subseteq Attempts \X Calls
        /\ savedGateway' \in Hops \cup {None}
    BY <1>6, <2>1 DEF PinGateway, Table
  <2> QED  BY <1>6, <2>2 DEF PinGateway, Mark, Move, AgentPC, BodyPC, Table
<1>7. CASE SetupRoutes(g)
  <2>1. ipv4Cfg.split \subseteq Dests  BY Names DEF ReplyType
  <2>2. ASSUME NEW ds \in SUBSET Dests, AddThroughPPP(ds, "route")
        PROVE  table' \in Table /\ failed' \subseteq Attempts \X Calls
    BY <2>2, Through, Remembered DEF Calls
  <2>3. ASSUME def[g] # None, DeleteRoute("default", def[g], "route")
        PROVE  table' \in Table /\ failed' \subseteq Attempts \X Calls
    BY <2>3, Deleted, Remembered, Names DEF Calls
  <2>4. table' \in Table /\ failed' \subseteq Attempts \X Calls
    BY <1>7, <2>1, <2>2, <2>3, Names DEF SetupRoutes, Table
  <2>5. Move(g, "dns") \/ Move(g, "swap")  BY <1>7 DEF SetupRoutes
  <2> QED  BY <1>7, <2>4, <2>5 DEF SetupRoutes, Mark, Move, AgentPC, BodyPC, Table
<1>8. CASE SwapDefault(g)
  <2>1. table' \in Table /\ failed' \subseteq Attempts \X Calls
    BY <1>8, Through, Remembered, Names DEF SwapDefault, Calls
  <2> QED  BY <1>8, <2>1 DEF SwapDefault, Mark, Move, AgentPC, BodyPC, Table
<1>9. CASE SetupDNS(g)
  <2>1. /\ resolv' \in ContentType /\ backup' \in ContentType
        /\ dnsBy' \in {dnsBy, attempt}
    BY <1>9, AddedDNS DEF SetupDNS
  <2>2. attempt \in 0..MaxAttempts  BY DEF Attempts
  <2>3. dnsBy' \in 0..MaxAttempts  BY <2>1, <2>2
  <2>4. failed' \in {failed, failed \cup {<<attempt, "dns">>}}
    BY <1>9 DEF SetupDNS, AddDNS, Succeeds, Fails
  <2>5. failed' \subseteq Attempts \X Calls  BY <2>4, Remembered DEF Calls
  <2> QED  BY <1>9, <2>1, <2>3, <2>5 DEF SetupDNS, Mark, Move, AgentPC, BodyPC, Table
<1>10. CASE SetUp(g)  BY <1>10, NothingHeld DEF SetUp, LeaveOnce, Exit, Mark, Move, AgentPC
<1> QED
  BY <1>1, <1>2, <1>3, <1>4, <1>5, <1>6, <1>7, <1>8, <1>9, <1>10 DEF AgentStep, Body

LEMMA WorldType ==
  TypeOK /\ (Cancel \/ AckSeen \/ IfaceUp \/ PPPDExit \/ Roam \/ UNCHANGED vars) => TypeOK'
<1> SUFFICES ASSUME TypeOK, Cancel \/ AckSeen \/ IfaceUp \/ PPPDExit \/ Roam \/ UNCHANGED vars
             PROVE  TypeOK'
  OBVIOUS
<1> USE TunnelAssumption DEF TypeOK, tunVars, agentVars, linkVars, netVars, procVars, hist
<1>1a. CASE Cancel  BY <1>1a DEF Cancel
<1>1b. CASE AckSeen  BY <1>1b DEF AckSeen
<1>1c. CASE IfaceUp  BY <1>1c DEF IfaceUp
<1>2. CASE PPPDExit
  <2>1. table' \in Table
    BY <1>2 DEF PPPDExit, FlushPPP, Table
  <2> QED  BY <1>2, <2>1 DEF PPPDExit, Table
<1>3. CASE Roam
  <2>1. PICK us \in HostDefaults : table' = [table EXCEPT !["default"] = us]
    BY <1>3 DEF Roam
  <2>2. us \subseteq Hops  BY <2>1 DEF Hops
  <2>3. table' \in Table  BY <2>1, <2>2 DEF Table
  <2> QED  BY <1>3, <2>3 DEF Roam, Table
<1>4. CASE UNCHANGED vars  BY <1>4 DEF vars
<1> QED  BY <1>1a, <1>1b, <1>1c, <1>2, <1>3, <1>4

LEMMA StillRestorable == TypeOK /\ Restorable /\ [Next]_vars => Restorable'
<1> SUFFICES ASSUME TypeOK, Restorable, [Next]_vars PROVE Restorable'  OBVIOUS
<1>1. CASE MainStep \/ AwaitGateway \/ RelayError
  <2>1. savedDefault' = savedDefault
        /\ (pc' \in {"clear", "restore"} => pc = "clear" \/ savedDefault # None)
    BY <1>1 DEF MainStep, AwaitGateway, Connect, Dial, Authenticate, RequestVPNAllocation,
         Redial, FetchConfig, StartPPPD, Activate, Fail, StopRelay, RelayError, LeaveRelay,
         Join, RestoreDNS, UnpinGateway, ReplacesDefault, ClearDefault, RestoreDefault, Down,
         CloseProcess, Return, Reconnect, GiveUp, Goto, tunVars, procVars, Restorable
  <2> QED  BY <2>1 DEF Restorable
<1>2. ASSUME NEW g \in Agents, AgentStep(g) PROVE Restorable'
  <2>1. GetDefault(g) => savedDefault' = savedDefault \/ savedDefault' \in Listed
    BY DEF GetDefault
  <2>2. None \notin Listed  BY Names DEF Listed, First, TypeOK
  <2>3. pc' = pc /\ (savedDefault' = savedDefault \/ GetDefault(g))
    BY <1>2 DEF AgentStep, Body, MonitorEvent, MonitorCancelled, PollerRead, PollerFound,
         PollerTimeout, EnterOnce, FindIface, FindTimeout, GetDefault, PinGateway,
         SetupRoutes, SwapDefault, SetupDNS, SetUp, procVars, tunVars
  <2> QED  BY <2>1, <2>2, <2>3 DEF Restorable
<1>3. CASE Cancel \/ AckSeen \/ IfaceUp \/ PPPDExit \/ Roam \/ UNCHANGED vars
  BY <1>3 DEF Cancel, AckSeen, IfaceUp, PPPDExit, Roam, vars, procVars, tunVars, Restorable
<1> QED  BY <1>1, <1>2, <1>3 DEF Next, Exited

\* Every variable of the process, of its goroutines and of the system keeps its type.
THEOREM TypeCorrect == Spec => []TypeOK
<1>1. TypeOK /\ Restorable /\ [Next]_vars => (TypeOK /\ Restorable)'
  BY MainType, AgentType, WorldType, StillRestorable DEF Next, Exited
<1> QED  BY <1>1, InitType, PTL DEF Spec

-----------------------------------------------------------------------------
(* Who is in onIPCPComplete.  OneSetup is not inductive: that a second     *)
(* goroutine cannot enter is known from the once of the attempt, and that  *)
(* the attempt's number may go up without a monitor taking another's once  *)
(* along, from MonitorJoined.                                              *)

Claims == \A g \in Agents : apc[g] \in BodyPC => once[AttemptOf(g)] = "running"
SetupInv == TypeOK /\ Restorable /\ MonitorJoined /\ Claims /\ OneSetup

LEMMA InitSetup == Init => SetupInv
<1> SUFFICES ASSUME Init PROVE SetupInv  OBVIOUS
<1>1. \A g \in Agents : apc[g] = "off"  BY DEF Init
<1>2. MonitorJoined  BY <1>1 DEF MonitorJoined, Agents
<1> QED  BY <1>1, <1>2, InitType DEF SetupInv, Claims, OneSetup, BodyPC

\* A step that moves no goroutine, opens no RunLoop and leaves one only when the
\* monitor is gone keeps the invariant.
LEMMA QuietSetup ==
  ASSUME SetupInv, TypeOK', Restorable', UNCHANGED <<apc, once, attempt>>, InRunLoop => InRunLoop'
  PROVE  SetupInv'
<1>1. MonitorJoined'  BY DEF SetupInv, MonitorJoined
<1>2. Claims' /\ OneSetup'  BY DEF SetupInv, Claims, OneSetup, AttemptOf
<1> QED  BY <1>1, <1>2 DEF SetupInv

LEMMA MainSetup ==
  ASSUME SetupInv, TypeOK', Restorable', MainStep \/ AwaitGateway \/ RelayError PROVE SetupInv'
<1> USE DEF SetupInv
<1>0. Monitor \in Agents /\ attempt \in Agents /\ attempt # Monitor
  BY TunnelAssumption DEF Agents, Monitor, Pollers, Attempts, TypeOK
<1>1. CASE Activate
  <2>1. /\ apc' = [apc EXCEPT ![Monitor] = "select", ![attempt] = "read"]
        /\ once' = once /\ attempt' = attempt /\ pc' = "relay"
    BY <1>1 DEF Activate, Goto
  <2>2. \A g \in Agents : apc'[g] \in BodyPC => apc'[g] = apc[g]
    BY <2>1, <1>0 DEF TypeOK, BodyPC
  <2>3. Claims' /\ OneSetup'
    BY <2>1, <2>2 DEF Claims, OneSetup, AttemptOf
  <2>4. MonitorJoined'  BY <2>1 DEF MonitorJoined, InRunLoop
  <2> QED  BY <2>3, <2>4
<1>2. CASE Join
  <2>1. apc' = [apc EXCEPT ![Monitor] = "off"] /\ once' = once /\ attempt' = attempt
    BY <1>2 DEF Join
  <2>2. \A g \in Agents : apc'[g] \in BodyPC => apc'[g] = apc[g]
    BY <2>1, <1>0 DEF TypeOK, BodyPC
  <2>3. Claims' /\ OneSetup'
    BY <2>1, <2>2 DEF Claims, OneSetup, AttemptOf
  <2>4. MonitorJoined'  BY <2>1, <1>0 DEF MonitorJoined, TypeOK
  <2> QED  BY <2>3, <2>4
<1>3. CASE Reconnect
  <2>1. UNCHANGED <<apc, once>> /\ pc = "backoff"
    BY <1>3 DEF Reconnect, agentVars
  <2>2. apc[Monitor] = "off"  BY <2>1 DEF MonitorJoined, InRunLoop
  <2>3. \A g \in Agents : g # Monitor => AttemptOf(g)' = AttemptOf(g)  BY DEF AttemptOf
  <2>4. apc'[Monitor] \notin BodyPC  BY <2>1, <2>2 DEF BodyPC
  <2>5. Claims'  BY <2>1, <2>3, <2>4 DEF Claims
  <2>6. OneSetup'  BY <2>1, <2>3, <2>4 DEF OneSetup
  <2> QED  BY <2>1, <2>2, <2>5, <2>6 DEF MonitorJoined
<1>4. CASE StopRelay \/ RelayError
  <2>1. UNCHANGED <<apc, once, attempt>> /\ pc' = "join"
    BY <1>4 DEF StopRelay, RelayError, LeaveRelay, Goto, agentVars
  <2> QED  BY <2>1, QuietSetup DEF InRunLoop
<1>5. CASE Connect \/ Dial \/ Redial \/ StartPPPD \/ Fail \/ Authenticate
             \/ RequestVPNAllocation \/ FetchConfig
  <2>1. UNCHANGED <<apc, once, attempt>> /\ ~InRunLoop
    BY <1>5 DEF Connect, Dial, Redial, StartPPPD, Fail, Authenticate,
                RequestVPNAllocation, FetchConfig, Goto, agentVars, InRunLoop
  <2> QED  BY <2>1, QuietSetup
<1>6. CASE RestoreDNS \/ UnpinGateway \/ ClearDefault \/ RestoreDefault \/ Down
             \/ CloseProcess \/ Return \/ GiveUp
  <2>1. UNCHANGED <<apc, once, attempt>> /\ ~InRunLoop
    BY <1>6 DEF RestoreDNS, UnpinGateway, ClearDefault, RestoreDefault, Down,
                CloseProcess, Return, GiveUp, Goto, agentVars, procVars, InRunLoop
  <2> QED  BY <2>1, QuietSetup
<1> QED
  BY <1>1, <1>2, <1>3, <1>4, <1>5, <1>6 DEF MainStep, AwaitGateway

\* A step of one goroutine: it enters under a new once, leaves under its own, or
\* stays on its side.
LEMMA AgentSetup ==
  ASSUME NEW g \in Agents, SetupInv, TypeOK', Restorable', AgentStep(g) PROVE SetupInv'
<1> USE DEF SetupInv
<1>a. AttemptOf(g) \in Attempts  BY AgentAttempt
<1>1. UNCHANGED <<pc, attempt>>
  BY DEF AgentStep, Body, MonitorEvent, MonitorCancelled, PollerRead, PollerFound,
         PollerTimeout, EnterOnce, FindIface, FindTimeout, GetDefault, PinGateway,
         SetupRoutes, SwapDefault, SetupDNS, SetUp, procVars
<1>2. apc[g] # "off" /\ \A h \in Agents : h # g => apc'[h] = apc[h]
  BY DEF TypeOK, AgentStep, Body, MonitorEvent, MonitorCancelled, PollerRead, PollerFound,
         PollerTimeout, EnterOnce, FindIface, FindTimeout, GetDefault, PinGateway,
         SetupRoutes, SwapDefault, SetupDNS, SetUp, LeaveOnce, Exit, Move
<1>3. MonitorJoined'
  BY <1>1, <1>2 DEF MonitorJoined, InRunLoop, Agents
<1>4. \A h \in Agents : AttemptOf(h)' = AttemptOf(h)  BY <1>1 DEF AttemptOf
<1>5. CASE EnterOnce(g) /\ once[AttemptOf(g)] = "new"
  <2>1. once' = [once EXCEPT ![AttemptOf(g)] = "running"]  BY <1>5 DEF EnterOnce
  <2>2. \A h \in Agents : apc[h] \in BodyPC => AttemptOf(h) # AttemptOf(g)
    BY <1>5 DEF Claims
  <2>3. \A h \in Agents : AttemptOf(h) \in Attempts  BY AgentAttempt
  <2>4. Claims'
    BY <1>2, <1>4, <2>1, <2>2, <2>3, <1>a DEF Claims, TypeOK
  <2>5. OneSetup'  BY <1>2, <1>4, <2>2 DEF OneSetup
  <2> QED  BY <1>3, <2>4, <2>5
<1>6. CASE LeaveOnce(g) /\ apc[g] \in BodyPC
  <2>1. once' = [once EXCEPT ![AttemptOf(g)] = "done"] /\ apc'[g] \notin BodyPC
    BY <1>6 DEF LeaveOnce, Exit, Move, TypeOK, BodyPC
  <2>2. \A h \in Agents : apc'[h] \in BodyPC => AttemptOf(h) # AttemptOf(g)
    BY <1>2, <1>6, <2>1 DEF OneSetup
  <2>3. \A h \in Agents : AttemptOf(h) \in Attempts  BY AgentAttempt
  <2>4. Claims'
    BY <1>2, <1>4, <2>1, <2>2, <2>3 DEF Claims, TypeOK
  <2>5. OneSetup'  BY <1>2, <1>4, <2>1 DEF OneSetup
  <2> QED  BY <1>3, <2>4, <2>5
<1>7. CASE once' = once /\ (apc'[g] \in BodyPC => apc[g] \in BodyPC)
  <2>1. Claims'  BY <1>2, <1>4, <1>7 DEF Claims
  <2>2. OneSetup'  BY <1>2, <1>4, <1>7 DEF OneSetup
  <2> QED  BY <1>3, <2>1, <2>2
<1>8. CASE g = Monitor /\ (MonitorEvent \/ MonitorCancelled)
  BY <1>7, <1>8 DEF MonitorEvent, MonitorCancelled, Exit, Move, TypeOK, BodyPC
<1>9. CASE g \in Pollers /\ (PollerRead(g) \/ PollerFound(g) \/ PollerTimeout(g))
  BY <1>7, <1>9 DEF PollerRead, PollerFound, PollerTimeout, Exit, Move, TypeOK, BodyPC
<1>10. CASE EnterOnce(g)
  BY <1>5, <1>7, <1>10 DEF EnterOnce, Exit, Move, TypeOK, BodyPC
<1>11. CASE FindTimeout(g) \/ SetUp(g)
  BY <1>6, <1>11 DEF FindTimeout, SetUp, BodyPC
<1>12. CASE FindIface(g) \/ GetDefault(g) \/ PinGateway(g) \/ SetupRoutes(g)
              \/ SwapDefault(g) \/ SetupDNS(g)
  <2>1. once' = once /\ apc[g] \in BodyPC
    BY <1>12 DEF FindIface, GetDefault, PinGateway, SetupRoutes, SwapDefault, SetupDNS, BodyPC
  <2> QED  BY <1>7, <2>1
<1> QED  BY <1>8, <1>9, <1>10, <1>11, <1>12 DEF AgentStep, Body

LEMMA NextSetup == SetupInv /\ [Next]_vars => SetupInv'
<1> SUFFICES ASSUME SetupInv, [Next]_vars PROVE SetupInv'  OBVIOUS
<1>1. TypeOK' /\ Restorable'
  BY MainType, AgentType, WorldType, StillRestorable DEF SetupInv, Next, Exited
<1>2. CASE MainStep \/ AwaitGateway \/ RelayError  BY <1>1, <1>2, MainSetup
<1>3. CASE \E g \in Agents : AgentStep(g)  BY <1>1, <1>3, AgentSetup
<1>4. CASE Cancel \/ AckSeen \/ IfaceUp \/ PPPDExit \/ Roam \/ UNCHANGED vars
  <2>1. UNCHANGED <<apc, once, attempt, pc>>
    BY <1>4 DEF Cancel, AckSeen, IfaceUp, PPPDExit, Roam, vars, agentVars, procVars
  <2> QED  BY <1>1, <2>1, QuietSetup DEF InRunLoop
<1> QED  BY <1>2, <1>3, <1>4 DEF Next, Exited

LEMMA Setups == Spec => []SetupInv
<1> QED  BY InitSetup, NextSetup, PTL DEF Spec

\* No monitor goroutine survives the RunLoop that started it.
THEOREM Joined == Spec => []MonitorJoined
<1>1. SetupInv => MonitorJoined  BY DEF SetupInv
<1> QED  BY <1>1, Setups, PTL

\* The monitor and the polling goroutine of an attempt are never both in
\* onIPCPComplete.
THEOREM Exclusive == Spec => []OneSetup
<1>1. SetupInv => OneSetup  BY DEF SetupInv
<1> QED  BY <1>1, Setups, PTL

-----------------------------------------------------------------------------
(* What the setups do to the network.  Up to the moment a setup of the     *)
(* running attempt reads the default route, that route is the one the      *)
(* attempt began with; from its host route on, the gateway is pinned.      *)

Own(g) == AttemptOf(g) = attempt
Early  == pc \in {"dial", "auth", "allocate", "redial", "fetch", "start", "activate",
                  "relay", "join"}

\* No setup of the attempt has read the default route yet.
Before ==
  /\ once[attempt] # "done"
  /\ \A g \in Agents : Own(g) /\ apc[g] \in BodyPC => apc[g] \in {"find", "getdef"}

\* The interface is there in RunLoop only, and without it no route leads to it.
Link ==
  /\ pppd = "none" => iface = None
  /\ iface # None => InRunLoop
  /\ pppd # "none" => pc \in {"activate", "relay", "join", "cleanup"}
  /\ iface = None => \A d \in Dests : PPP \notin table[d]

Clean == PPP \notin was.table["default"] /\ table["0/1"] \subseteq {PPP}

Untouched ==
  ~stray /\ Early /\ (Before \/ ~InRunLoop) =>
    table["default"] = was.table["default"] /\ \A d \in Halves : PPP \notin table[d]

\* The gateway is routed through the saved default route, one of the host's own.
Anchored == table["gateway"] = {savedDefault} /\ savedDefault \in was.table["default"]
Held ==
  ~stray /\ InRunLoop /\ was.table["default"] # {} /\ ~Failed("getdef") =>
    \A g \in Agents : Own(g) =>
      /\ apc[g] = "pin" => def[g] = savedDefault /\ savedDefault \in was.table["default"]
      /\ apc[g] \in {"route", "swap"} /\ ~Failed("pin") => Anchored

SavedHop == ~stray => savedDefault # PPP

RouteInv == SetupInv /\ Link /\ Clean /\ Untouched /\ Held /\ GatewayPinned /\ SavedHop

\* The steps of a goroutine that leave the network alone, and those of onIPCPComplete.
Quiet(g) ==
  \/ g = Monitor /\ (MonitorEvent \/ MonitorCancelled)
  \/ g \in Pollers /\ (PollerRead(g) \/ PollerFound(g) \/ PollerTimeout(g))
  \/ EnterOnce(g) \/ FindIface(g) \/ FindTimeout(g)
Setup(g) ==
  GetDefault(g) \/ PinGateway(g) \/ SetupRoutes(g) \/ SwapDefault(g) \/ SetupDNS(g) \/ SetUp(g)

LEMMA Quietness ==
  ASSUME TypeOK, NEW g \in Agents, Quiet(g)
  PROVE  /\ UNCHANGED <<cfg, pc, attempt, pppd, iface, was, stray, failed, table, resolv,
                        savedDefault, backup>>
         /\ \A h \in Agents : apc'[h] = apc[h] \/ apc'[h] \notin BodyPC
                               \/ (h = g /\ apc'[h] \in {"find", "getdef"})
         /\ \A h \in Agents : h # g => apc'[h] = apc[h] /\ def'[h] = def[h]
         /\ apc[g] \in BodyPC => apc[g] \in {"find", "getdef"}
         /\ \/ apc'[g] \notin BodyPC /\ apc[g] \notin BodyPC /\ once' = once
            \/ apc'[g] = "find" /\ apc[g] \notin BodyPC /\ once[AttemptOf(g)] = "new"
                 /\ once' = [once EXCEPT ![AttemptOf(g)] = "running"]
            \/ apc'[g] = "getdef" /\ apc[g] = "find" /\ once' = once
            \/ apc'[g] \notin BodyPC /\ once' = [once EXCEPT ![AttemptOf(g)] = "done"]
<1> USE DEF TypeOK, procVars, tunVars, linkVars, netVars, hist, Move, Exit, BodyPC
<1>1. CASE g = Monitor /\ (MonitorEvent \/ MonitorCancelled)
  BY <1>1 DEF MonitorEvent, MonitorCancelled
<1>2. CASE PollerRead(g) \/ PollerFound(g) \/ PollerTimeout(g)
  BY <1>2 DEF PollerRead, PollerFound, PollerTimeout
<1>3. CASE EnterOnce(g)
  BY <1>3 DEF EnterOnce
<1>4. CASE FindIface(g)
  BY <1>4 DEF FindIface
<1>5. CASE FindTimeout(g)
  BY <1>5 DEF FindTimeout, LeaveOnce
<1> QED  BY <1>1, <1>2, <1>3, <1>4, <1>5 DEF Quiet

\* A setup outside its RunLoop has strayed.
LEMMA SetupFrame ==
  ASSUME TypeOK, NEW g \in Agents, Setup(g)
  PROVE  /\ UNCHANGED <<cfg, pc, attempt, pppd, iface, was>>
         /\ ~stray' => ~stray /\ InRunLoop /\ Own(g)
         /\ \A h \in Agents : h # g => apc'[h] = apc[h]
         /\ apc[g] \in BodyPC
<1> USE DEF TypeOK, procVars, tunVars, linkVars, netVars, hist, Move, Mark, Own, BodyPC
<1>1. CASE GetDefault(g)  BY <1>1 DEF GetDefault
<1>2. CASE PinGateway(g)  BY <1>2 DEF PinGateway
<1>3. CASE SetupRoutes(g)  BY <1>3 DEF SetupRoutes
<1>4. CASE SwapDefault(g)  BY <1>4 DEF SwapDefault
<1>5. CASE SetupDNS(g)  BY <1>5 DEF SetupDNS
<1>6. CASE SetUp(g)  BY <1>6 DEF SetUp, LeaveOnce, Exit
<1> QED  BY <1>1, <1>2, <1>3, <1>4, <1>5, <1>6 DEF Setup

LEMMA StepKinds == ASSUME NEW g \in Agents, AgentStep(g) PROVE Quiet(g) \/ Setup(g)
BY DEF AgentStep, Body, Quiet, Setup

\* What a setup does to the table.
LEMMA SetupTable ==
  ASSUME TypeOK, NEW g \in Agents, Setup(g)
  PROVE  /\ \A d \in Dests : PPP \notin table[d] /\ iface = None => PPP \notin table'[d]
         /\ ~PinGateway(g) => table'["gateway"] = table["gateway"]
         /\ PinGateway(g) => \A d \in Dests \ {"gateway"} : table'[d] = table[d]
         /\ GetDefault(g) \/ SetupDNS(g) \/ SetUp(g) => table' = table
         /\ table'["0/1"] \subseteq table["0/1"] \cup {PPP}
         /\ failed \subseteq failed'
<1> USE Names
<1>1. CASE GetDefault(g)
  <2>1. failed \subseteq failed'  BY <1>1 DEF GetDefault, Succeeds, Fails
  <2> QED  BY <1>1, <2>1 DEF GetDefault, PinGateway, netVars
<1>2. CASE SetupDNS(g)
  <2>1. failed \subseteq failed'  BY <1>2 DEF SetupDNS, AddDNS, Succeeds, Fails
  <2> QED  BY <1>2, <2>1 DEF SetupDNS, PinGateway
<1>3. CASE SetUp(g)  BY <1>3 DEF SetUp, PinGateway, netVars
<1>4. CASE PinGateway(g)
  <2>1. apc[g] = "pin" /\ def[g] \in Hops \cup {None}  BY <1>4 DEF PinGateway, TypeOK
  <2>2. CASE def[g] = None
    BY <1>4, <2>1, <2>2 DEF PinGateway, GetDefault, SetupDNS, SetUp
  <2>3. CASE def[g] # None
    <3>1. AddRoute("gateway", def[g], "pin") /\ def[g] \in Hops
      BY <1>4, <2>1, <2>3 DEF PinGateway
    <3>2. /\ \A e \in Dests \ {"gateway"} : table'[e] = table[e]
          /\ PPP \notin table["gateway"] /\ iface = None => PPP \notin table'["gateway"]
          /\ failed \subseteq failed'
      BY <3>1, Added DEF Calls
    <3> QED  BY <1>4, <2>1, <3>2 DEF GetDefault, SetupDNS, SetUp
  <2> QED  BY <2>2, <2>3
<1>5. CASE SetupRoutes(g)
  <2>1. /\ apc[g] = "route" /\ def[g] \in Hops \cup {None}
        /\ ipv4Cfg.split \subseteq SplitNets
    BY <1>5 DEF SetupRoutes, TypeOK, ReplyType
  <2>2. CASE AddThroughPPP(IF ipv4Cfg.split # {} THEN ipv4Cfg.split ELSE Halves, "route")
    <3> DEFINE ds == IF ipv4Cfg.split # {} THEN ipv4Cfg.split ELSE Halves
    <3>1. ds \subseteq Dests /\ "gateway" \notin ds  BY <2>1
    <3>2. AddThroughPPP(ds, "route")  BY <2>2
    <3> HIDE DEF ds
    <3>3. /\ failed \subseteq failed'
          /\ \A e \in Dests : table'[e] = table[e] \/ (e \in ds /\ iface # None
                                                       /\ table'[e] = table[e] \cup {PPP})
      BY <3>1, <3>2, Through DEF Calls
    <3> QED  BY <2>1, <3>1, <3>3 DEF GetDefault, SetupDNS, SetUp, PinGateway
  <2>3. CASE def[g] # None /\ DeleteRoute("default", def[g], "route")
    <3>1. /\ failed \subseteq failed' /\ \A e \in Dests \ {"default"} : table'[e] = table[e]
          /\ table'["default"] \subseteq table["default"]
      BY <2>1, <2>3, Deleted DEF Calls
    <3> QED  BY <2>1, <3>1 DEF GetDefault, SetupDNS, SetUp, PinGateway
  <2>4. CASE UNCHANGED <<table, failed>>
    BY <2>1, <2>4 DEF GetDefault, SetupDNS, SetUp, PinGateway
  <2> QED  BY <1>5, <2>2, <2>3, <2>4 DEF SetupRoutes
<1>6. CASE SwapDefault(g)
  <2>1. AddThroughPPP({"default"}, "swap") /\ apc[g] = "swap"
    BY <1>6 DEF SwapDefault
  <2>2. /\ failed \subseteq failed'
        /\ \A e \in Dests : table'[e] = table[e] \/ (e = "default" /\ iface # None)
    BY <2>1, Through DEF Calls
  <2> QED  BY <2>1, <2>2 DEF GetDefault, SetupDNS, SetUp, PinGateway
<1> QED  BY <1>1, <1>2, <1>3, <1>4, <1>5, <1>6 DEF Setup

\* The steps of the main goroutine, sorted by what they mean for the routes.
LEMMA MainFrame ==
  ASSUME TypeOK, MainStep \/ AwaitGateway \/ RelayError
  PROVE  /\ UNCHANGED <<stray, def, savedDefault, iface>>
         /\ \/ Connect
            \/ Activate
            \/ ~Early' /\ was' = was /\ (table' = table \/ pc \in {"unpin", "clear", "restore"})
            \/ /\ Early /\ InRunLoop' = InRunLoop
               /\ UNCHANGED <<table, was, apc, once, attempt, failed>>
<1> USE DEF procVars, tunVars, agentVars, linkVars, netVars, hist, Goto, Early, InRunLoop
<1>1. CASE Connect \/ Activate  BY <1>1 DEF Connect, Activate
<1>2. CASE Dial \/ Authenticate \/ RequestVPNAllocation \/ Redial \/ FetchConfig \/ StartPPPD
  BY <1>2 DEF Dial, Authenticate, RequestVPNAllocation, Redial, FetchConfig, StartPPPD
<1>3. CASE StopRelay \/ RelayError
  BY <1>3 DEF StopRelay, RelayError, LeaveRelay
<1>4. CASE Fail \/ Join \/ RestoreDNS \/ Down \/ CloseProcess \/ Return \/ Reconnect \/ GiveUp
  BY <1>4 DEF Fail, Join, RestoreDNS, Down, CloseProcess, Return, Reconnect, GiveUp
<1>5. CASE UnpinGateway \/ ClearDefault \/ RestoreDefault
  BY <1>5 DEF UnpinGateway, ClearDefault, RestoreDefault
<1> QED  BY <1>1, <1>2, <1>3, <1>4, <1>5 DEF MainStep, AwaitGateway

\* What the main goroutine does to the table.
LEMMA MainTable ==
  ASSUME TypeOK, Restorable, MainStep \/ AwaitGateway \/ RelayError
  PROVE  /\ table'["0/1"] = table["0/1"]
         /\ iface = None /\ (\A d \in Dests : PPP \notin table[d])
              => \A d \in Dests : PPP \notin table'[d]
<1> USE Names
<1>1. CASE UnpinGateway
  <2>1. CASE savedGateway = None  BY <1>1, <2>1 DEF UnpinGateway
  <2>2. CASE savedGateway # None
    <3>1. DeleteRoute("gateway", savedGateway, "unpin") /\ savedGateway \in Hops
      BY <1>1, <2>2 DEF UnpinGateway, TypeOK
    <3>2. /\ \A e \in Dests \ {"gateway"} : table'[e] = table[e]
          /\ table'["gateway"] \subseteq table["gateway"]
      BY <3>1, Deleted DEF Calls
    <3> QED  BY <3>2
  <2> QED  BY <2>1, <2>2
<1>2. CASE ClearDefault
  <2>1. /\ \A e \in Dests \ {"default"} : table'[e] = table[e]
        /\ table'["default"] \subseteq table["default"]
    BY <1>2, Deleted DEF ClearDefault, Calls
  <2> QED  BY <2>1
<1>3. CASE RestoreDefault
  <2>1. AddRoute("default", savedDefault, "restore") /\ savedDefault \in Hops
    BY <1>3 DEF RestoreDefault, Restorable, TypeOK
  <2>2. /\ \A e \in Dests \ {"default"} : table'[e] = table[e]
        /\ PPP \notin table["default"] /\ iface = None => PPP \notin table'["default"]
    BY <2>1, Added DEF Calls
  <2> QED  BY <2>2
<1>4. CASE ~(UnpinGateway \/ ClearDefault \/ RestoreDefault)
  <2>1. table' = table
    BY <1>4
    DEF MainStep, AwaitGateway, Connect, Dial, Authenticate, RequestVPNAllocation, Redial,
        FetchConfig, StartPPPD, Activate, Fail, StopRelay, RelayError, LeaveRelay, Join,
        RestoreDNS, Down, CloseProcess, Return, Reconnect, GiveUp, netVars
  <2> QED  BY <2>1
<1> QED  BY <1>1, <1>2, <1>3, <1>4

\* The network's own events.
LEMMA WorldFrame ==
  ASSUME TypeOK, Cancel \/ AckSeen \/ IfaceUp \/ PPPDExit \/ Roam \/ UNCHANGED vars
  PROVE  /\ UNCHANGED <<pc, attempt, apc, once, def, was, stray, savedDefault, failed>>
         /\ \/ table' = table /\ ~PPPDExit /\ ~Roam
            \/ PPPDExit /\ iface' = None /\ table' = FlushPPP(table)
            \/ Roam /\ iface' = iface /\ pc = "backoff"
                 /\ PPP \notin table'["default"]
                 /\ \A d \in Dests \ {"default"} : table'[d] = table[d]
<1> USE DEF procVars, tunVars, agentVars, linkVars, netVars, hist
<1>1. CASE Roam
  <2>1. PICK us \in HostDefaults : table' = [table EXCEPT !["default"] = us]
    BY <1>1 DEF Roam
  <2>2. us \subseteq Uplinks  BY TunnelAssumption
  <2>3. PPP \notin table'["default"] /\ \A d \in Dests \ {"default"} : table'[d] = table[d]
    BY <2>1, <2>2, Names DEF TypeOK
  <2> QED  BY <1>1, <2>3 DEF Roam
<1>2. CASE PPPDExit  BY <1>2 DEF PPPDExit
<1>3. CASE (Cancel \/ AckSeen \/ IfaceUp \/ UNCHANGED vars) /\ ~PPPDExit /\ ~Roam
  BY <1>3 DEF Cancel, AckSeen, IfaceUp, vars
<1> QED  BY <1>1, <1>2, <1>3

LEMMA Flushed == ASSUME NEW d \in Dests PROVE FlushPPP(table)[d] = table[d] \ {PPP}
BY DEF FlushPPP

LEMMA LinkMain ==
  ASSUME TypeOK, Restorable, Link, MainStep \/ AwaitGateway \/ RelayError PROVE Link'
<1>1. /\ (pppd' = "none" => iface' = None) /\ (iface' # None => InRunLoop')
      /\ pppd' # "none" => pc' \in {"activate", "relay", "join", "cleanup"}
  BY DEF Link, MainStep, AwaitGateway, Connect, Dial, Authenticate, RequestVPNAllocation,
         Redial, FetchConfig, StartPPPD, Activate, Fail, StopRelay, RelayError, LeaveRelay,
         Signalled, Join, RestoreDNS, UnpinGateway, ClearDefault, RestoreDefault, Down,
         CloseProcess, Return, Reconnect, GiveUp, Goto, InRunLoop, linkVars, procVars
<1>2. iface' = None => \A d \in Dests : PPP \notin table'[d]
  BY MainFrame, MainTable DEF Link
<1> QED  BY <1>1, <1>2 DEF Link

LEMMA LinkAgent ==
  ASSUME TypeOK, Link, NEW g \in Agents, AgentStep(g) PROVE Link'
<1>1. CASE Quiet(g)
  BY <1>1, Quietness DEF Link, InRunLoop
<1>2. CASE Setup(g)
  BY <1>2, SetupFrame, SetupTable DEF Link, InRunLoop
<1> QED  BY <1>1, <1>2, StepKinds

LEMMA LinkWorld ==
  ASSUME TypeOK, Link, Cancel \/ AckSeen \/ IfaceUp \/ PPPDExit \/ Roam \/ UNCHANGED vars
  PROVE  Link'
<1>1. /\ (pppd' = "none" => iface' = None) /\ (iface' # None => InRunLoop')
      /\ pppd' # "none" => pc' \in {"activate", "relay", "join", "cleanup"}
  BY DEF Link, Cancel, AckSeen, IfaceUp, PPPDExit, Roam, vars, InRunLoop, linkVars, procVars
<1>2. iface' = None => \A d \in Dests : PPP \notin table'[d]
  <2>1. CASE PPPDExit  BY <2>1, Flushed DEF PPPDExit
  <2>2. CASE Roam
    <3>1. ~PPPDExit  BY <2>2 DEF PPPDExit, Roam, linkVars
    <3>2. /\ iface' = iface /\ PPP \notin table'["default"]
          /\ \A d \in Dests \ {"default"} : table'[d] = table[d]
      BY <2>2, <3>1, WorldFrame
    <3>3. iface' = None => \A d \in Dests : PPP \notin table[d]  BY <3>2 DEF Link
    <3> QED  BY <3>2, <3>3
  <2>3. CASE IfaceUp  BY <2>3, TunnelAssumption DEF IfaceUp, Link, netVars
  <2>4. CASE Cancel \/ AckSeen \/ UNCHANGED vars
    BY <2>4 DEF Link, Cancel, AckSeen, vars, linkVars, netVars
  <2> QED  BY <2>1, <2>2, <2>3, <2>4
<1> QED  BY <1>1, <1>2 DEF Link

\* Whoever is in onIPCPComplete for the running attempt is alone there.
LEMMA Alone ==
  ASSUME SetupInv, NEW g \in Agents, Own(g), apc[g] \in BodyPC, NEW h \in Agents, Own(h), h # g
  PROVE  apc[h] \notin BodyPC
BY DEF SetupInv, OneSetup, Own

\* So far untouched: a quiet step does not make it so.
LEMMA QuietRoutes ==
  ASSUME RouteInv, NEW g \in Agents, Quiet(g)
  PROVE  Clean' /\ Untouched' /\ Held' /\ GatewayPinned' /\ SavedHop'
<1> USE DEF RouteInv, SetupInv
<1>1. /\ UNCHANGED <<pc, attempt, table, was, stray, savedDefault, failed>>
      /\ \A h \in Agents : \/ apc'[h] = apc[h] /\ def'[h] = def[h]
                           \/ apc'[h] \notin BodyPC
                           \/ apc'[h] \in {"find", "getdef"}
  <2>1. apc'[g] \notin BodyPC \/ apc'[g] \in {"find", "getdef"}  BY Quietness
  <2> QED  BY <2>1, Quietness
<1>2. Before' => Before
  <2>1. AttemptOf(g) \in Attempts /\ attempt \in Attempts
    BY AgentAttempt DEF TypeOK
  <2>2. once'[attempt] # "done" => once[attempt] # "done"
    BY <2>1, Quietness DEF TypeOK
  <2>3. \A h \in Agents : Own(h)' <=> Own(h)  BY <1>1 DEF Own, AttemptOf
  <2>4. ASSUME Before', NEW h \in Agents, Own(h), apc[h] \in BodyPC
        PROVE  apc[h] \in {"find", "getdef"}
    BY <1>1, <2>3, <2>4, Quietness DEF Before
  <2> QED  BY <1>1, <2>2, <2>4 DEF Before
<1>3. Untouched'  BY <1>1, <1>2 DEF Untouched, Early, InRunLoop
<1>4. Held'
  <2>1. \A h \in Agents : Own(h)' <=> Own(h)  BY <1>1 DEF Own, AttemptOf
  <2> QED  BY <1>1, <2>1 DEF Held, Anchored, Failed, InRunLoop, BodyPC
<1> QED  BY <1>1, <1>3, <1>4 DEF Clean, GatewayPinned, Failed, SavedHop, InRunLoop

\* A step of onIPCPComplete, in the RunLoop it belongs to, pins before it redirects.
LEMMA OwnSetup ==
  ASSUME RouteInv, NEW g \in Agents, Setup(g), ~stray'
  PROVE  Clean' /\ Untouched' /\ Held' /\ GatewayPinned' /\ SavedHop'
<1> USE DEF RouteInv, SetupInv
<1> DEFINE d == was.table["default"]
<1>1. /\ UNCHANGED <<cfg, pc, attempt, pppd, iface, was>>
      /\ ~stray /\ InRunLoop /\ Own(g) /\ apc[g] \in BodyPC
      /\ \A h \in Agents : h # g => apc'[h] = apc[h]
  BY SetupFrame
<1>2. \A h \in Agents : Own(h)' <=> Own(h)  BY <1>1 DEF Own, AttemptOf
<1>3. \A h \in Agents : h # g /\ Own(h) => apc'[h] = apc[h] /\ apc[h] \notin BodyPC
  BY <1>1, Alone
<1>4. once[attempt] = "running"  BY <1>1 DEF Claims, Own
<1>5. apc[g] \in {"find", "getdef"} => Before
  BY <1>3, <1>4 DEF Before
<1>6. PPP \notin d /\ savedDefault # PPP /\ d \subseteq Hops /\ None \notin d
  BY <1>1, Names DEF Clean, SavedHop, TypeOK
<1>7. Clean'
  BY <1>1, SetupTable DEF Clean
<1>8. failed \subseteq failed' /\ (\A c \in Calls : Failed(c) => Failed(c)')
  BY <1>1, SetupTable DEF Failed
<1>9. ASSUME d # {}, ~Failed("getdef")', apc'[g] = "pin"
               => def'[g] = savedDefault' /\ savedDefault' \in d,
             apc'[g] \in {"route", "swap"} /\ ~Failed("pin")' => Anchored'
      PROVE  Held'
  BY <1>1, <1>2, <1>3, <1>9 DEF Held, BodyPC
<1>10. CASE GetDefault(g)
  <2>1. /\ apc[g] = "getdef" /\ table' = table
        /\ apc' = [apc EXCEPT ![g] = IF cfg.SetRoutes THEN "pin" ELSE "dns"]
        /\ \/ \E h \in Listed : def' = [def EXCEPT ![g] = h] /\ savedDefault' = h
           \/ savedDefault' = savedDefault
                /\ (Listed = {} \/ <<attempt, "getdef">> \in failed')
    BY <1>10 DEF GetDefault, Move, netVars, Fails
  <2>2. table["default"] = d /\ (\A e \in Halves : PPP \notin table[e])
    BY <1>1, <1>5, <2>1 DEF Untouched, Early, InRunLoop
  <2>3. table["0/1"] = {}  BY <2>2, Names DEF Clean
  <2>4. Listed = d  BY <1>6, <2>2, <2>3 DEF Listed, First
  <2>5. apc'[g] \in {"pin", "dns"}  BY <2>1 DEF TypeOK
  <2>6. d # {} /\ ~Failed("getdef")' => def'[g] = savedDefault' /\ savedDefault' \in d
    BY <1>1, <2>1, <2>4 DEF TypeOK, Failed
  <2>7. ~Before'  BY <1>1, <1>2, <2>5 DEF Before, BodyPC
  <2>8. Held'
    <3> SUFFICES ASSUME d # {}, ~Failed("getdef")' PROVE Held'
      BY <1>1 DEF Held
    <3> QED  BY <1>9, <2>5, <2>6
  <2>9. Untouched'  BY <1>1, <2>7 DEF Untouched, InRunLoop
  <2>10. GatewayPinned'
    BY <1>6, <2>1, <2>2, Names DEF GatewayPinned
  <2>11. SavedHop'  BY <1>6, <2>1, <2>4 DEF SavedHop
  <2> QED  BY <1>7, <2>8, <2>9, <2>10, <2>11
<1>11. CASE PinGateway(g)
  <2>1. /\ apc[g] = "pin" /\ apc' = [apc EXCEPT ![g] = "route"]
        /\ savedDefault' = savedDefault /\ def' = def
    BY <1>11 DEF PinGateway, Move
  <2>2. apc'[g] = "route"  BY <2>1 DEF TypeOK
  <2>3. d # {} /\ ~Failed("getdef")' /\ ~Failed("pin")' => Anchored'
    <3> SUFFICES ASSUME d # {}, ~Failed("getdef")', ~Failed("pin")' PROVE Anchored'
      OBVIOUS
    <3>1. def[g] = savedDefault /\ savedDefault \in d
      BY <1>1, <1>8, <2>1 DEF Held, Calls
    <3>2. AddRoute("gateway", savedDefault, "pin") /\ savedDefault \in Hops
      BY <1>6, <1>11, <3>1 DEF PinGateway
    <3>3. /\ table'["gateway"] = table["gateway"] \cup {savedDefault}
          /\ table["gateway"] = {}
      BY <1>1, <3>2, Added, Names DEF Failed, Calls
    <3> QED  BY <1>1, <2>1, <3>1, <3>3 DEF Anchored
  <2>4. ~Before'  BY <1>1, <1>2, <2>2 DEF Before, BodyPC
  <2>5. Held'
    <3> SUFFICES ASSUME d # {}, ~Failed("getdef")' PROVE Held'
      BY <1>1 DEF Held
    <3> QED  BY <1>9, <2>2, <2>3
  <2>6. Untouched'  BY <1>1, <2>4 DEF Untouched, InRunLoop
  <2>7. GatewayPinned'  BY <1>1, <2>3 DEF GatewayPinned, Anchored
  <2> QED  BY <1>6, <1>7, <2>1, <2>5, <2>6, <2>7 DEF SavedHop
<1>12. CASE SetupRoutes(g) \/ SwapDefault(g)
  <2>1. /\ apc[g] \in {"route", "swap"} /\ savedDefault' = savedDefault
        /\ \/ apc' = [apc EXCEPT ![g] = "dns"]
           \/ apc' = [apc EXCEPT ![g] = "swap"]
    BY <1>12 DEF SetupRoutes, SwapDefault, Move, tunVars
  <2>2. table'["gateway"] = table["gateway"]
    BY <2>1, SetupTable DEF PinGateway
  <2>3. apc'[g] \in {"dns", "swap"}  BY <2>1 DEF TypeOK
  <2>4. d # {} /\ ~Failed("getdef")' /\ ~Failed("pin")' => Anchored'
    BY <1>1, <1>8, <2>1, <2>2 DEF Held, Anchored, Calls
  <2>5. ~Before'  BY <1>1, <1>2, <2>3 DEF Before, BodyPC
  <2>6. Held'
    <3> SUFFICES ASSUME d # {}, ~Failed("getdef")' PROVE Held'
      BY <1>1 DEF Held
    <3> QED  BY <1>9, <2>3, <2>4
  <2>7. Untouched'  BY <1>1, <2>5 DEF Untouched, InRunLoop
  <2>8. GatewayPinned'  BY <1>1, <2>4 DEF GatewayPinned, Anchored
  <2> QED  BY <1>6, <1>7, <2>1, <2>6, <2>7, <2>8 DEF SavedHop
<1>13. CASE SetupDNS(g) \/ SetUp(g)
  <2>1. /\ table' = table /\ savedDefault' = savedDefault
        /\ \/ apc' = [apc EXCEPT ![g] = "up"]
           \/ apc' = [apc EXCEPT ![g] = "exit"] /\ once' = [once EXCEPT ![AttemptOf(g)] = "done"]
    BY <1>13 DEF SetupDNS, SetUp, LeaveOnce, Exit, Move, tunVars, netVars
  <2>2. apc'[g] \in {"up", "exit"} /\ (apc'[g] = "exit" => once'[attempt] = "done")
    BY <1>1, <2>1 DEF TypeOK, Own
  <2>3. ~Before'  BY <1>1, <1>2, <2>2 DEF Before, BodyPC
  <2>4. Held'
    <3> SUFFICES ASSUME d # {}, ~Failed("getdef")' PROVE Held'
      BY <1>1 DEF Held
    <3> QED  BY <1>9, <2>2
  <2>5. Untouched'  BY <1>1, <2>3 DEF Untouched, InRunLoop
  <2>6. GatewayPinned'
    BY <1>1, <1>8, <2>1 DEF GatewayPinned, InRunLoop, Calls
  <2> QED  BY <1>6, <1>7, <2>1, <2>4, <2>5, <2>6 DEF SavedHop
<1> QED  BY <1>10, <1>11, <1>12, <1>13 DEF Setup

LEMMA AgentRoutes ==
  ASSUME RouteInv, NEW g \in Agents, AgentStep(g)
  PROVE  Clean' /\ Untouched' /\ Held' /\ GatewayPinned' /\ SavedHop'
<1>1. CASE Quiet(g)  BY <1>1, QuietRoutes
<1>2. CASE Setup(g) /\ ~stray'  BY <1>2, OwnSetup
<1>3. CASE Setup(g) /\ stray'
  <2>1. was' = was  BY <1>3, SetupFrame DEF RouteInv, SetupInv
  <2>2. Clean'  BY <1>3, <2>1, SetupTable DEF Clean, RouteInv, SetupInv
  <2> QED
    BY <1>3, <2>2 DEF RouteInv, Untouched, Held, GatewayPinned, SavedHop
<1> QED  BY <1>1, <1>2, <1>3, StepKinds

LEMMA MainRoutes ==
  ASSUME RouteInv, MainStep \/ AwaitGateway \/ RelayError
  PROVE  Clean' /\ Untouched' /\ Held' /\ GatewayPinned' /\ SavedHop'
<1> USE DEF RouteInv, SetupInv
<1>1. UNCHANGED <<stray, def, savedDefault, iface>> /\ table'["0/1"] = table["0/1"]
  BY MainFrame, MainTable
<1>2. SavedHop'  BY <1>1 DEF SavedHop
<1>3. CASE Connect
  <2>1. /\ pc = "connect" /\ pc' = "dial" /\ was' = [table |-> table, resolv |-> resolv]
        /\ table' = table
    BY <1>3 DEF Connect, netVars
  <2>2. \A d \in Dests : PPP \notin table[d]
    BY <2>1, Names DEF Link, InRunLoop
  <2>3. was'.table["default"] = table'["default"]  BY <2>1
  <2> QED
    BY <1>2, <2>1, <2>2, <2>3, Names DEF Clean, Untouched, Held, GatewayPinned, InRunLoop
<1>4. CASE Activate
  <2>1. /\ pc = "activate" /\ pc' = "relay"
        /\ apc' = [apc EXCEPT ![Monitor] = "select", ![attempt] = "read"]
        /\ UNCHANGED <<table, was, attempt, once>>
    BY <1>4 DEF Activate, Goto, netVars, hist
  <2>2. \A d \in Dests : PPP \notin table[d]  BY <2>1 DEF Link, InRunLoop
  <2>3. Monitor \in Agents /\ attempt \in Agents /\ attempt # Monitor
    BY TunnelAssumption DEF Agents, Monitor, Pollers, Attempts, TypeOK
  <2>4. \A h \in Agents : Own(h) => apc'[h] \in {"select", "read"}
    BY <2>1, <2>3 DEF Own, AttemptOf, Agents, Pollers, TypeOK
  <2>5. \A h \in Agents : Own(h)' <=> Own(h)  BY <2>1 DEF Own, AttemptOf
  <2>6. Held'  BY <2>4, <2>5 DEF Held
  <2>7. Untouched'  BY <1>1, <2>1 DEF Untouched, Early, InRunLoop
  <2>8. GatewayPinned'  BY <2>1, <2>2, Names DEF GatewayPinned
  <2> QED  BY <1>1, <1>2, <2>1, <2>6, <2>7, <2>8 DEF Clean
<1>5. CASE ~Early' /\ was' = was
  BY <1>1, <1>2, <1>5 DEF Clean, Untouched, Held, GatewayPinned, Early, InRunLoop
<1>6. CASE Early /\ InRunLoop' = InRunLoop /\ UNCHANGED <<table, was, apc, once, attempt, failed>>
  <2>1. \A h \in Agents : Own(h)' <=> Own(h)  BY <1>6 DEF Own, AttemptOf
  <2>2. Before' => Before  BY <1>6, <2>1 DEF Before
  <2>3. Held'  BY <1>1, <1>6, <2>1 DEF Held, Anchored, Failed
  <2>4. Untouched'  BY <1>1, <1>6, <2>2 DEF Untouched
  <2>5. GatewayPinned'  BY <1>1, <1>6 DEF GatewayPinned, Failed
  <2> QED  BY <1>1, <1>2, <1>6, <2>3, <2>4, <2>5 DEF Clean
<1> QED  BY <1>3, <1>4, <1>5, <1>6, MainFrame

LEMMA WorldRoutes ==
  ASSUME RouteInv, Cancel \/ AckSeen \/ IfaceUp \/ PPPDExit \/ Roam \/ UNCHANGED vars
  PROVE  Clean' /\ Untouched' /\ Held' /\ GatewayPinned' /\ SavedHop'
<1> USE DEF RouteInv, SetupInv
<1>1. UNCHANGED <<pc, attempt, apc, once, def, was, stray, savedDefault, failed>>
  BY WorldFrame
<1>2. \A h \in Agents : Own(h)' <=> Own(h)  BY <1>1 DEF Own, AttemptOf
<1>3. Before' <=> Before  BY <1>1, <1>2 DEF Before
<1>4. SavedHop'  BY <1>1 DEF SavedHop
<1>5. CASE table' = table
  <2>1. Clean' /\ Untouched'
    BY <1>1, <1>3, <1>5 DEF Clean, Untouched, Early, InRunLoop
  <2>2. Held'  BY <1>1, <1>2, <1>5 DEF Held, Anchored, Failed, InRunLoop
  <2>3. GatewayPinned'  BY <1>1, <1>5 DEF GatewayPinned, Failed, InRunLoop
  <2> QED  BY <1>4, <2>1, <2>2, <2>3
<1>6. CASE table' = FlushPPP(table)
  <2>1. \A e \in Dests : table'[e] = table[e] \ {PPP}  BY <1>6, Flushed
  <2>2. Clean'  BY <1>1, <2>1, Names DEF Clean
  <2>3. Untouched'
    <3>1. Untouched => (~stray /\ Early /\ (Before \/ ~InRunLoop) =>
            table'["default"] = was.table["default"] /\ \A e \in Halves : PPP \notin table'[e])
      BY <2>1, Names DEF Untouched, Clean
    <3>2. (Early' <=> Early) /\ (InRunLoop' <=> InRunLoop)  BY <1>1 DEF Early, InRunLoop
    <3> QED  BY <1>1, <1>3, <3>1, <3>2 DEF Untouched
  <2>4. Anchored => Anchored'
    BY <1>1, <2>1, Names DEF Anchored, Clean
  <2>5. Held'  BY <1>1, <1>2, <2>4 DEF Held, Failed, InRunLoop
  <2>6. GatewayPinned'  BY <2>1, Names DEF GatewayPinned
  <2> QED  BY <1>4, <2>2, <2>3, <2>5, <2>6
<1>7. CASE Roam
  <2>1. ~InRunLoop' /\ ~Early' /\ table'["0/1"] = table["0/1"]
    BY <1>1, <1>7, WorldFrame, Names DEF PPPDExit, Roam, InRunLoop, Early
  <2> QED
    BY <1>1, <1>4, <2>1 DEF Clean, Untouched, Held, GatewayPinned
<1> QED  BY <1>5, <1>6, <1>7, WorldFrame

LEMMA NextRoutes == RouteInv /\ [Next]_vars => RouteInv'
<1> SUFFICES ASSUME RouteInv, [Next]_vars PROVE RouteInv'  OBVIOUS
<1>1. SetupInv'  BY NextSetup DEF RouteInv
<1>2. CASE MainStep \/ AwaitGateway \/ RelayError
  BY <1>1, <1>2, MainRoutes, LinkMain DEF RouteInv, SetupInv
<1>3. CASE \E g \in Agents : AgentStep(g)
  BY <1>1, <1>3, AgentRoutes, LinkAgent DEF RouteInv, SetupInv
<1>4. CASE Cancel \/ AckSeen \/ IfaceUp \/ PPPDExit \/ Roam \/ UNCHANGED vars
  BY <1>1, <1>4, WorldRoutes, LinkWorld DEF RouteInv, SetupInv
<1> QED  BY <1>2, <1>3, <1>4 DEF Next, Exited

LEMMA InitRoutes == Init => RouteInv
<1> SUFFICES ASSUME Init PROVE RouteInv  OBVIOUS
<1>1. SetupInv  BY InitSetup
<1>2. /\ iface = None /\ pppd = "none" /\ pc = "connect" /\ savedDefault = None
      /\ was.table = table
  BY DEF Init
<1>3. /\ \A d \in Dests : PPP \notin table[d]
      /\ table["0/1"] = {}
  <2>1. PICK us \in HostDefaults :
          table = [d \in Dests |-> IF d = "default" THEN us ELSE {}]
    BY DEF Init
  <2>2. PPP \notin us  BY TunnelAssumption
  <2> QED  BY <2>1, <2>2, Names
<1> QED
  BY <1>1, <1>2, <1>3, Names
  DEF RouteInv, Link, Clean, Untouched, Held, GatewayPinned, SavedHop, Early, InRunLoop

LEMMA RoutesKept == Spec => []RouteInv
<1> QED  BY InitRoutes, NextRoutes, PTL DEF Spec

\* While traffic goes through the tunnel the gateway itself is reached through the saved
\* uplink, one of the host's own, with any number of attempts, gateways, uplinks and
\* failing calls - but for an attempt in which reading the default route or adding the
\* host route has failed.
THEOREM Pinned == Spec => []GatewayPinned
<1>1. RouteInv => GatewayPinned  BY DEF RouteInv
<1> QED  BY <1>1, RoutesKept, PTL

-----------------------------------------------------------------------------
(* What is kept for the restoration.  A block of VPN name servers under    *)
(* lines of the host's own means that a setup of this attempt stored those *)
(* lines and is past its last write.  (Unless a call of dns.Remove has     *)
(* failed: then an old block stays.)                                       *)

Kept == ~stray /\ ~DNSLost => backup.vpn = 0 \/ ~backup.orig

Block == ~stray /\ ~DNSLost /\ ~cfg.UseResolvconf /\ resolv.orig /\ resolv.vpn # 0
BlockIsOurs ==
  Block =>
    /\ cfg.SetDNS /\ backup.orig /\ backup.vpn = 0
    /\ pc \in {"relay", "join", "restoreDNS"}
    /\ once[attempt] # "new"
    /\ \A g \in Agents : Own(g) /\ apc[g] \in BodyPC => apc[g] = "up"

BackupInv == SetupInv /\ Kept /\ BlockIsOurs

\* Only the teardown's calls fail in the main goroutine, and no failure is forgotten.
LEMMA MainFailed ==
  ASSUME MainStep \/ AwaitGateway \/ RelayError
  PROVE  failed \subseteq failed'
<1>1. CASE RestoreDNS  BY <1>1 DEF RestoreDNS, RemoveDNS, Succeeds, Fails
<1>2. CASE UnpinGateway  BY <1>2 DEF UnpinGateway, DeleteRoute, Succeeds, Fails
<1>3. CASE ClearDefault  BY <1>3 DEF ClearDefault, DeleteRoute, Succeeds, Fails
<1>4. CASE RestoreDefault  BY <1>4 DEF RestoreDefault, AddRoute, Succeeds, Fails
<1>5. CASE ~(RestoreDNS \/ UnpinGateway \/ ClearDefault \/ RestoreDefault)
  BY <1>5 DEF MainStep, AwaitGateway, Connect, Dial, Authenticate, RequestVPNAllocation,
         Redial, FetchConfig, StartPPPD, Activate, Fail, StopRelay, RelayError, LeaveRelay,
         Join, Down, CloseProcess, Return, Reconnect, GiveUp, hist
<1> QED  BY <1>1, <1>2, <1>3, <1>4, <1>5

LEMMA StaysLost == ASSUME failed \subseteq failed', DNSLost PROVE DNSLost'
BY DEF DNSLost

LEMMA MainBackup ==
  ASSUME BackupInv, MainStep \/ AwaitGateway \/ RelayError PROVE Kept' /\ BlockIsOurs'
<1> USE DEF BackupInv, SetupInv
<1>1. UNCHANGED <<cfg, stray, backup>>
  BY DEF MainStep, AwaitGateway, Connect, Dial, Authenticate, RequestVPNAllocation, Redial,
         FetchConfig, StartPPPD, Activate, Fail, StopRelay, RelayError, LeaveRelay, Join,
         RestoreDNS, UnpinGateway, ClearDefault, RestoreDefault, Down, CloseProcess, Return,
         Reconnect, GiveUp, Goto, procVars, tunVars, hist
<1>2. (DNSLost => DNSLost') /\ Kept'
  <2>1. DNSLost => DNSLost'  BY MainFailed, StaysLost
  <2> QED  BY <1>1, <2>1 DEF Kept
<1>3. CASE RestoreDNS
  <2>1. /\ pc' = "unpin" /\ UNCHANGED <<once, attempt, apc>>
        /\ cfg.UseResolvconf \/ DNSLost' \/ resolv' \in {resolv, backup}
        /\ cfg.SetDNS /\ ~cfg.UseResolvconf /\ backup # NoContent
             => resolv' = backup \/ DNSLost'
    <3>1. attempt \in Attempts  BY DEF TypeOK
    <3>2. Fails("restoreDNS", FALSE) => <<attempt, "restoreDNS">> \in failed'
      BY DEF Fails
    <3>3. Fails("restoreDNS", FALSE) => DNSLost'  BY <3>1, <3>2 DEF DNSLost
    <3> QED  BY <1>3, <3>3 DEF RestoreDNS, RemoveDNS, Goto, agentVars
  <2>2. ~Block'
    <3>1. ASSUME Block' PROVE FALSE
      <4>1. ~stray /\ ~cfg.UseResolvconf /\ ~DNSLost'  BY <1>1, <3>1 DEF Block
      <4>2. resolv' # backup  BY <1>1, <1>2, <3>1, <4>1 DEF Block, Kept
      <4>3. resolv' = resolv  BY <2>1, <4>1, <4>2
      <4>4. Block  BY <1>2, <3>1, <4>1, <4>3 DEF Block
      <4>5. cfg.SetDNS /\ backup.orig  BY <4>4 DEF BlockIsOurs
      <4>6. backup # NoContent  BY <4>5 DEF NoContent
      <4> QED  BY <2>1, <4>1, <4>2, <4>5, <4>6
    <3> QED  BY <3>1
  <2> QED  BY <1>2, <2>2 DEF BlockIsOurs
<1>4. CASE ~RestoreDNS /\ UNCHANGED <<resolv, apc, once, attempt>>
  <2>1. Block' => Block  BY <1>1, <1>2, <1>4 DEF Block
  <2>2. pc \in {"relay", "join"} => pc' \in {"relay", "join", "restoreDNS"}
    BY <1>4 DEF MainStep, AwaitGateway, Connect, Dial, Authenticate, RequestVPNAllocation,
         Redial, FetchConfig, StartPPPD, Activate, Fail, StopRelay, RelayError, LeaveRelay,
         Join, UnpinGateway, ClearDefault, RestoreDefault, Down, CloseProcess, Return,
         Reconnect, GiveUp, Goto, procVars
  <2>3. pc # "restoreDNS"
    BY <1>4 DEF MainStep, AwaitGateway, Connect, Dial, Authenticate, RequestVPNAllocation,
         Redial, FetchConfig, StartPPPD, Activate, Fail, StopRelay, RelayError,
         Join, UnpinGateway, ClearDefault, RestoreDefault, Down, CloseProcess, Return,
         Reconnect, GiveUp
  <2>4. \A h \in Agents : Own(h)' <=> Own(h)  BY <1>4 DEF Own, AttemptOf
  <2> QED  BY <1>1, <1>2, <1>4, <2>1, <2>2, <2>3, <2>4 DEF BlockIsOurs
<1>5. CASE Activate \/ Reconnect
  <2>1. resolv' = resolv /\ pc \in {"activate", "backoff"}
    BY <1>5 DEF Activate, Reconnect, netVars
  <2>2. ~Block'  BY <1>1, <1>2, <2>1 DEF Block, BlockIsOurs
  <2> QED  BY <1>2, <2>2 DEF BlockIsOurs
<1>6. CASE Join
  <2>1. /\ UNCHANGED <<resolv, once, attempt>> /\ pc = "join" /\ pc' = "restoreDNS"
        /\ \A h \in Agents : apc'[h] \in BodyPC => apc'[h] = apc[h]
    BY <1>6 DEF Join, netVars, TypeOK, BodyPC
  <2>2. \A h \in Agents : Own(h)' <=> Own(h)  BY <2>1 DEF Own, AttemptOf
  <2>3. Block' => Block  BY <1>1, <1>2, <2>1 DEF Block
  <2> QED  BY <1>1, <1>2, <2>1, <2>2, <2>3 DEF BlockIsOurs
<1>7. RestoreDNS \/ Activate \/ Reconnect \/ Join
        \/ (~RestoreDNS /\ UNCHANGED <<resolv, apc, once, attempt>>)
  BY DEF MainStep, AwaitGateway, Connect, Dial, Authenticate, RequestVPNAllocation, Redial,
         FetchConfig, StartPPPD, Fail, StopRelay, RelayError, LeaveRelay,
         UnpinGateway, ClearDefault, RestoreDefault, Down, CloseProcess, Return,
         GiveUp, Goto, procVars, agentVars, netVars
<1> QED  BY <1>3, <1>4, <1>5, <1>6, <1>7

LEMMA QuietBackup ==
  ASSUME BackupInv, NEW g \in Agents, Quiet(g) PROVE Kept' /\ BlockIsOurs'
<1> USE DEF BackupInv, SetupInv
<1>1. UNCHANGED <<cfg, pc, attempt, resolv, backup, stray, failed>>
  BY Quietness
<1>2. (Block' <=> Block) /\ (DNSLost' <=> DNSLost)  BY <1>1 DEF Block, DNSLost
<1>3. \A h \in Agents : Own(h)' <=> Own(h)  BY <1>1 DEF Own, AttemptOf
<1>4. ASSUME Block PROVE /\ once'[attempt] # "new"
                         /\ \A h \in Agents : Own(h) /\ apc'[h] \in BodyPC => apc'[h] = "up"
  <2>1. /\ once[attempt] # "new"
        /\ \A h \in Agents : Own(h) /\ apc[h] \in BodyPC => apc[h] = "up"
    BY <1>4 DEF BlockIsOurs
  <2>2. AttemptOf(g) \in Attempts /\ attempt \in Attempts  BY AgentAttempt DEF TypeOK
  <2>3. once'[attempt] # "new"  BY <2>1, <2>2, Quietness DEF TypeOK
  <2>4. Own(g) => apc'[g] \notin BodyPC
    BY <2>1, Quietness DEF Own, BodyPC
  <2>5. \A h \in Agents : h # g => apc'[h] = apc[h]  BY Quietness
  <2> QED  BY <2>1, <2>3, <2>4, <2>5
<1> QED  BY <1>1, <1>2, <1>3, <1>4 DEF Kept, BlockIsOurs

LEMMA OwnBackup ==
  ASSUME BackupInv, NEW g \in Agents, Setup(g), ~stray' PROVE Kept' /\ BlockIsOurs'
<1> USE DEF BackupInv, SetupInv
<1>1. /\ UNCHANGED <<cfg, pc, attempt>>
      /\ ~stray /\ InRunLoop /\ Own(g) /\ apc[g] \in BodyPC
      /\ \A h \in Agents : h # g => apc'[h] = apc[h]
  BY SetupFrame
<1>2. \A h \in Agents : Own(h)' <=> Own(h)  BY <1>1 DEF Own, AttemptOf
<1>3. \A h \in Agents : h # g /\ Own(h) => apc'[h] \notin BodyPC
  BY <1>1, Alone
<1>4. once[attempt] = "running"  BY <1>1 DEF Claims, Own
<1>5. Block => apc[g] = "up"  BY <1>1 DEF BlockIsOurs
<1>a. (DNSLost => DNSLost') /\ ~stray'
  BY SetupTable, StaysLost
<1>6. CASE GetDefault(g) \/ PinGateway(g) \/ SetupRoutes(g) \/ SwapDefault(g)
  <2>1. UNCHANGED <<resolv, backup, once>> /\ apc[g] # "up"
    BY <1>6 DEF GetDefault, PinGateway, SetupRoutes, SwapDefault, tunVars, netVars
  <2>2. ~Block'  BY <1>1, <1>5, <1>a, <2>1 DEF Block
  <2> QED  BY <1>1, <1>a, <2>1, <2>2 DEF Kept, BlockIsOurs
<1>7. CASE SetupDNS(g)
  <2>1. /\ apc[g] = "dns" /\ once' = once
        /\ apc' = [apc EXCEPT ![g] = "up"]
        /\ \/ UNCHANGED <<resolv, backup>>
           \/ cfg.SetDNS /\ cfg.UseResolvconf /\ backup' = backup
           \/ /\ cfg.SetDNS /\ ~cfg.UseResolvconf /\ backup' = resolv
              /\ resolv' \in {resolv, NoContent, [resolv EXCEPT !.vpn = resolv.vpn + 1]}
    BY <1>7 DEF SetupDNS, AddDNS, Unwritten, Move
  <2>2. ~Block /\ apc'[g] = "up"  BY <1>5, <2>1 DEF TypeOK
  <2>3. CASE UNCHANGED <<resolv, backup>>
    BY <1>1, <1>a, <2>2, <2>3 DEF Kept, Block, BlockIsOurs
  <2>4. CASE cfg.UseResolvconf /\ backup' = backup
    BY <1>1, <1>a, <2>4 DEF Kept, Block, BlockIsOurs
  <2>5. CASE /\ cfg.SetDNS /\ ~cfg.UseResolvconf /\ backup' = resolv
             /\ resolv' \in {resolv, NoContent, [resolv EXCEPT !.vpn = resolv.vpn + 1]}
    <3>1. ~DNSLost => resolv.vpn = 0 \/ ~resolv.orig  BY <1>1, <2>2, <2>5 DEF Block
    <3>2. resolv'.orig => resolv.orig  BY <2>5 DEF TypeOK, ContentType, NoContent
    <3>3. Kept'  BY <1>1, <1>a, <2>5, <3>1 DEF Kept
    <3>4. \A h \in Agents : Own(h) /\ apc'[h] \in BodyPC => apc'[h] = "up"
      BY <1>3, <2>2
    <3>5. ASSUME Block' PROVE backup'.orig /\ backup'.vpn = 0
      BY <1>a, <2>5, <3>1, <3>2, <3>5 DEF Block
    <3> QED
      BY <1>1, <1>2, <1>4, <2>1, <2>5, <3>3, <3>4, <3>5 DEF BlockIsOurs, InRunLoop
  <2> QED  BY <2>1, <2>3, <2>4, <2>5
<1>8. CASE SetUp(g)
  <2>1. /\ UNCHANGED <<resolv, backup>> /\ apc' = [apc EXCEPT ![g] = "exit"]
        /\ once' = [once EXCEPT ![AttemptOf(g)] = "done"]
    BY <1>8 DEF SetUp, LeaveOnce, Exit, Move, tunVars, netVars
  <2>2. apc'[g] = "exit" /\ once'[attempt] = "done"
    BY <1>1, <2>1 DEF TypeOK, Own
  <2>3. \A h \in Agents : Own(h) => apc'[h] \notin BodyPC
    BY <1>3, <2>2 DEF BodyPC
  <2>4. Block' => Block  BY <1>1, <1>a, <2>1 DEF Block
  <2> QED
    BY <1>1, <1>2, <1>a, <2>1, <2>2, <2>3, <2>4 DEF Kept, BlockIsOurs
<1> QED  BY <1>6, <1>7, <1>8 DEF Setup

LEMMA NextBackup == BackupInv /\ [Next]_vars => BackupInv'
<1> SUFFICES ASSUME BackupInv, [Next]_vars PROVE BackupInv'  OBVIOUS
<1>1. SetupInv'  BY NextSetup DEF BackupInv
<1>2. CASE MainStep \/ AwaitGateway \/ RelayError
  BY <1>1, <1>2, MainBackup DEF BackupInv
<1>3. ASSUME NEW g \in Agents, AgentStep(g) PROVE Kept' /\ BlockIsOurs'
  <2>1. CASE Quiet(g)  BY <2>1, QuietBackup
  <2>2. CASE Setup(g) /\ ~stray'  BY <2>2, OwnBackup
  <2>3. CASE stray'  BY <2>3 DEF Kept, BlockIsOurs, Block
  <2> QED  BY <1>3, <2>1, <2>2, <2>3, StepKinds
<1>4. CASE Cancel \/ AckSeen \/ IfaceUp \/ PPPDExit \/ Roam \/ UNCHANGED vars
  <2>1. UNCHANGED <<cfg, pc, attempt, apc, once, stray, resolv, backup, failed>>
    BY <1>4 DEF Cancel, AckSeen, IfaceUp, PPPDExit, Roam, vars, procVars, tunVars,
                agentVars, netVars, hist
  <2>2. \A h \in Agents : Own(h)' <=> Own(h)  BY <2>1 DEF Own, AttemptOf
  <2>3. DNSLost' <=> DNSLost  BY <2>1 DEF DNSLost
  <2> QED  BY <1>1, <2>1, <2>2, <2>3 DEF BackupInv, Kept, BlockIsOurs, Block
<1> QED  BY <1>1, <1>2, <1>3, <1>4 DEF Next, Exited, BackupInv

LEMMA InitBackup == Init => BackupInv
<1> SUFFICES ASSUME Init PROVE BackupInv  OBVIOUS
<1>1. backup.vpn = 0 /\ resolv.vpn = 0  BY DEF Init, NoContent
<1> QED  BY <1>1, InitSetup DEF BackupInv, Kept, BlockIsOurs, Block

LEMMA BackupsKept == Spec => []BackupInv
<1> QED  BY InitBackup, NextBackup, PTL DEF Spec

\* What the tunnel keeps for the restoration was never its own: neither the default
\* route nor the name servers, whatever the number of attempts.
THEOREM Originals == Spec => []SavesOnlyOriginals
<1>1. RouteInv /\ BackupInv => SavesOnlyOriginals
  BY DEF RouteInv, BackupInv, SavedHop, Kept, SavesOnlyOriginals
<1> QED  BY <1>1, RoutesKept, BackupsKept, PTL
=============================================================================
