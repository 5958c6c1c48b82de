---------------------------- MODULE ClientProofs ----------------------------
(***************************************************************************)
(* What the runs of the program guarantee for any host, any number of      *)
(* runs, attempts, crashes and mishaps, any file and any command line:     *)
(* types; no signal to a process that is not ours; no pppd beside one that *)
(* is unaccounted for; the settings in force; what they guard.             *)
(***************************************************************************)
EXTENDS Client, Induction, SequenceTheorems

-----------------------------------------------------------------------------
(* The invariant of the pppd routines.                                     *)

PppdType ==
  /\ os \in [Pids -> {"free", "pppd", "other"}]
  /\ stuck \cup killed \cup escaped \subseteq {p \in Pids : Live(p)}
  /\ pidfile \in Pids \cup {None, Empty}
  /\ step \in Steps /\ target \in Pids \cup {None} /\ child \in Pids \cup {None}
  /\ gone \subseteq Pids \cap (deferred \cup {child}) /\ deferred \subseteq Pids
  /\ astray \in BOOLEAN

Accounted(p) == Live(p) => p \in killed \cup escaped

\* The child is there where its routines are, and runs unless Wait has reaped it.
ChildKnown ==
  /\ child # None <=> step \in {"record", "up", "term", "kill", "closed"}
  /\ child # None /\ child \notin gone => Live(child)
  /\ child \in gone => ~Live(child)

\* Behind isOurPPPD the target is one of ours until it exits; the file names it, or nothing.
TargetKnown ==
  /\ target # None <=> step \in {"look", "poll"}
  /\ target # None => pidfile \in {target, None}
  /\ step = "poll" => os[target] # "other"

\* A pppd nothing is known of is named by the file, or is the child about to be; from the
\* launch to the end of Close there is none but the child.
AllAccounted ==
  /\ \A p \in Pids : step # "record" \/ p # child => p = pidfile \/ Accounted(p)
  /\ step \in {"launch", "failed", "closed"} => \A p \in Pids : Accounted(p)
  /\ step \in {"record", "up", "term", "kill"} => \A p \in Pids \ {child} : Accounted(p)
  /\ step = "kill" => Accounted(child)

PppdInv == PppdType /\ ChildKnown /\ TargetKnown /\ AllAccounted /\ OnlyOurs

LEMMA InitPppd == PppdInit => PppdInv
BY PppdAssumption
   DEF PppdInit, PppdInv, PppdType, ChildKnown, TargetKnown, AllAccounted, Accounted,
       OnlyOurs, Live, Steps

\* The routines of cleanupOrphan keep the invariant.
LEMMA CleanupKeeps ==
  ASSUME PppdInv, ReadPidFile \/ LookAtTarget \/ PollTarget
  PROVE  PppdInv'
<1> USE PppdAssumption DEF PppdInv, PppdType, Steps
<1>1. CASE ReadPidFile
  <2>1. PppdType' /\ OnlyOurs'
    BY <1>1 DEF ReadPidFile, Running, Mishap, LoseNamed, Live, OnlyOurs
  <2>2. ChildKnown' /\ TargetKnown'
    BY <1>1 DEF ReadPidFile, Running, Mishap, LoseNamed, Live, ChildKnown, TargetKnown
  <2>3. AllAccounted'
    BY <1>1 DEF ReadPidFile, Running, Mishap, LoseNamed, Live, ChildKnown, AllAccounted,
                Accounted
  <2> QED  BY <2>1, <2>2, <2>3
<1>2. CASE LookAtTarget
  <2>1. PppdType' /\ OnlyOurs'
    BY <1>2 DEF LookAtTarget, Signal, Mishap, Live, OnlyOurs, TargetKnown
  <2>2. ChildKnown' /\ TargetKnown'
    BY <1>2 DEF LookAtTarget, Signal, Mishap, Live, ChildKnown, TargetKnown
  <2>3. AllAccounted'
    BY <1>2 DEF LookAtTarget, Signal, Mishap, Live, ChildKnown, TargetKnown, AllAccounted,
                Accounted
  <2> QED  BY <2>1, <2>2, <2>3
<1>3. CASE PollTarget
  <2>1. PppdType' /\ OnlyOurs'
    BY <1>3 DEF PollTarget, Running, Signal, Live, OnlyOurs, TargetKnown
  <2>2. ChildKnown' /\ TargetKnown'
    BY <1>3 DEF PollTarget, Running, Signal, Live, ChildKnown, TargetKnown
  <2>3. AllAccounted'
    BY <1>3 DEF PollTarget, Running, Signal, Live, ChildKnown, TargetKnown, AllAccounted,
                Accounted
  <2> QED  BY <2>1, <2>2, <2>3
<1> QED  BY <1>1, <1>2, <1>3

\* So do those of Start.
LEMMA StartKeeps ==
  ASSUME PppdInv, BeginStart \/ Launch \/ RecordPid \/ StartFails
  PROVE  PppdInv'
<1> USE PppdAssumption DEF PppdInv, PppdType, Steps
<1>1. CASE BeginStart \/ StartFails
  BY <1>1 DEF BeginStart, StartFails, hostVars, ghostVars, Live, ChildKnown, TargetKnown,
              AllAccounted, Accounted, OnlyOurs
<1>2. CASE Launch
  <2>1. PppdType' /\ OnlyOurs'
    BY <1>2 DEF Launch, FreePids, Running, Mishap, Live, OnlyOurs, ChildKnown
  <2>2. ChildKnown'
    BY <1>2 DEF Launch, FreePids, Running, Mishap, Live, ChildKnown
  <2>3. TargetKnown'
    BY <1>2 DEF Launch, FreePids, Running, Mishap, Live, TargetKnown
  <2>4. AllAccounted'
    BY <1>2 DEF Launch, FreePids, Running, Mishap, Live, ChildKnown, AllAccounted, Accounted
  <2> QED  BY <2>1, <2>2, <2>3, <2>4
<1>3. CASE RecordPid
  <2>1. PppdType' /\ OnlyOurs'
    BY <1>3 DEF RecordPid, Mishap, Live, OnlyOurs, ChildKnown
  <2>2. ChildKnown' /\ TargetKnown'
    BY <1>3 DEF RecordPid, Mishap, Live, ChildKnown, TargetKnown
  <2>3. AllAccounted'
    BY <1>3 DEF RecordPid, Mishap, Live, ChildKnown, AllAccounted, Accounted
  <2> QED  BY <2>1, <2>2, <2>3
<1> QED  BY <1>1, <1>2, <1>3

\* And those of Close, with what it leaves behind.
LEMMA CloseKeeps ==
  ASSUME PppdInv,
         \/ BeginClose \/ KillChild \/ DeferClose \/ FinishClose \/ Forget
         \/ \E p \in Pids : DeferredClose(p)
  PROVE  PppdInv'
<1> USE PppdAssumption DEF PppdInv, PppdType, Steps
<1>1. CASE BeginClose
  BY <1>1 DEF BeginClose, Signal, hostVars, Live, ChildKnown, TargetKnown, AllAccounted,
              Accounted, OnlyOurs
<1>2. CASE KillChild
  <2>1. PppdType' /\ OnlyOurs'
    BY <1>2 DEF KillChild, Signal, Live, OnlyOurs, ChildKnown
  <2>2. ChildKnown' /\ TargetKnown' /\ AllAccounted'
    BY <1>2 DEF KillChild, Signal, Live, ChildKnown, TargetKnown, AllAccounted, Accounted
  <2> QED  BY <2>1, <2>2
<1>3. CASE DeferClose
  BY <1>3 DEF DeferClose, hostVars, ghostVars, Live, ChildKnown, TargetKnown, AllAccounted,
              Accounted, OnlyOurs
<1>4. CASE FinishClose
  BY <1>4 DEF FinishClose, ghostVars, Live, ChildKnown, TargetKnown, AllAccounted,
              Accounted, OnlyOurs
<1>5. CASE Forget
  BY <1>5 DEF Forget, hostVars, ghostVars, Live, ChildKnown, TargetKnown, AllAccounted,
              Accounted, OnlyOurs
<1>6. ASSUME NEW p \in Pids, DeferredClose(p) PROVE PppdInv'
  <2>1. PppdType' /\ OnlyOurs'
    BY <1>6 DEF DeferredClose, LoseNamed, Live, OnlyOurs
  <2>2. ChildKnown' /\ TargetKnown'
    BY <1>6 DEF DeferredClose, LoseNamed, Live, ChildKnown, TargetKnown
  <2>3. AllAccounted'
    BY <1>6 DEF DeferredClose, LoseNamed, Live, ChildKnown, AllAccounted, Accounted
  <2> QED  BY <2>1, <2>2, <2>3
<1> QED  BY <1>1, <1>2, <1>3, <1>4, <1>5, <1>6

\* Nothing the host does breaks it.
LEMMA HostKeeps == ASSUME PppdInv, Host PROVE PppdInv'
<1> USE PppdAssumption DEF PppdInv, PppdType, Steps
<1>1. ASSUME NEW p \in Pids, PppdExits(p) PROVE PppdInv'
  <2>1. PppdType' /\ OnlyOurs'
    BY <1>1 DEF PppdExits, Live, OnlyOurs
  <2>2. ChildKnown' /\ TargetKnown'
    BY <1>1 DEF PppdExits, Live, ChildKnown, TargetKnown
  <2>3. AllAccounted'
    BY <1>1 DEF PppdExits, Live, AllAccounted, Accounted
  <2> QED  BY <2>1, <2>2, <2>3
<1>2. ASSUME NEW p \in Pids, PppdHangs(p) \/ PppdWakes(p) PROVE PppdInv'
  BY <1>2 DEF PppdHangs, PppdWakes, clientVars, ghostVars, Live, ChildKnown, TargetKnown,
              AllAccounted, Accounted, OnlyOurs
<1>3. ASSUME NEW p \in Pids, OtherStarts(p) \/ OtherExits(p) PROVE PppdInv'
  <2>1. \A q \in Pids : Live(q)' <=> Live(q)
    BY <1>3 DEF OtherStarts, OtherExits, Live
  <2>2. \A q \in Pids : q # p => os'[q] = os[q]
    BY <1>3 DEF OtherStarts, OtherExits
  <2>3. UNCHANGED <<stuck, killed, escaped, pidfile, step, target, child, gone, deferred, astray>>
    BY <1>3 DEF OtherStarts, OtherExits, clientVars, ghostVars
  <2>4. PppdType' /\ OnlyOurs'
    BY <1>3, <2>1, <2>3 DEF OtherStarts, OtherExits, OnlyOurs
  <2>5. ChildKnown'
    BY <2>1, <2>3 DEF ChildKnown
  <2>6. step = "poll" => os'[target] # "other"
    BY <1>3, <2>2 DEF OtherStarts, OtherExits, TargetKnown
  <2>7. TargetKnown'
    BY <2>3, <2>6 DEF TargetKnown
  <2>8. AllAccounted'
    <3>1. \A q \in Pids : Accounted(q)' <=> Accounted(q)  BY <2>1, <2>3 DEF Accounted
    <3>2. step = "kill" => child \in Pids  BY DEF ChildKnown
    <3> QED  BY <2>3, <3>1, <3>2 DEF AllAccounted
  <2> QED  BY <2>4, <2>5, <2>7, <2>8
<1> QED  BY <1>1, <1>2, <1>3 DEF Host

\* Nor does the end of the client at any moment.
LEMMA GoneKeeps == ASSUME PppdInv, ClientGone PROVE PppdInv'
<1> USE PppdAssumption DEF PppdInv, PppdType, Steps
<1>1. PppdType' /\ OnlyOurs'
  BY DEF ClientGone, Live, OnlyOurs
<1>2. ChildKnown' /\ TargetKnown'
  BY DEF ClientGone, Live, ChildKnown, TargetKnown
<1>3. AllAccounted'
  BY DEF ClientGone, Live, ChildKnown, AllAccounted, Accounted
<1> QED  BY <1>1, <1>2, <1>3

\* A step of nobody here.
LEMMA RestKeeps == ASSUME PppdInv, UNCHANGED pppdVars PROVE PppdInv'
BY DEF PppdInv, PppdType, Steps, pppdVars, hostVars, clientVars, ghostVars, Live, ChildKnown,
       TargetKnown, AllAccounted, Accounted, OnlyOurs

-----------------------------------------------------------------------------
(* The steps of the program.                                               *)

LEMMA NextKeepsPppd == ASSUME PppdInv, [Next]_vars PROVE PppdInv'
<1>1. CASE UNCHANGED vars
  BY <1>1, RestKeeps DEF vars
<1>2. CASE Configure \/ Cancel \/ Connect(LoginStep) \/ Activate \/ Reconnect
  BY <1>2, RestKeeps, Zenon DEF Configure, Cancel, Connect, Activate, Reconnect
<1>3. CASE StartPppd \/ NoPppd
  BY <1>3, StartKeeps DEF StartPppd, NoPppd
<1>4. CASE ActivateFails \/ Aborted \/ EndSession \/ Drained
  BY <1>4, CloseKeeps DEF ActivateFails, Aborted, EndSession, Drained
<1>5. CASE Exit \/ Crash
  BY <1>5, GoneKeeps DEF Exit, Crash
<1>6. CASE Background
  <2>1. CASE Host  BY <2>1, HostKeeps
  <2>2. CASE PppdStep
    BY <2>2, CleanupKeeps, StartKeeps, CloseKeeps DEF PppdStep
  <2> QED  BY <1>6, <2>1, <2>2 DEF Background
<1> QED  BY <1>1, <1>2, <1>3, <1>4, <1>5, <1>6 DEF Next

THEOREM PppdInvariant == Spec => []PppdInv
<1>1. Init => PppdInv  BY InitPppd DEF Init
<1>2. PppdInv /\ [Next]_vars => PppdInv'  BY NextKeepsPppd
<1> QED  BY <1>1, <1>2, PTL DEF Spec

\* No process but our pppds is ever sent a signal: isOurPPPD looks before cleanupOrphan
\* signals, and Close knows what Wait has reaped.  No PID is given away here while
\* cleanupOrphan polls it (OtherStarts), as pppd_unix.go:198 does not look again.
THEOREM SignalsOnlyOurs == Spec => []OnlyOurs
<1>1. PppdInv => OnlyOurs  BY DEF PppdInv
<1> QED  BY <1>1, PppdInvariant, PTL

\* A pppd is started only when every other of ours was sent SIGKILL or had lost its place
\* in the PID file in one of the five ways there are.
THEOREM StartsAlone == Spec => []NoOverlap
<1>1. PppdInv => NoOverlap  BY DEF PppdInv, AllAccounted, Accounted, NoOverlap
<1> QED  BY <1>1, PppdInvariant, PTL

-----------------------------------------------------------------------------
(* Types.                                                                  *)

LoginType ==
  /\ at \in States /\ DOMAIN cfg = Keys
  /\ cancelled \in BOOLEAN /\ attempt \in 1..MaxAttempts /\ proxied \in BOOLEAN
  /\ conn \in Certs \cup {NoConn}
  /\ jar \in Given..MaxAttempts /\ cookie \in Given..MaxAttempts
  /\ saml \in {"none", "listening", "closing"}

\* Where the routines of pppd may be.
Placed ==
  /\ at = "starting" => step \in {"clean", "look", "poll", "launch", "failed", "record", "up"}
  /\ at \in {"abort", "drain"} => step \in {"term", "kill", "closed"}
  /\ at = "session" => step = "up"
  /\ at \notin {"starting", "session", "abort", "drain"} => step = "idle"

\* Where connect is before it starts pppd, and behind its end.
LoginPlaces == States \ {"starting", "session", "abort", "drain", "off"}

LEMMA DefaultKeys == DOMAIN Defaults = Keys
BY Zenon DEF Defaults

LEMMA CookieType ==
  /\ NoCookie \in Given..MaxAttempts /\ Given \in Given..MaxAttempts
  /\ 1 \in 1..MaxAttempts
BY LoginAssumption DEF NoCookie, Given

LEMMA JarType ==
  ASSUME LoginType, NEW r \in Replies
  PROVE  JarAfter(r) \in Given..MaxAttempts
BY LoginAssumption DEF LoginType, JarAfter, Given

\* The steps of a login keep the types and its places.
LEMMA LoginKeeps ==
  ASSUME LoginType, LoginStep
  PROVE  LoginType' /\ (at' = at \/ {at, at'} \subseteq LoginPlaces)
<1> USE CookieType DEF LoginType, LoginPlaces, States, fixed, Fail, GoOn
<1>1. CASE Resolve \/ DialRaw \/ ProxyAnswers
  BY <1>1 DEF Resolve, DialRaw, ProxyAnswers
<1>2. CASE Handshake
  BY <1>2 DEF Handshake
<1>3. CASE ChooseAuth \/ Prompt \/ PushDelay
  <2>1. CASE ChooseAuth  BY <1>3, <2>1 DEF ChooseAuth
  <2>2. CASE Prompt      BY <1>3, <2>2 DEF Prompt
  <2>3. CASE PushDelay   BY <1>3, <2>3 DEF PushDelay
  <2> QED  BY <1>3, <2>1, <2>2, <2>3
<1>4. CASE PostPassword
  <2>1. CASE Fail /\ UNCHANGED jar
    BY <1>4, <2>1 DEF PostPassword
  <2>2. ASSUME NEW r \in Replies, jar' = JarAfter(r), Fail \/ Challenge(r) \/ Accepted(r)
        PROVE  LoginType' /\ (at' = at \/ {at, at'} \subseteq LoginPlaces)
    <3>1. at = "login" /\ UNCHANGED <<cfg, cancelled, attempt, proxied, saml>>
      BY <1>4 DEF PostPassword
    <3>2. jar' \in Given..MaxAttempts  BY <2>2, JarType
    <3>3. CASE Fail          BY <3>1, <3>2, <3>3
    <3>4. CASE Challenge(r)  BY <3>1, <3>2, <3>4 DEF Challenge, Otp
    <3>5. CASE Accepted(r)   BY <2>2, <3>1, <3>2, <3>5 DEF Accepted
    <3> QED  BY <2>2, <3>3, <3>4, <3>5
  <2> QED  BY <1>4, <2>1, <2>2 DEF PostPassword
<1>5. CASE PostPush \/ PostOtp
  <2>1. CASE Fail /\ UNCHANGED jar
    BY <1>5, <2>1 DEF PostPush, PostOtp
  <2>2. ASSUME NEW r \in Replies, jar' = JarAfter(r), Fail \/ GoOn(Otp) \/ Accepted(r)
        PROVE  LoginType' /\ (at' = at \/ {at, at'} \subseteq LoginPlaces)
    <3>1. at \in {"push", "otp"} /\ UNCHANGED <<cfg, cancelled, attempt, proxied, saml>>
      BY <1>5 DEF PostPush, PostOtp
    <3>2. jar' \in Given..MaxAttempts  BY <2>2, JarType
    <3>3. CASE Fail         BY <3>1, <3>2, <3>3
    <3>4. CASE GoOn(Otp)    BY <3>1, <3>2, <3>4 DEF Otp
    <3>5. CASE Accepted(r)  BY <2>2, <3>1, <3>2, <3>5 DEF Accepted
    <3> QED  BY <2>2, <3>3, <3>4, <3>5
  <2> QED  BY <1>5, <2>1, <2>2 DEF PostPush, PostOtp
<1>6. CASE GetRedir \/ GetAuthId
  BY <1>6, JarType DEF GetRedir, GetAuthId
<1>7. CASE SamlCancelled \/ ServerShutdown \/ Callback
  BY <1>7 DEF SamlCancelled, ServerShutdown, Callback
<1>8. CASE GetIndex \/ Allocate \/ FetchConfig
  BY <1>8, JarType DEF GetIndex, Allocate, FetchConfig
<1> QED
  BY <1>1, <1>2, <1>3, <1>4, <1>5, <1>6, <1>7, <1>8 DEF LoginStep, LoginProgress

\* Each step of the program keeps the types of the login, and the places.
LEMMA NextKeepsTypes ==
  ASSUME LoginType, Placed, PppdInv, [Next]_vars
  PROVE  LoginType' /\ Placed'
<1>1. CASE UNCHANGED vars
  BY <1>1 DEF vars, loginVars, pppdVars, clientVars, LoginType, Placed
<1>2. CASE Connect(LoginStep)
  <2>1. LoginType' /\ (at' = at \/ {at, at'} \subseteq LoginPlaces)
    BY <1>2, LoginKeeps DEF Connect
  <2>2. UNCHANGED step  BY <1>2 DEF Connect, pppdVars, clientVars
  <2> QED  BY <2>1, <2>2 DEF Placed, LoginPlaces
<1>3. CASE Configure
  <2>1. PICK in \in Inputs, p \in Proxied :
          /\ at' = "resolve" /\ cfg' = Settle(in) /\ proxied' = p
    BY <1>3 DEF Configure
  <2>2. DOMAIN cfg' = Keys  BY <2>1 DEF Settle, ApplyFlags
  <2>3. at = "off" /\ UNCHANGED <<step, cancelled, attempt, conn, jar, cookie, saml>>
    BY <1>3 DEF Configure, pppdVars, clientVars
  <2> QED  BY <2>1, <2>2, <2>3, ClientAssumption DEF LoginType, Placed, States
<1>4. CASE Cancel \/ Activate \/ Reconnect
  <2>1. CASE Cancel
    BY <2>1 DEF Cancel, pppdVars, clientVars, LoginType, Placed
  <2>2. CASE Activate
    BY <2>2 DEF Activate, fixed, pppdVars, clientVars, LoginType, Placed, States
  <2>3. CASE Reconnect
    BY <2>3, LoginAssumption DEF Reconnect, pppdVars, clientVars, LoginType, Placed, States
  <2> QED  BY <1>4, <2>1, <2>2, <2>3
<1>5. CASE StartPppd \/ NoPppd
  BY <1>5, CookieType
     DEF StartPppd, NoPppd, BeginStart, StartFails, Fail, fixed, LoginType, Placed, States
<1>6. CASE ActivateFails \/ Aborted \/ EndSession \/ Drained
  BY <1>6, CookieType
     DEF ActivateFails, Aborted, EndSession, Drained, BeginClose, Forget, Fail, fixed,
         LoginType, Placed, States
<1>7. CASE Exit \/ Crash
  BY <1>7, CookieType, DefaultKeys
     DEF Exit, Crash, Off, ClientGone, LoginType, Placed, States
<1>8. CASE Background
  <2>1. UNCHANGED loginVars  BY <1>8 DEF Background
  <2>2. LoginType'  BY <2>1 DEF loginVars, LoginType
  <2>3. CASE Host
    BY <2>1, <2>2, <2>3
       DEF loginVars, Host, PppdExits, PppdHangs, PppdWakes, OtherStarts, OtherExits,
           clientVars, Placed
  <2>4. CASE ReadPidFile \/ LookAtTarget \/ PollTarget \/ Launch \/ RecordPid
    BY <2>1, <2>2, <2>4
       DEF loginVars, ReadPidFile, LookAtTarget, PollTarget, Launch, RecordPid, Placed
  <2>5. CASE FinishClose \/ KillChild \/ DeferClose
    BY <2>1, <2>2, <2>5 DEF loginVars, FinishClose, KillChild, DeferClose, Placed
  <2>6. CASE \E p \in Pids : DeferredClose(p)
    BY <2>1, <2>2, <2>6 DEF loginVars, DeferredClose, Placed
  <2> QED  BY <1>8, <2>2, <2>3, <2>4, <2>5, <2>6 DEF Background, PppdStep
<1> QED
  BY <1>1, <1>2, <1>3, <1>4, <1>5, <1>6, <1>7, <1>8 DEF Next

\* Every variable has its type, and the routines of pppd run where connect calls them.
THEOREM Types == Spec => []TypeOK
<1>1. Init => LoginType /\ Placed
  BY CookieType, DefaultKeys
     DEF Init, PppdInit, LoginType, Placed, States
<1>2. PppdInv /\ (LoginType /\ Placed) /\ [Next]_vars => (LoginType /\ Placed)'
  BY NextKeepsTypes
<1>3. PppdInv /\ LoginType /\ Placed => TypeOK
  BY DEF PppdInv, PppdType, LoginType, Placed, TypeOK
<1> QED  BY <1>1, <1>2, <1>3, PppdInvariant, PTL DEF Spec

-----------------------------------------------------------------------------
(* The settings, by induction over the lines of the file.                  *)

\* The settings that take their values from a file: its texts, the defaults, and lists.
Values(file) ==
  {Defaults[k] : k \in Keys} \cup {Value(file[i]) : i \in 1..Len(file)} \cup Seq(STRING)
Config(file) ==
  {c \in [Keys -> Values(file)] : \A k \in ListKeys : c[k] \in Seq(STRING)}

\* Of what kind the keys are that the proofs speak of.
LEMMA KeyKinds ==
  /\ ListKeys \subseteq Keys /\ ListKeys \cap (IgnoredKeys \cup BoolKeys \cup NumberKeys) = {}
  /\ BoolKeys \cup NumberKeys \subseteq Keys /\ BoolKeys \cap NumberKeys = {}
  /\ {"host", "port", "set-routes", "set-dns", "insecure-ssl", "cookie"} \subseteq Keys \ ListKeys
  /\ "trusted-cert" \in ListKeys
BY DEF Keys, ListKeys, IgnoredKeys, TextKeys, BoolKeys, NumberKeys, PortKeys, FlagOnlyKeys

\* A line that is not in error, and not ignored, is about a setting.
LEMMA GoodKey ==
  ASSUME NEW line, Good(line), line.key \notin IgnoredKeys
  PROVE  line.key \in Keys
<1>1. CASE line.key \in TextKeys \cup BoolKeys \cup PortKeys
  BY <1>1 DEF Keys, NumberKeys
<1>2. CASE line.key \in {"pppd-extra-arg", "timeout", "otp-delay", "persistent", "min-tls",
                         "trusted-cert"}
  BY <1>2 DEF Keys, NumberKeys, ListKeys
<1> QED  BY <1>1, <1>2 DEF Good

\* The defaults are settings; lists are empty.
LEMMA DefaultConfig ==
  ASSUME NEW file
  PROVE  Defaults \in Config(file) /\ \A k \in ListKeys : Defaults[k] = << >>
<1>1. \A k \in ListKeys : Defaults[k] = << >>
  BY DEF Defaults, Default, ListKeys, Keys, BoolKeys, NumberKeys, PortKeys
<1>2. << >> \in Seq(STRING)  OBVIOUS
<1>3. Defaults \in [Keys -> {Defaults[k] : k \in Keys}]
  BY DEF Defaults
<1> QED  BY <1>1, <1>2, <1>3, KeyKinds DEF Config, Values

\* What a good line does to each setting.
LEMMA Applied ==
  ASSUME NEW file \in Seq(LineType), NEW i \in 1..Len(file), NEW c \in Config(file),
         Good(file[i])
  PROVE  /\ ApplyKey(c, file[i]) \in Config(file)
         /\ \A k \in Keys \ ListKeys : ApplyKey(c, file[i])[k] =
              IF k = file[i].key /\ k \notin IgnoredKeys THEN Value(file[i]) ELSE c[k]
         /\ \A k \in ListKeys : ApplyKey(c, file[i])[k] =
              IF k = file[i].key THEN Append(c[k], file[i].val) ELSE c[k]
<1> DEFINE line == file[i]
           key == line.key
           V == Values(file)
<1>0. /\ c \in [Keys -> V] /\ (\A k \in ListKeys : c[k] \in Seq(STRING))
      /\ line.val \in STRING /\ Value(line) \in V /\ Seq(STRING) \subseteq V
  <2>1. line \in LineType  OBVIOUS
  <2> QED  BY <2>1 DEF Config, LineType, Values
<1> HIDE DEF V, line
<1>1. CASE key \in IgnoredKeys
  BY <1>0, <1>1, KeyKinds DEF ApplyKey, line
<1>2. CASE key \in ListKeys
  <2>1. ApplyKey(c, line) = [c EXCEPT ![key] = Append(c[key], line.val)]
    BY <1>2, KeyKinds DEF ApplyKey
  <2>2. Append(c[key], line.val) \in Seq(STRING)  BY <1>0, <1>2
  <2>3. ApplyKey(c, line) \in [Keys -> V]  BY <1>0, <2>1, <2>2
  <2>4. ApplyKey(c, line) \in Config(file)
    BY <1>0, <1>2, <2>1, <2>2, <2>3, KeyKinds DEF Config, V
  <2> QED  BY <1>0, <1>2, <2>1, <2>4, KeyKinds DEF line
<1>3. CASE key \notin IgnoredKeys \cup ListKeys
  <2> DEFINE v == Value(line)
  <2>1. ApplyKey(c, line) = [c EXCEPT ![key] = v]  BY <1>3, Zenon DEF ApplyKey
  <2>2. v \in V /\ key \in Keys /\ Good(line)  BY <1>0, <1>3, GoodKey DEF line
  <2> HIDE DEF v
  <2>3. ApplyKey(c, line) \in [Keys -> V]  BY <1>0, <2>1, <2>2
  <2>4. \A k \in Keys : ApplyKey(c, line)[k] = IF k = key THEN v ELSE c[k]
    BY <1>0, <2>1, <2>2
  <2>5. ApplyKey(c, line) \in Config(file)
    BY <1>0, <1>3, <2>3, <2>4, KeyKinds DEF Config, V
  <2> QED  BY <1>3, <2>4, <2>5, KeyKinds DEF line, v
<1> QED  BY <1>1, <1>2, <1>3

\* LoadFile line by line: what the settings are behind each line.
Behind(h, file) ==
  /\ h \in [0..Len(file) -> Config(file)] /\ h[0] = Defaults
  /\ \A i \in 1..Len(file) :
       h[i] = IF \A j \in 1..i : Good(file[j]) THEN ApplyKey(h[i-1], file[i]) ELSE h[i-1]

LEMMA Loaded ==
  ASSUME NEW file \in Seq(LineType)
  PROVE  \E h : Behind(h, file) /\ LoadFile(Defaults, file) = h[Len(file)]
<1> DEFINE n == Len(file)
           Ok(i) == \A j \in 1..i : Good(file[j])
           Rec(f) == f = [i \in 0..n |-> IF i = 0 THEN Defaults
                                         ELSE IF Ok(i) THEN ApplyKey(f[i-1], file[i])
                                         ELSE f[i-1]]
           advance == [p \in Config(file) \X (1..n) |->
                         IF Ok(p[2]) THEN ApplyKey(p[1], file[p[2]]) ELSE p[1]]
           h == CHOOSE f : Rec(f)
<1>1. n \in Nat /\ \A i \in 1..n : file[i] \in LineType /\ (Ok(i) => Good(file[i]))
  OBVIOUS
<1>2. advance \in [Config(file) \X (1..n) -> Config(file)]
  <2>1. ASSUME NEW p \in Config(file) \X (1..n)
        PROVE  (IF Ok(p[2]) THEN ApplyKey(p[1], file[p[2]]) ELSE p[1]) \in Config(file)
    BY <1>1, Applied
  <2> QED  BY <2>1
<1>3. PICK f : Iterates(f, Config(file), Defaults, advance, n)
  <2> HIDE DEF advance, n
  <2> QED  BY <1>1, <1>2, DefaultConfig, Recursion
<1>4. /\ f \in [0..n -> Config(file)] /\ f[0] = Defaults
      /\ \A i \in 1..n : f[i] = IF Ok(i) THEN ApplyKey(f[i-1], file[i]) ELSE f[i-1]
  <2>1. /\ f \in [0..n -> Config(file)] /\ f[0] = Defaults
        /\ \A i \in 1..n : f[i] = advance[<<f[i-1], i>>]
    BY <1>3 DEF Iterates
  <2>2. ASSUME NEW i \in 1..n PROVE <<f[i-1], i>> \in Config(file) \X (1..n)
    <3>1. i - 1 \in 0..n  BY <1>1
    <3>2. f[i-1] \in Config(file)  BY <2>1, <3>1
    <3> QED  BY <3>2
  <2> QED  BY <2>1, <2>2
<1>5. Rec(f)
  <2> HIDE DEF n, Ok
  <2> QED  BY <1>1, <1>4
<1>6. Rec(h)  BY <1>5, Zenon
<1>7. LoadFile(Defaults, file) = h[n]  BY DEF LoadFile
<1> HIDE DEF h, n, Ok
<1>8. \A i \in 0..n : h[i] = IF i = 0 THEN Defaults
                             ELSE IF Ok(i) THEN ApplyKey(h[i-1], file[i]) ELSE h[i-1]
  <2>1. h = [i \in 0..n |-> IF i = 0 THEN Defaults
                             ELSE IF Ok(i) THEN ApplyKey(h[i-1], file[i]) ELSE h[i-1]]
    BY <1>6
  <2> QED  BY <2>1, Zenon
<1>9. \A i \in 0..n : h[i] = f[i]
  <2> DEFINE T == {i \in 0..n : h[i] = f[i]}
  <2>1. 0 \in T  BY <1>1, <1>4, <1>8
  <2>2. ASSUME NEW i \in 0..n-1, i \in T PROVE i + 1 \in T
    <3>1. i + 1 \in 1..n /\ i + 1 \in 0..n /\ i + 1 # 0 /\ (i + 1) - 1 = i  BY <1>1
    <3> QED  BY <1>4, <1>8, <2>2, <3>1
  <2>3. 0..n \subseteq T
    <3> HIDE DEF T
    <3> QED  BY <1>1, <2>1, <2>2, UpTo
  <2> QED  BY <2>3
<1>10. n \in 0..n  BY <1>1
<1>11. Behind(f, file)  BY <1>4 DEF Behind, n, Ok
<1> QED  BY <1>7, <1>9, <1>10, <1>11 DEF n

\* The lines of a key that count, up to line m.
Upto(k, m, file) == {i \in LinesOf(k, file) : i <= m}

\* A setting is the default, or what the last line of its key says.
Latest(v, k, lines, file) ==
  \/ lines = {} /\ v = Defaults[k]
  \/ \E i \in lines : (\A j \in lines : j <= i) /\ v = Value(file[i])

\* A list holds what the lines of its key say, in their order.
Places(place, n, v, lines, file) ==
  /\ place \in [1..n -> lines]
  /\ \A i, j \in 1..n : i < j => place[i] < place[j]
  /\ \A i \in 1..n : v[i] = file[place[i]].val
  /\ {place[i] : i \in 1..n} = lines
InOrder(v, lines, file) == \E place : Places(place, Len(v), v, lines, file)

\* Line m is one more of its key unless it stands behind an error or is ignored.
LEMMA UptoNext ==
  ASSUME NEW file \in Seq(LineType), NEW m \in 1..Len(file), NEW k
  PROVE  Upto(k, m, file) =
           IF (\A j \in 1..m : Good(file[j])) /\ k = file[m].key /\ k \notin IgnoredKeys
           THEN Upto(k, m - 1, file) \cup {m} ELSE Upto(k, m - 1, file)
<1>1. DOMAIN file = 1..Len(file) /\ Len(file) \in Nat  BY LenProperties
<1>2. \A i \in 1..Len(file) : i <= m <=> i <= m - 1 \/ i = m  BY <1>1
<1> QED  BY <1>1, <1>2 DEF Upto, LinesOf, Prefix

\* A line behind those a list comes from is one more in its order.
LEMMA ListNext ==
  ASSUME NEW file \in Seq(LineType), NEW m \in 1..Len(file), NEW v \in Seq(STRING),
         NEW lines \in SUBSET (1..m-1), InOrder(v, lines, file)
  PROVE  InOrder(Append(v, file[m].val), lines \cup {m}, file)
<1> DEFINE n == Len(v)
           w == Append(v, file[m].val)
<1>1. file[m].val \in STRING
  <2>1. file[m] \in LineType  BY LenProperties
  <2> QED  BY <2>1 DEF LineType
<1>2. /\ n \in Nat /\ Len(w) = n + 1 /\ w[n+1] = file[m].val
      /\ \A i \in 1..n : w[i] = v[i] /\ i \in 1..n+1 /\ i # n+1
      /\ \A i \in 1..n+1 : i \in 1..n \/ i = n+1
  <2>1. n \in Nat  BY LenProperties
  <2> QED  BY <1>1, <2>1, AppendProperties
<1>3. PICK place :
        /\ place \in [1..n -> lines]
        /\ \A i, j \in 1..n : i < j => place[i] < place[j]
        /\ \A i \in 1..n : v[i] = file[place[i]].val
        /\ {place[i] : i \in 1..n} = lines
  BY DEF InOrder, Places
<1> DEFINE q == [i \in 1..n+1 |-> IF i = n + 1 THEN m ELSE place[i]]
<1> HIDE DEF n, w
<1>4. q \in [1..n+1 -> lines \cup {m}] /\ q[n+1] = m /\ \A i \in 1..n : q[i] = place[i]
  BY <1>2, <1>3
<1>5. \A i \in 1..n : place[i] < m
  <2>1. m \in Int /\ \A x \in lines : x \in 1..m-1  BY LenProperties
  <2>2. \A x \in lines : x < m  BY <2>1
  <2> QED  BY <1>3, <2>2
<1>6. \A i, j \in 1..n+1 : i < j => q[i] < q[j]
  BY <1>2, <1>3, <1>4, <1>5
<1>7. \A i \in 1..n+1 : w[i] = file[q[i]].val
  BY <1>2, <1>3, <1>4
<1>8. {q[i] : i \in 1..n+1} = lines \cup {m}
  <2>1. ASSUME NEW x \in lines \cup {m} PROVE \E i \in 1..n+1 : q[i] = x
    <3>1. CASE x = m  BY <1>2, <1>4, <3>1
    <3>2. CASE x \in lines
      <4>1. PICK i \in 1..n : place[i] = x  BY <1>3, <3>2
      <4> QED  BY <1>2, <1>4, <4>1
    <3> QED  BY <3>1, <3>2
  <2>2. {q[i] : i \in 1..n+1} \subseteq lines \cup {m}  BY <1>4
  <2> QED  BY <2>1, <2>2
<1> HIDE DEF q
<1>9. InOrder(w, lines \cup {m}, file)
  <2>1. Places(q, n + 1, w, lines \cup {m}, file)
    BY <1>4, <1>6, <1>7, <1>8 DEF Places
  <2>2. Len(w) = n + 1  BY <1>2
  <2> QED  BY <2>1, <2>2 DEF InOrder
<1> QED  BY <1>9 DEF w

\* Behind every line the settings are what the lines up to it say.
LEMMA FileLines ==
  ASSUME NEW file \in Seq(LineType), NEW h, Behind(h, file)
  PROVE  \A m \in 0..Len(file) :
           /\ \A k \in Keys \ ListKeys : Latest(h[m][k], k, Upto(k, m, file), file)
           /\ \A k \in ListKeys :
                h[m][k] \in Seq(STRING) /\ InOrder(h[m][k], Upto(k, m, file), file)
<1> DEFINE n == Len(file)
           P(m) == /\ \A k \in Keys \ ListKeys : Latest(h[m][k], k, Upto(k, m, file), file)
                   /\ \A k \in ListKeys :
                        h[m][k] \in Seq(STRING) /\ InOrder(h[m][k], Upto(k, m, file), file)
           T == {m \in 0..n : P(m)}
<1>0. n \in Nat /\ \A i \in 1..n : file[i] \in LineType  BY LenProperties
<1>1. 0 \in T
  <2>1. \A k : Upto(k, 0, file) = {}  BY LenProperties DEF Upto, LinesOf, Prefix
  <2>2. InOrder(<< >>, {}, file)
    <3>1. Len(<< >>) = 0 /\ 1..0 = {}  OBVIOUS
    <3>2. [i \in {} |-> i] \in [{} -> {}]  OBVIOUS
    <3>3. \E place : Places(place, 0, << >>, {}, file)  BY <3>1, <3>2 DEF Places
    <3> QED  BY <3>1, <3>3 DEF InOrder
  <2>3. h[0] = Defaults /\ \A k \in ListKeys : Defaults[k] = << >>
    BY DefaultConfig DEF Behind
  <2>4. << >> \in Seq(STRING) /\ 0 \in 0..n  BY <1>0
  <2> QED  BY <2>1, <2>2, <2>3, <2>4 DEF Latest
<1>2. ASSUME NEW i \in 0..n-1, i \in T PROVE i + 1 \in T
  <2> DEFINE m == i + 1
             line == file[m]
             ok == \A j \in 1..m : Good(file[j])
  <2>1. m \in 1..n /\ m - 1 = i /\ m \in 0..n /\ i \in 0..n  BY <1>0
  <2>2. P(i)  BY <1>2
  <2>3. /\ h[i] \in Config(file) /\ line \in LineType
        /\ h[m] = IF ok THEN ApplyKey(h[i], line) ELSE h[i]
    BY <1>0, <2>1 DEF Behind
  <2>4. \A k : Upto(k, m, file) =
               IF ok /\ k = line.key /\ k \notin IgnoredKeys
               THEN Upto(k, i, file) \cup {m} ELSE Upto(k, i, file)
    BY <2>1, UptoNext
  <2> HIDE DEF m
  <2>5. CASE ~ok
    <3>1. h[m] = h[i] /\ \A k : Upto(k, m, file) = Upto(k, i, file)  BY <2>3, <2>4, <2>5
    <3>2. P(m)  BY <2>2, <3>1
    <3> QED  BY <2>1, <3>2 DEF m
  <2>6. CASE ok
    <3>0. Good(line)  BY <2>1, <2>6
    <3>1. ASSUME NEW k \in Keys \ ListKeys
          PROVE  Latest(h[m][k], k, Upto(k, m, file), file)
      <4>1. CASE k = line.key /\ k \notin IgnoredKeys
        <5>1. h[m][k] = Value(line)
          <6>1. ApplyKey(h[i], file[m])[k] = Value(file[m])
            BY <2>1, <2>3, <3>0, <4>1, Applied
          <6> QED  BY <2>3, <2>6, <6>1
        <5>2. Upto(k, m, file) = Upto(k, i, file) \cup {m}  BY <2>4, <2>6, <4>1
        <5>3. \A j \in Upto(k, m, file) : j <= m  BY <2>1 DEF Upto
        <5> QED  BY <5>1, <5>2, <5>3 DEF Latest
      <4>2. CASE ~(k = line.key /\ k \notin IgnoredKeys)
        <5>1. h[m][k] = h[i][k]
          <6>1. ApplyKey(h[i], file[m])[k] = h[i][k]
            BY <2>1, <2>3, <3>0, <4>2, Applied
          <6> QED  BY <2>3, <2>6, <6>1
        <5>2. Upto(k, m, file) = Upto(k, i, file)  BY <2>4, <4>2
        <5> QED  BY <2>2, <5>1, <5>2
      <4> QED  BY <4>1, <4>2
    <3>2. ASSUME NEW k \in ListKeys
          PROVE  h[m][k] \in Seq(STRING) /\ InOrder(h[m][k], Upto(k, m, file), file)
      <4>0. k \notin IgnoredKeys  BY KeyKinds
      <4>1. CASE k = line.key
        <5>1. h[m][k] = Append(h[i][k], line.val)
          <6>1. ApplyKey(h[i], file[m])[k] = Append(h[i][k], file[m].val)
            BY <2>1, <2>3, <3>0, <4>1, Applied
          <6> QED  BY <2>3, <2>6, <6>1
        <5>2. Upto(k, m, file) = Upto(k, i, file) \cup {m}  BY <2>4, <2>6, <4>0, <4>1
        <5>3. Upto(k, i, file) \in SUBSET (1..m-1)
          BY <2>1, LenProperties DEF Upto, LinesOf, Prefix
        <5>4. h[i][k] \in Seq(STRING) /\ InOrder(h[i][k], Upto(k, i, file), file)  BY <2>2
        <5>5. InOrder(h[m][k], Upto(k, m, file), file)
          BY <2>1, <5>1, <5>2, <5>3, <5>4, ListNext
        <5>6. line.val \in STRING  BY <2>3 DEF LineType
        <5> QED  BY <5>1, <5>4, <5>5, <5>6
      <4>2. CASE k # line.key
        <5>1. h[m][k] = h[i][k]
          <6>1. ApplyKey(h[i], file[m])[k] = h[i][k]
            BY <2>1, <2>3, <3>0, <4>2, Applied
          <6> QED  BY <2>3, <2>6, <6>1
        <5>2. Upto(k, m, file) = Upto(k, i, file)  BY <2>4, <4>2
        <5> QED  BY <2>2, <5>1, <5>2
      <4> QED  BY <4>1, <4>2
    <3>3. P(m)  BY <3>1, <3>2
    <3> QED  BY <2>1, <3>3 DEF m
  <2> QED  BY <2>5, <2>6
<1>3. 0..n \subseteq T
  <2> HIDE DEF T, n
  <2> QED  BY <1>0, <1>1, <1>2, UpTo
<1> QED  BY <1>3

\* A list with another behind it: the lengths and the parts.
LEMMA ListTail ==
  ASSUME NEW u \in Seq(STRING), NEW g \in Seq(STRING)
  PROVE  /\ Len(u \o g) - Len(g) = Len(u) /\ Len(u) \in Nat
         /\ SubSeq(u \o g, Len(u) + 1, Len(u \o g)) = g
         /\ \A i \in 1..Len(u) : (u \o g)[i] = u[i]
<1> DEFINE v == u \o g
           t == SubSeq(v, Len(u) + 1, Len(v))
<1>1. Len(u) \in Nat /\ Len(g) \in Nat /\ v \in Seq(STRING) /\ Len(v) = Len(u) + Len(g)
      /\ \A i \in 1..Len(u) + Len(g) : v[i] = IF i <= Len(u) THEN u[i] ELSE g[i - Len(u)]
  BY ConcatProperties, LenProperties
<1> HIDE DEF v
<1>2. \A i \in Len(u) + 1..Len(v) : v[i] \in STRING
  <2>1. \A i \in 1..Len(v) : v[i] \in STRING  BY <1>1, ElementOfSeq
  <2> QED  BY <1>1, <2>1
<1>3. t \in Seq(STRING) /\ Len(t) = Len(g) /\ \A i \in 1..Len(g) : t[i] = v[Len(u) + i]
  <2> DEFINE a == Len(u) + 1
             b == Len(v)
  <2>1. a \in Int /\ b \in Int  BY <1>1
  <2>2. /\ t \in Seq(STRING) /\ Len(t) = IF a <= b THEN b - a + 1 ELSE 0
        /\ \A i \in 1..b - a + 1 : t[i] = v[a + i - 1]
    <3> HIDE DEF a, b
    <3> QED  BY <1>2, <2>1, SubSeqProperties DEF a, b
  <2> QED  BY <1>1, <2>2
<1>4. \A i \in 1..Len(g) : t[i] = g[i]
  <2> HIDE DEF t
  <2>1. ASSUME NEW i \in 1..Len(g)
        PROVE  Len(u) + i \in 1..Len(u) + Len(g) /\ ~(Len(u) + i <= Len(u))
               /\ (Len(u) + i) - Len(u) = i
    BY <1>1
  <2> QED  BY <1>1, <1>3, <2>1
<1>5. t = g
  <2> HIDE DEF t
  <2> QED  BY <1>3, <1>4, SeqEqual
<1> QED  BY <1>1, <1>5 DEF v

\* LoadFile leaves what FromFile says, and in lists what the lines say in their order.
LEMMA FileSettled ==
  ASSUME NEW file \in Seq(LineType)
  PROVE  LET c == LoadFile(Defaults, file)
         IN /\ DOMAIN c = Keys
            /\ \A k \in Keys \ ListKeys :
                 c[k] = FromFile(k, file) /\ Latest(c[k], k, LinesOf(k, file), file)
            /\ \A k \in ListKeys :
                 c[k] \in Seq(STRING) /\ InOrder(c[k], LinesOf(k, file), file)
<1> DEFINE c == LoadFile(Defaults, file)
           n == Len(file)
<1>1. PICK h : Behind(h, file) /\ c = h[n]  BY Loaded
<1>2. n \in Nat /\ n \in 0..n /\ DOMAIN file = 1..n  BY LenProperties
<1>3. \A k : Upto(k, n, file) = LinesOf(k, file)  BY <1>2 DEF Upto, LinesOf, Prefix
<1>4. /\ \A k \in Keys \ ListKeys : Latest(c[k], k, LinesOf(k, file), file)
      /\ \A k \in ListKeys :
           c[k] \in Seq(STRING) /\ InOrder(c[k], LinesOf(k, file), file)
  <2> HIDE DEF c, n
  <2>1. /\ \A k \in Keys \ ListKeys : Latest(h[n][k], k, Upto(k, n, file), file)
        /\ \A k \in ListKeys :
             h[n][k] \in Seq(STRING) /\ InOrder(h[n][k], Upto(k, n, file), file)
    BY <1>1, <1>2, FileLines DEF n
  <2> QED  BY <1>1, <1>3, <2>1
<1>5. DOMAIN c = Keys  BY <1>1, <1>2 DEF Behind, Config
<1>6. ASSUME NEW k \in Keys \ ListKeys PROVE c[k] = FromFile(k, file)
  <2> DEFINE L == LinesOf(k, file)
  <2>1. L \subseteq 1..n  BY <1>2 DEF LinesOf, Prefix
  <2>2. Latest(c[k], k, L, file)  BY <1>4
  <2> HIDE DEF c
  <2>3. CASE L = {}  BY <2>2, <2>3 DEF Latest, FromFile
  <2>4. CASE L # {}
    <3>1. PICK i \in L : (\A j \in L : j <= i) /\ c[k] = Value(file[i])
      BY <2>2, <2>4 DEF Latest
    <3> HIDE DEF L
    <3>2. \A a \in L : (\A j \in L : j <= a) => a = i  BY <1>2, <2>1, <3>1
    <3>3. (CHOOSE a \in L : \A j \in L : j <= a) = i  BY <3>1, <3>2
    <3> QED  BY <2>4, <3>1, <3>3 DEF L, FromFile
  <2> QED  BY <2>3, <2>4
<1> HIDE DEF c
<1> QED  BY <1>4, <1>5, <1>6 DEF c

\* What Settle makes of a file and a command line is what they say.
LEMMA Settled ==
  ASSUME NEW in, IsInput(in)
  PROVE  /\ \A k \in Keys : InForce(k, Settle(in)[k], in)
         /\ \A k \in ListKeys : Settle(in)[k] \in Seq(STRING)
<1> DEFINE c == LoadFile(Defaults, in.file)
           a == ApplyArgument(c, in.arg)
           s == Settle(in)
<1>0. in.file \in Seq(LineType)  BY DEF IsInput
<1>1. /\ DOMAIN c = Keys
      /\ \A k \in Keys \ ListKeys : c[k] = FromFile(k, in.file)
      /\ \A k \in ListKeys : c[k] \in Seq(STRING) /\ InOrder(c[k], LinesOf(k, in.file), in.file)
  BY <1>0, FileSettled
<1>2. \A k \in Keys : s[k] = Flagged(k, a[k], in.flags)
  BY DEF Settle, ApplyFlags
<1> HIDE DEF c, s
<1>3. \A k \in Keys \ ListKeys : a[k] = FromArgument(k, in)
  BY <1>1, KeyKinds DEF ApplyArgument, FromArgument
<1>4. \A k \in Keys \ {"host", "port"} : a[k] = c[k]
  BY <1>1 DEF ApplyArgument
<1> HIDE DEF a
<1>5. ASSUME NEW k \in ListKeys
      PROVE  s[k] \in Seq(STRING) /\ ListInForce(k, s[k], in)
  <2> DEFINE g == IF k \in DOMAIN in.flags THEN in.flags[k] ELSE << >>
             u == c[k]
             lines == LinesOf(k, in.file)
  <2>1. k \in Keys \ {"host", "port"}  BY KeyKinds
  <2>2. u \in Seq(STRING) /\ InOrder(u, lines, in.file)  BY <1>1
  <2>3. g \in Seq(STRING)
    <3>1. k \in DOMAIN in.flags => in.flags[k] \in Seq(STRING)  BY DEF IsInput
    <3>2. << >> \in Seq(STRING)  OBVIOUS
    <3> QED  BY <3>1, <3>2
  <2>4. s[k] = u \o g
    <3>1. CASE k \in DOMAIN in.flags
      <4>0. k \notin {"set-routes", "set-dns"}  BY KeyKinds
      <4>1. Flagged(k, u, in.flags) = u \o in.flags[k]  BY <3>1, <4>0, Zenon DEF Flagged
      <4> QED  BY <1>2, <1>4, <2>1, <3>1, <4>1
    <3>2. CASE k \notin DOMAIN in.flags
      <4>1. s[k] = u  BY <1>2, <1>4, <2>1, <3>2, Zenon DEF Flagged
      <4>2. g = << >>  BY <3>2
      <4> QED  BY <2>2, <4>1, <4>2, ConcatEmptySeq
    <3> QED  BY <3>1, <3>2
  <2> DEFINE v == s[k]
             n == Len(v) - Len(g)
  <2> HIDE DEF u, g
  <2>5. /\ n = Len(u) /\ n \in Nat /\ SubSeq(v, n + 1, Len(v)) = g
        /\ \A i \in 1..n : v[i] = u[i]
    BY <2>2, <2>3, <2>4, ListTail
  <2>6. PICK place : Places(place, n, u, lines, in.file)
    BY <2>2, <2>5 DEF InOrder
  <2> HIDE DEF n, v, lines
  <2>7. Places(place, n, v, lines, in.file)  BY <2>5, <2>6 DEF Places
  <2>8. ListInForce(k, v, in)
    <3>1. n >= 0  BY <2>5
    <3> QED  BY <2>5, <2>7, <3>1 DEF ListInForce, Places, n, g, lines
  <2> QED  BY <2>2, <2>3, <2>4, <2>8, ConcatProperties DEF v
<1>6. ASSUME NEW k \in Keys \ ListKeys PROVE InForce(k, s[k], in)
  <2>1. s[k] = Flagged(k, FromArgument(k, in), in.flags)  BY <1>2, <1>3
  <2>2. CASE k \in Switches
    <3>1. FromArgument(k, in) = FromFile(k, in.file)  BY <2>2 DEF FromArgument, Switches
    <3>2. s[k] <=> FromFile(k, in.file) /\ ~(k \in DOMAIN in.flags /\ in.flags[k])
      BY <2>1, <2>2, <3>1, Zenon DEF Flagged, Switches
    <3> QED  BY <2>2, <3>2 DEF InForce
  <2>3. CASE k \notin Switches
    <3>1. k \in DOMAIN in.flags => s[k] = in.flags[k]
      BY <2>1, <2>3, Zenon DEF Flagged, Switches
    <3>2. k \notin DOMAIN in.flags => s[k] = FromArgument(k, in)
      BY <2>1, <2>3, Zenon DEF Flagged, Switches
    <3> QED  BY <2>3, <3>1, <3>2 DEF InForce
  <2> QED  BY <2>2, <2>3
<1>7. \A k \in ListKeys : InForce(k, s[k], in)
  <2>1. ListKeys \cap Switches = {}  BY DEF ListKeys, Switches
  <2> QED  BY <1>5, <2>1 DEF InForce
<1> QED  BY <1>5, <1>6, <1>7 DEF s

\* What the settings of a run say of certificates is what its user said.
LEMMA IntentKept ==
  ASSUME NEW in, IsInput(in)
  PROVE  LET c == Settle(in)
             pins == c["trusted-cert"]
             said == Intent(in)
         IN /\ c["insecure-ssl"] => said.insecure
            /\ \A i \in DOMAIN pins : pins[i] \in said.pins
            /\ pins = << >> => said.pins = {} \/ said.broken
<1> DEFINE c == Settle(in)
           pins == c["trusted-cert"]
           said == Intent(in)
           key == "insecure-ssl"
           pin == "trusted-cert"
           given == IF pin \in DOMAIN in.flags THEN in.flags[pin] ELSE << >>
           lines == LinesOf(pin, in.file)
           n == Len(pins) - Len(given)
<1>0. in.file \in Seq(LineType) /\ DOMAIN in.file = 1..Len(in.file) /\ Len(in.file) \in Nat
  BY LenProperties DEF IsInput
<1>1. InForce(key, c[key], in) /\ ListInForce(pin, pins, in) /\ pins \in Seq(STRING)
  <2>1. key \in Keys /\ pin \in Keys /\ pin \in ListKeys  BY KeyKinds
  <2>2. /\ \A k \in Keys : InForce(k, c[k], in)
        /\ \A k \in ListKeys : c[k] \in Seq(STRING)
    BY Settled
  <2> HIDE DEF c
  <2> QED  BY <2>1, <2>2 DEF InForce
<1> HIDE DEF c
<1>2. ASSUME c[key] PROVE said.insecure
  <2>1. CASE key \in DOMAIN in.flags
    <3>1. c[key] = in.flags[key]
      BY <1>1, <2>1, KeyKinds DEF InForce, Switches
    <3> QED  BY <1>2, <2>1, <3>1 DEF Intent
  <2>2. CASE key \notin DOMAIN in.flags
    <3>1. c[key] = FromFile(key, in.file)
      BY <1>1, <2>2, KeyKinds DEF InForce, Switches, FromArgument
    <3>2. Latest(c[key], key, LinesOf(key, in.file), in.file)
      BY <1>0, <3>1, KeyKinds, FileSettled
    <3>3. key \in Keys \ {"set-routes", "set-dns"} /\ Defaults[key] = FALSE
      <4>1. key \in Keys /\ key \in BoolKeys \ {"set-routes", "set-dns"} /\ key \notin NumberKeys
            /\ key \notin {"port", "timeout"} /\ key \notin {"set-routes", "set-dns"}
            /\ key \notin ListKeys /\ key # "min-tls" /\ key # "password"
        BY KeyKinds DEF BoolKeys
      <4>2. ASSUME NEW k, k \in BoolKeys \ {"set-routes", "set-dns"}, k \notin NumberKeys,
                   k # "port", k # "timeout", k \notin {"set-routes", "set-dns"},
                   k \notin ListKeys, k # "min-tls", k # "password"
            PROVE  Default(k) = FALSE
        BY <4>2, Zenon DEF Default
      <4>3. Default(key) = FALSE  BY <4>1, <4>2
      <4> QED  BY <4>1, <4>3 DEF Defaults
    <3>4. PICK i \in LinesOf(key, in.file) : c[key] = Value(in.file[i])
      BY <1>2, <3>2, <3>3 DEF Latest
    <3>5. i \in DOMAIN in.file /\ in.file[i].key = key  BY <3>4 DEF LinesOf, Prefix
    <3>6. Value(in.file[i]) = (in.file[i].val \in Yes)
      <4>1. in.file[i].key \in BoolKeys \ NumberKeys  BY <3>5, KeyKinds DEF BoolKeys
      <4> QED  BY <4>1, Zenon DEF Value
    <3> QED  BY <1>2, <3>4, <3>5, <3>6 DEF Intent
  <2> QED  BY <2>1, <2>2
<1>3. given \in Seq(STRING)
  <2>1. pin \in DOMAIN in.flags => in.flags[pin] \in Seq(STRING)  BY KeyKinds DEF IsInput
  <2>2. << >> \in Seq(STRING)  OBVIOUS
  <2> QED  BY <2>1, <2>2
<1>4. PICK place \in [1..n -> lines] :
        /\ \A i \in 1..n : pins[i] = in.file[place[i]].val
        /\ {place[i] : i \in 1..n} = lines
  BY <1>1 DEF ListInForce
<1>5. n \in Nat /\ Len(pins) \in Nat /\ Len(given) \in Nat /\ n <= Len(pins)
      /\ SubSeq(pins, n + 1, Len(pins)) = given /\ DOMAIN pins = 1..Len(pins)
  <2>1. n >= 0 /\ SubSeq(pins, n + 1, Len(pins)) = given  BY <1>1 DEF ListInForce
  <2> HIDE DEF pins, given
  <2>2. Len(pins) \in Nat /\ Len(given) \in Nat /\ DOMAIN pins = 1..Len(pins)
    BY <1>1, <1>3, LenProperties DEF pins
  <2> QED  BY <2>1, <2>2
<1>6. \A i \in lines : /\ i \in DOMAIN in.file /\ in.file[i].key = pin
                       /\ in.file[i].val \in Digests
  <2>1. ASSUME NEW i \in lines PROVE i \in DOMAIN in.file /\ in.file[i].key = pin /\ Good(in.file[i])
    <3>1. i \in DOMAIN in.file /\ i \in 1..i  BY <1>0 DEF LinesOf, Prefix
    <3> QED  BY <3>1 DEF LinesOf, Prefix
  <2>2. ASSUME NEW line, line.key = pin, Good(line) PROVE line.val \in Digests
    BY <2>2 DEF Good, TextKeys, IgnoredKeys, BoolKeys, PortKeys
  <2> QED  BY <2>1, <2>2
<1> HIDE DEF pins, given, n, lines
<1>7. ASSUME NEW i \in DOMAIN pins PROVE pins[i] \in said.pins
  <2>1. CASE i <= n
    <3>1. i \in 1..n  BY <1>5, <2>1
    <3>2. pins[i] = in.file[place[i]].val /\ place[i] \in lines  BY <1>4, <3>1
    <3>3. \E j \in DOMAIN in.file : in.file[j].key = pin /\ in.file[j].val = pins[i]
      BY <1>6, <3>2
    <3>4. pins[i] \in Digests  BY <1>6, <3>2
    <3> QED  BY <3>3, <3>4 DEF Intent
  <2>2. CASE i > n
    <3>1. i - n \in 1..Len(pins) - (n + 1) + 1 /\ (n + 1) + (i - n) - 1 = i
          /\ n + 1 \in Int /\ Len(pins) \in Int
      BY <1>5, <2>2
    <3>2. \A j \in n + 1..Len(pins) : pins[j] \in STRING
      <4>1. \A j \in 1..Len(pins) : pins[j] \in STRING  BY <1>1, ElementOfSeq DEF pins
      <4> QED  BY <1>5, <4>1
    <3>3. given[i - n] = pins[i] /\ Len(given) = Len(pins) - n
      <4>1. \A j \in 1..Len(pins) - (n + 1) + 1 :
              SubSeq(pins, n + 1, Len(pins))[j] = pins[(n + 1) + j - 1]
        BY <3>1, <3>2, SubSeqProperties
      <4>2. Len(given) = Len(pins) - n  BY <1>5 DEF n
      <4> QED  BY <1>5, <3>1, <4>1, <4>2
    <3>4. i - n \in DOMAIN given  BY <1>3, <1>5, <3>1, <3>3, LenProperties
    <3>5. pin \in DOMAIN in.flags
      <4>1. given # << >>  BY <3>4
      <4> QED  BY <4>1 DEF given
    <3>6. in.flags[pin] = given  BY <3>5 DEF given
    <3> QED  BY <3>3, <3>4, <3>5, <3>6 DEF Intent
  <2> QED  BY <1>5, <2>1, <2>2
<1>8. ASSUME pins = << >>, ~said.broken PROVE said.pins = {}
  <2>1. n = 0 /\ given = << >>
    <3>1. Len(pins) = 0  BY <1>8
    <3>2. n = 0 /\ Len(given) = 0  BY <1>5, <3>1 DEF n
    <3> QED  BY <1>3, <3>2, EmptySeq
  <2>2. lines = {}
    <3>1. 1..0 = {}  OBVIOUS
    <3> QED  BY <1>4, <2>1, <3>1
  <2>3. \A i \in DOMAIN in.file : Good(in.file[i])  BY <1>8 DEF Intent
  <2>4. \A i \in DOMAIN in.file : in.file[i].key # pin
    <3>1. \A i \in DOMAIN in.file : i \in Prefix(in.file)  BY <1>0, <2>3 DEF Prefix
    <3>2. pin \notin IgnoredKeys  BY KeyKinds
    <3> QED  BY <2>2, <3>1, <3>2 DEF lines, LinesOf
  <2>5. pin \in DOMAIN in.flags => in.flags[pin] = << >>  BY <2>1 DEF given
  <2>6. pin \in DOMAIN in.flags => DOMAIN in.flags[pin] = {}  BY <2>5
  <2> QED  BY <2>4, <2>6 DEF Intent
<1> QED  BY <1>2, <1>7, <1>8 DEF pins, c

-----------------------------------------------------------------------------
(* The settings in force, and what they guard.                             *)

\* The settings are those of an input and stay so as long as the run.
Derived ==
  /\ input # NoInput => input \in Inputs /\ cfg = Settle(input)
  /\ at # "off" => \E in \in Inputs : cfg = Settle(in) /\ intent = Intent(in)

\* The steps of a login change no setting, and begin nothing that is off.
LEMMA LoginFixes ==
  ASSUME LoginStep
  PROVE  UNCHANGED <<cfg, cancelled, attempt, proxied>> /\ (at' # "off" => at # "off")
<1>1. UNCHANGED <<cfg, cancelled, attempt, proxied>>
  BY DEF LoginStep, LoginProgress, fixed, Resolve, DialRaw, ProxyAnswers, Handshake,
         ChooseAuth, Prompt, PostPassword, PushDelay, PostPush, PostOtp, GetRedir,
         SamlCancelled, GetAuthId, ServerShutdown, GetIndex, Allocate, FetchConfig, Callback
<1>2. CASE ServerShutdown  BY <1>1, <1>2 DEF ServerShutdown
<1>3. CASE ~ServerShutdown
  BY <1>1, <1>3
     DEF LoginStep, LoginProgress, Resolve, DialRaw, ProxyAnswers, Handshake, ChooseAuth,
         Prompt, PostPassword, PushDelay, PostPush, PostOtp, GetRedir, SamlCancelled,
         GetAuthId, GetIndex, Allocate, FetchConfig, Callback
<1> QED  BY <1>1, <1>2, <1>3

\* No step changes the settings of a run, nor what its user said.
LEMMA NextDerives == ASSUME Derived, [Next]_vars PROVE Derived'
<1>1. CASE UNCHANGED vars  BY <1>1 DEF vars, loginVars, mainVars, Derived
<1>2. CASE Connect(LoginStep)
  BY <1>2, LoginFixes DEF Connect, fixed, Derived
<1>3. CASE Configure
  BY <1>3 DEF Configure, Derived
<1>4. CASE Cancel \/ StartPppd \/ NoPppd \/ Activate \/ ActivateFails \/ Aborted
           \/ EndSession \/ Drained \/ Reconnect
  BY <1>4 DEF Cancel, StartPppd, NoPppd, Activate, ActivateFails, Aborted, EndSession,
              Drained, Reconnect, fixed, mainVars, Derived
<1>5. CASE Exit \/ Crash  BY <1>5 DEF Exit, Crash, Off, Derived
<1>6. CASE Background  BY <1>6 DEF Background, loginVars, mainVars, Derived
<1> QED  BY <1>1, <1>2, <1>3, <1>4, <1>5, <1>6 DEF Next

\* Before its first attempt a run has the settings that defaults, file, argument and flags
\* come to by their order, whatever the values in the file and the flags; files with a key
\* nobody knows are left out.
THEOREM Effective == Spec => []EffectiveSettings
<1>1. Init => Derived  BY DEF Init, Derived
<1>2. Derived /\ [Next]_vars => Derived'  BY NextDerives
<1>3. Derived => EffectiveSettings
  BY Settled, ClientAssumption DEF Derived, EffectiveSettings
<1> QED  BY <1>1, <1>2, <1>3, PTL DEF Spec

\* The cookies that may be on their way.
OfAttempt(c) == c \in {NoCookie, attempt, Given} /\ (c = Given => cfg["cookie"] # "")

\* Between attempts there is no cookie, within one only those of OfAttempt; and whatever is
\* secret goes over a connection that has passed the checks.
Checked ==
  /\ at \in {"off", "resolve", "failed"} => cookie = NoCookie
  /\ OfAttempt(cookie)
  /\ at \in Secret =>
       /\ OfAttempt(jar)
       /\ conn \in Certs /\ VerifyConnectionState(cfg, conn)

\* No cookie is not a given one.
LEMMA Differ == NoCookie # Given
BY DEF NoCookie, Given

\* An answer leaves the cookie there was, or sets the gateway's.
LEMMA JarOfAttempt ==
  ASSUME LoginType, OfAttempt(jar), NEW r \in Replies, jar' = JarAfter(r),
         UNCHANGED <<cfg, attempt>>
  PROVE  OfAttempt(jar)'
<1>1. attempt # Given  BY DEF LoginType, Given
<1>2. jar' \in {attempt, jar} /\ attempt' = attempt /\ cfg' = cfg  BY DEF JarAfter
<1>3. CASE jar' = jar      BY <1>2, <1>3 DEF OfAttempt
<1>4. CASE jar' = attempt  BY <1>1, <1>2, <1>4 DEF OfAttempt
<1> QED  BY <1>2, <1>3, <1>4

\* What the steps of a login do to the connection: it is kept, closed or has just passed
\* the checks.
LEMMA LoginChecks ==
  ASSUME LoginType, Checked, LoginStep
  PROVE  Checked'
<1> USE DEF Checked, Secret, Fail, GoOn
<1>0. UNCHANGED <<cfg, cancelled, attempt, proxied>>  BY LoginFixes
<1>1. OfAttempt(NoCookie) /\ OfAttempt(NoCookie)'
  BY Differ DEF OfAttempt
<1>2. UNCHANGED cookie => OfAttempt(cookie)'
  BY <1>0 DEF OfAttempt
<1>3. UNCHANGED jar /\ OfAttempt(jar) => OfAttempt(jar)'
  BY <1>0 DEF OfAttempt
<1>4. UNCHANGED conn /\ VerifyConnectionState(cfg, conn) => VerifyConnectionState(cfg, conn)'
  BY <1>0
<1>5. CASE Fail  BY <1>1, <1>5
<1>6. CASE Resolve \/ DialRaw \/ ProxyAnswers
  BY <1>1, <1>2, <1>6 DEF Resolve, DialRaw, ProxyAnswers
<1>7. CASE Handshake
  <2>1. CASE ~Fail
    <3>1. PICK cert \in Certs :
            /\ VerifyConnectionState(cfg, cert) /\ conn' = cert
            /\ at' = (IF cookie = NoCookie THEN "auth" ELSE "fetch")
            /\ UNCHANGED cookie /\ jar' = cookie
      BY <1>7, <2>1 DEF Handshake
    <3>2. OfAttempt(jar)' /\ OfAttempt(cookie)'  BY <1>0, <3>1 DEF OfAttempt
    <3>3. VerifyConnectionState(cfg, conn)'  BY <1>0, <3>1
    <3> QED  BY <3>1, <3>2, <3>3
  <2> QED  BY <1>5, <1>7, <2>1 DEF Handshake
<1>8. ASSUME at \in Secret, UNCHANGED conn, at' \notin {"off", "resolve", "failed"},
             OfAttempt(jar)', OfAttempt(cookie)'
      PROVE  Checked'
  BY <1>4, <1>8
<1>9. CASE ChooseAuth
  <2>1. CASE cfg["cookie"] # "" /\ jar' = Given /\ cookie' = Given /\ at' = "index"
             /\ UNCHANGED conn
    <3>1. OfAttempt(jar)' /\ OfAttempt(cookie)'  BY <1>0, <2>1 DEF OfAttempt
    <3> QED  BY <1>8, <1>9, <2>1, <3>1 DEF ChooseAuth
  <2>2. CASE UNCHANGED <<conn, jar, cookie>> /\ at' \in {"callback", "askpass", "login"}
    BY <1>2, <1>3, <1>8, <1>9, <2>2 DEF ChooseAuth
  <2> QED  BY <1>5, <1>9, <2>1, <2>2 DEF ChooseAuth
<1>10. CASE Prompt \/ PushDelay \/ Callback
  <2>1. at \in Secret /\ UNCHANGED jar
    BY <1>10 DEF Prompt, PushDelay, Callback
  <2>2. Fail \/ (UNCHANGED <<conn, cookie>> /\ at' \in {"login", "otp", "push", "samlid"})
    BY <1>10 DEF Prompt, PushDelay, Callback
  <2> QED  BY <1>2, <1>3, <1>5, <1>8, <2>1, <2>2
<1>11. CASE SamlCancelled \/ ServerShutdown
  <2>1. CASE SamlCancelled  BY <1>5, <2>1 DEF SamlCancelled
  <2>2. CASE ServerShutdown
    BY <1>2, <1>3, <1>4, <2>2 DEF ServerShutdown
  <2> QED  BY <1>11, <2>1, <2>2
<1>12. ASSUME at \in Secret, NEW r \in Replies, jar' = JarAfter(r),
              \/ /\ UNCHANGED conn /\ cookie' \in {cookie, jar'}
                 /\ at' \notin {"off", "resolve", "failed"}
              \/ at' = "dial" /\ UNCHANGED cookie
       PROVE  Checked'
  <2>1. OfAttempt(jar)'  BY <1>0, <1>12, JarOfAttempt
  <2>2. cookie' = jar' => OfAttempt(cookie)'  BY <2>1 DEF OfAttempt
  <2>3. CASE at' = "dial" /\ UNCHANGED cookie  BY <1>2, <2>3
  <2> QED  BY <1>2, <1>8, <1>12, <2>1, <2>2, <2>3
<1>13. ASSUME NEW r \in Replies, Accepted(r) \/ Challenge(r) \/ GoOn(Otp), ~Fail,
              jar' = JarAfter(r)
       PROVE  UNCHANGED conn /\ cookie' \in {cookie, jar'}
              /\ at' \notin {"off", "resolve", "failed"}
  <2>1. CASE Accepted(r)   BY <1>13, <2>1 DEF Accepted
  <2>2. CASE Challenge(r)  BY <1>13, <2>2 DEF Challenge, Otp
  <2>3. CASE GoOn(Otp)     BY <1>13, <2>3 DEF Otp
  <2> QED  BY <1>13, <2>1, <2>2, <2>3
<1>14. CASE PostPassword \/ PostPush \/ PostOtp
  <2>1. at \in Secret  BY <1>14 DEF PostPassword, PostPush, PostOtp
  <2>2. CASE ~Fail
    <3>1. PICK r \in Replies :
            jar' = JarAfter(r) /\ (Accepted(r) \/ Challenge(r) \/ GoOn(Otp))
      <4> HIDE DEF Fail, GoOn
      <4> QED  BY <1>14, <2>2 DEF PostPassword, PostPush, PostOtp
    <3> QED  BY <1>12, <1>13, <2>1, <2>2, <3>1
  <2> QED  BY <1>5, <2>2
<1>15. CASE GetRedir \/ GetAuthId \/ GetIndex \/ FetchConfig \/ Allocate
  <2>1. at \in Secret  BY <1>15 DEF GetRedir, GetAuthId, GetIndex, FetchConfig, Allocate
  <2>2. CASE ~Fail
    <3>1. PICK r \in Replies :
            /\ jar' = JarAfter(r)
            /\ \/ UNCHANGED conn /\ cookie' \in {cookie, jar'}
                  /\ at' \in {"index", "alloc", "start"}
               \/ at' = "dial" /\ UNCHANGED cookie
      BY <1>15, <2>2 DEF GetRedir, GetAuthId, GetIndex, FetchConfig, Allocate
    <3> QED  BY <1>12, <2>1, <3>1
  <2> QED  BY <1>5, <2>2
<1> QED
  BY <1>6, <1>7, <1>9, <1>10, <1>11, <1>14, <1>15 DEF LoginStep, LoginProgress

\* Nor does any other step of the program send a secret over a connection unchecked, or
\* carry a cookie from one attempt to the next.
LEMMA NextChecks ==
  ASSUME LoginType, Placed, Checked, [Next]_vars
  PROVE  Checked'
<1>1. CASE UNCHANGED vars
  BY <1>1 DEF vars, loginVars, Checked, OfAttempt
<1>2. CASE Connect(LoginStep)  BY <1>2, LoginChecks DEF Connect
<1>3. CASE Configure \/ Reconnect
  <2>1. cookie' = NoCookie /\ at' = "resolve"
    BY <1>3 DEF Configure, Reconnect, Checked
  <2> QED  BY <2>1, Differ DEF Checked, OfAttempt, Secret
<1>4. CASE Cancel \/ Background
  <2>1. UNCHANGED <<at, cfg, attempt, conn, jar, cookie>>
    BY <1>4 DEF Cancel, Background, loginVars
  <2> QED  BY <2>1 DEF Checked, OfAttempt
<1>5. CASE StartPppd \/ Activate \/ ActivateFails \/ EndSession
  <2>1. at \in Secret /\ at' \in Secret /\ UNCHANGED <<cfg, attempt, conn, jar, cookie>>
    BY <1>5, LoginAssumption
       DEF StartPppd, Activate, ActivateFails, EndSession, fixed, Secret
  <2> QED  BY <2>1 DEF Checked, OfAttempt, Secret
<1>6. CASE NoPppd \/ Aborted \/ Drained
  <2>1. Fail  BY <1>6 DEF NoPppd, Aborted, Drained
  <2> QED  BY <2>1, Differ DEF Fail, Checked, OfAttempt, Secret
<1>7. CASE Exit \/ Crash
  <2>1. Off  BY <1>7 DEF Exit, Crash
  <2> QED  BY <2>1, Differ DEF Off, Checked, OfAttempt, Secret
<1> QED  BY <1>1, <1>2, <1>3, <1>4, <1>5, <1>6, <1>7 DEF Next

\* Password, one-time password and cookie go only over a connection whose certificate the
\* user waived, pinned or left to X.509, whatever file and flags say and wherever they
\* say it; and the cookie is never one of a lost session.
THEOREM Guards == Spec => []Guarded
<1>1. Init => LoginType /\ Placed /\ Derived /\ Checked
  <2> SUFFICES ASSUME Init PROVE LoginType /\ Placed /\ Derived /\ Checked  OBVIOUS
  <2>1. LoginType /\ Placed
    BY CookieType, DefaultKeys DEF Init, PppdInit, LoginType, Placed, States
  <2> QED  BY <2>1, Differ DEF Init, Derived, Checked, OfAttempt, Secret
<1>2. PppdInv /\ (LoginType /\ Placed /\ Derived /\ Checked) /\ [Next]_vars
        => (LoginType /\ Placed /\ Derived /\ Checked)'
  BY NextKeepsTypes, NextDerives, NextChecks
<1>3. LoginType /\ Derived /\ Checked => Guarded
  <2> SUFFICES ASSUME LoginType, Derived, Checked, at \in Secret PROVE Guarded
    BY DEF Guarded
  <2>1. PICK in \in Inputs : cfg = Settle(in) /\ intent = Intent(in)
    BY DEF Derived, Secret
  <2>2. /\ conn \in Certs /\ VerifyConnectionState(cfg, conn)
        /\ OfAttempt(jar) /\ OfAttempt(cookie)
    BY DEF Checked
  <2>3. conn # NoConn  BY <2>2, LoginAssumption DEF NoConn
  <2>4. /\ cfg["insecure-ssl"] => intent.insecure
        /\ \A i \in DOMAIN cfg["trusted-cert"] : cfg["trusted-cert"][i] \in intent.pins
        /\ cfg["trusted-cert"] = << >> => intent.pins = {} \/ intent.broken
    <3>1. IsInput(in)  BY ClientAssumption
    <3> QED  BY <2>1, <3>1, IntentKept
  <2>5. \/ intent.insecure
        \/ conn.digest \in intent.pins
        \/ conn.chain /\ (intent.pins = {} \/ intent.broken)
    BY <2>2, <2>4 DEF VerifyConnectionState, IsPinned
  <2>6. {jar, cookie} \subseteq {NoCookie, attempt, Given}
        /\ (Given \in {jar, cookie} => cfg["cookie"] # "")
    BY <2>2 DEF OfAttempt
  <2> QED  BY <2>3, <2>5, <2>6 DEF Guarded
<1> QED  BY <1>1, <1>2, <1>3, PppdInvariant, PTL DEF Spec
=============================================================================
