------------------------------- MODULE Client -------------------------------
(***************************************************************************)
(* The runs of the program on one host, one after the other: main reads    *)
(* the settings (Settings), connect logs in (Login), starts pppd and ends  *)
(* it again (Pppd), and begins anew with --persistent.  A run may be       *)
(* killed at any moment; the next finds what it left in the process table  *)
(* and in the PID file.  What a session does to the network is Tunnel's.   *)
(***************************************************************************)
EXTENDS Login, Pppd

CONSTANTS
  Inputs,      \* files and command lines under study: records of file, arg and flags
  MaxRuns,     \* bound on the starts of the program
  MaxCrashes,  \* bound on the runs that are killed
  Proxied      \* whether the environment names a proxy, what may be

ASSUME ClientAssumption ==
  /\ MaxRuns \in Nat /\ MaxCrashes \in Nat /\ Proxied \subseteq BOOLEAN
  /\ \A in \in Inputs : IsInput(in)

VARIABLES
  input,       \* what the settings were read from, until the first attempt
  intent,      \* what of it bears on the certificates, for as long as the run
  runs, crashes

mainVars == <<input, intent, runs, crashes>>
vars == <<loginVars, pppdVars, mainVars>>

NoInput  == [file |-> << >>, arg |-> << >>, flags |-> << >>]
NoIntent == [insecure |-> FALSE, pins |-> {}, broken |-> FALSE]

Off == /\ at' = "off" /\ cfg' = Defaults /\ cancelled' = FALSE /\ attempt' = 1
       /\ proxied' = FALSE /\ conn' = NoConn /\ jar' = NoCookie /\ cookie' = NoCookie
       /\ saml' = "none" /\ input' = NoInput /\ intent' = NoIntent

Init ==
  /\ at = "off" /\ cfg = Defaults /\ cancelled = FALSE /\ attempt = 1
  /\ proxied = FALSE /\ conn = NoConn /\ jar = NoCookie /\ cookie = NoCookie
  /\ saml = "none" /\ input = NoInput /\ intent = NoIntent
  /\ runs = 0 /\ crashes = 0
  /\ PppdInit

-----------------------------------------------------------------------------
(* What a user says of certificates: anywhere in the file or the flags.    *)

Intent(in) ==
  [insecure |-> \/ \E i \in DOMAIN in.file : /\ in.file[i].key = "insecure-ssl"
                                              /\ in.file[i].val \in Yes
                \/ "insecure-ssl" \in DOMAIN in.flags /\ in.flags["insecure-ssl"],
   pins     |-> {d \in Digests : \E i \in DOMAIN in.file :
                    in.file[i].key = "trusted-cert" /\ in.file[i].val = d}
                \cup (IF "trusted-cert" \in DOMAIN in.flags
                      THEN {in.flags["trusted-cert"][i] :
                              i \in DOMAIN in.flags["trusted-cert"]}
                      ELSE {}),
   broken   |-> \E i \in DOMAIN in.file : ~Good(in.file[i])]

\* RunE.  A command line in error, or settings not fit to connect with, end the program
\* before it has done anything.
Configure ==
  /\ at = "off" /\ runs < MaxRuns
  /\ runs' = runs + 1
  /\ \E in \in Inputs, p \in Proxied :
       LET c == Settle(in)
       IN /\ Acceptable(in) /\ Validate(c)
          /\ at' = "resolve" /\ cfg' = c /\ proxied' = p
          /\ input' = in /\ intent' = Intent(in)
  /\ UNCHANGED <<cancelled, attempt, conn, jar, cookie, saml, crashes, pppdVars>>

\* SIGINT, SIGTERM or SIGHUP, caught by NotifyContext
Cancel ==
  /\ at # "off" /\ ~cancelled
  /\ cancelled' = TRUE
  /\ UNCHANGED <<at, cfg, attempt, proxied, conn, jar, cookie, saml, mainVars, pppdVars>>

Connect(Part) ==
  /\ Part
  /\ input' = NoInput
  /\ UNCHANGED <<intent, runs, crashes, pppdVars>>

\* ppp.Start
StartPppd ==
  /\ at = "start" /\ at' = "starting" /\ BeginStart
  /\ UNCHANGED <<fixed, conn, jar, cookie, saml, mainVars>>

NoPppd ==
  /\ at = "starting" /\ StartFails /\ Fail
  /\ UNCHANGED <<fixed, jar, saml, mainVars>>

\* SendRaw of the tunnel request; the packet relay runs from here.
Activate ==
  /\ at = "starting" /\ step = "up"
  /\ at' = "session"
  /\ UNCHANGED <<fixed, conn, jar, cookie, saml, mainVars, pppdVars>>

\* SendRaw fails: the deferred Close, and nobody waits for the exit.
ActivateFails ==
  /\ at = "starting" /\ BeginClose /\ at' = "abort"
  /\ UNCHANGED <<fixed, conn, jar, cookie, saml, mainVars>>

Aborted ==
  /\ at = "abort" /\ Forget /\ Fail
  /\ UNCHANGED <<fixed, jar, saml, mainVars>>

\* RunLoop ends, by the context, an error or the exit of pppd, and calls Close.
EndSession ==
  /\ at = "session" /\ BeginClose /\ at' = "drain"
  /\ UNCHANGED <<fixed, conn, jar, cookie, saml, mainVars>>

\* RunLoop and Wait return when pppd has exited, whatever it takes; then connect does.
Drained ==
  /\ at = "drain" /\ child \in gone /\ Forget /\ Fail
  /\ UNCHANGED <<fixed, jar, saml, mainVars>>

\* Run, between two attempts
Reconnect ==
  /\ at = "failed" /\ cfg["persistent"] # 0 /\ ~cancelled /\ attempt < MaxAttempts
  /\ at' = "resolve" /\ attempt' = attempt + 1
  /\ UNCHANGED <<cfg, cancelled, proxied, conn, jar, cookie, saml, mainVars, pppdVars>>

Exit ==
  /\ at = "failed" /\ (cfg["persistent"] = 0 \/ cancelled)
  /\ Off /\ ClientGone
  /\ UNCHANGED <<runs, crashes>>

\* kill -9, a crash, the end of the host's patience
Crash ==
  /\ at # "off" /\ crashes < MaxCrashes
  /\ crashes' = crashes + 1
  /\ Off /\ ClientGone
  /\ UNCHANGED runs

Background == (PppdStep \/ Host) /\ UNCHANGED <<loginVars, mainVars>>

Next ==
  \/ Configure \/ Cancel \/ Connect(LoginStep)
  \/ StartPppd \/ NoPppd \/ Activate \/ ActivateFails \/ Aborted
  \/ EndSession \/ Drained \/ Reconnect \/ Exit \/ Crash \/ Background

Spec == Init /\ [][Next]_vars

\* The client takes its next step in time; the gateway, the proxy and the user answer,
\* but nobody need come back from the SAML page, nor a session end by itself.
ClientStep ==
  \/ Connect(LoginProgress)
  \/ StartPppd \/ NoPppd \/ Activate \/ Aborted \/ Drained \/ Exit
  \/ cancelled /\ EndSession
  \/ PppdStep /\ UNCHANGED <<loginVars, mainVars>>

\* A pppd does not hang for ever, and SIGKILL ends one that does not hang.
PppdEnds(p) ==
  /\ PppdWakes(p) \/ (p \in killed /\ PppdExits(p))
  /\ UNCHANGED <<loginVars, mainVars>>

FairSpec == Spec /\ WF_vars(ClientStep) /\ \A p \in Pids : WF_vars(PppdEnds(p))

-----------------------------------------------------------------------------
(* Properties                                                              *)

States == {"off", "resolve", "dial", "proxy", "tls", "auth", "askpass", "login", "delay",
           "push", "askotp", "otp", "redir", "callback", "samlid", "index", "alloc",
           "fetch", "start", "starting", "session", "abort", "drain", "failed"}

\* Every variable has its type; the routines of pppd run where connect calls them.
TypeOK ==
  /\ at \in States /\ DOMAIN cfg = Keys
  /\ cancelled \in BOOLEAN /\ attempt \in 1..MaxAttempts /\ proxied \in BOOLEAN
  /\ conn \in Certs \cup {NoConn}
  /\ jar \in Given..MaxAttempts /\ cookie \in Given..MaxAttempts
  /\ saml \in {"none", "listening", "closing"}
  /\ os \in [Pids -> {"free", "pppd", "other"}]
  /\ stuck \cup killed \cup escaped \subseteq {p \in Pids : Live(p)}
  /\ pidfile \in Pids \cup {None, Empty}
  /\ step \in Steps /\ target \in Pids \cup {None} /\ child \in Pids \cup {None}
  /\ gone \subseteq Pids \cap (deferred \cup {child}) /\ deferred \subseteq Pids
  /\ at = "starting" => step \in {"clean", "look", "poll", "launch", "failed", "record", "up"}
  /\ at \in {"abort", "drain"} => step \in {"term", "kill", "closed"}
  /\ at = "session" => step = "up"
  /\ at \notin {"starting", "session", "abort", "drain"} => step = "idle"
  /\ astray \in BOOLEAN

\* The settings in force are those of the defaults, the lines of the file before its
\* first bad value, the argument and the flags, the later of these before the earlier, and
\* lists hold what file and flags say in that order (LoadFile, RunE).  Files with a key
\* nobody knows are left out: README.md:185 calls it a hard error, but main.go:110-111
\* goes on with the lines before it.
EffectiveSettings ==
  input # NoInput /\ (\A i \in DOMAIN input.file : input.file[i].key \in FileKeys)
    => \A k \in Keys : InForce(k, cfg[k], input)

\* The states between the handshake and the end of an attempt in which something
\* secret is on its way, or was.
Secret == {"auth", "askpass", "login", "delay", "push", "askotp", "otp", "redir",
           "callback", "samlid", "index", "alloc", "fetch", "start", "starting",
           "session", "abort", "drain"}

\* Whatever a user said in file or flags, password, one-time password and cookie go
\* only over a connection whose certificate the user waived, pinned or left to X.509,
\* on the second connection as on the first; and the cookie is the one the command
\* line gave or this attempt's gateway issued, never one of a lost session (Dial,
\* VerifyConnectionState, NewClient, connect).  A file with an error in it may lose
\* its pins.
Guarded ==
  at \in Secret =>
    /\ conn # NoConn
    /\ \/ intent.insecure
       \/ conn.digest \in intent.pins
       \/ conn.chain /\ (intent.pins = {} \/ intent.broken)
    /\ {jar, cookie} \subseteq {NoCookie, attempt, Given}
    /\ Given \in {jar, cookie} => cfg["cookie"] # ""

\* A pppd is started only when no other of ours runs unasked: what an earlier attempt or
\* a killed run left behind has exited, was sent SIGKILL, or had lost its place in the
\* PID file (Start, cleanupOrphan, Close).  It loses it in one of five ways only: a
\* crash before the file is written, a failure to write it or to read it, a failure
\* of ps, and the deferred close of an older pppd.
NoOverlap ==
  step = "launch" => \A p \in Pids : Live(p) => p \in killed \cup escaped

\* No process but our pppds is ever sent a signal, whoever has got the PID of one that is
\* gone, before the client looks at it (isOurPPPD, Close).  Between that look and the last
\* signal of cleanupOrphan (pppd_unix.go:185-198) nobody looks again, and the property is
\* silent: OtherStarts gives no PID away that is being polled.
OnlyOurs == ~astray

\* A signal ends the process, whatever it is busy with (main, connect, Close).
SignalEnds == cancelled ~> at = "off"
=============================================================================
