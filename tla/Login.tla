------------------------------- MODULE Login --------------------------------
(***************************************************************************)
(* From the name of the gateway to a connection ready to carry packets:    *)
(* the first half of connect, with the dialling and certificate check of   *)
(* internal/tlsconn, the HTTP exchanges of internal/httptunnel and the     *)
(* three ways of internal/auth to get a session cookie.                    *)
(*                                                                         *)
(* A request and its answer are one step.  Of an answer the model keeps    *)
(* what the client looks at: status, marks in the body, cookie.            *)
(***************************************************************************)
EXTENDS Settings

CONSTANTS
  MaxAttempts,   \* bound on the calls of connect
  Certs,         \* certificates a gateway may show: digest, and chain where the
                 \* verification of X.509 succeeds
  Replies        \* answers of the gateway, see ReplyType

Marks    == {"permission_denied", "ret=1", "tokeninfo", "ftm_push", "redir"}
ReplyType == [status: {200, 401, 403, 500}, marks: SUBSET Marks,
              cookie: {"no", "header", "body"}]

ASSUME LoginAssumption ==
  /\ MaxAttempts \in Nat \ {0}
  /\ \A c \in Certs : c.chain \in BOOLEAN /\ c.digest # "none"
  /\ Replies \subseteq ReplyType

VARIABLES
  at,            \* where the main goroutine is
  cfg,           \* the Config in force
  cancelled,     \* the context of Run is done
  attempt,       \* number of the running call of connect
  proxied,       \* a proxy is named in the environment
  conn,          \* certificate behind the open connection, NoConn without one
  jar,           \* Client.cookie
  cookie,        \* the cookie Authenticate returned
  saml           \* the callback server: "none", "listening" or "closing"

NoConn == [digest |-> "none", chain |-> FALSE]
NoCookie == 0          \* the empty text; otherwise the attempt the cookie is from, or
Given == -1            \* the cookie of the command line

loginVars == <<at, cfg, cancelled, attempt, proxied, conn, jar, cookie, saml>>
fixed == <<cfg, cancelled, attempt, proxied>>

-----------------------------------------------------------------------------
(* tlsconn                                                                 *)

IsPinned(c, cert) == \E i \in DOMAIN c["trusted-cert"] : c["trusted-cert"][i] = cert.digest

VerifyConnectionState(c, cert) ==
  \/ c["insecure-ssl"]
  \/ IF c["trusted-cert"] # << >> THEN IsPinned(c, cert) ELSE cert.chain

VerifyCert(c, cert) ==
  c["insecure-ssl"] \/ c["trusted-cert"] = << >> \/ IsPinned(c, cert)

\* connect returns with an error: its connection is closed.
Fail == at' = "failed" /\ conn' = NoConn /\ cookie' = NoCookie

\* LookupIPAddr
Resolve ==
  /\ at = "resolve"
  /\ \/ at' = "dial" /\ UNCHANGED <<conn, cookie>>
     \/ Fail
  /\ UNCHANGED <<fixed, jar, saml>>

\* The TCP connection, to the gateway or to the proxy; it fails, or ends with the
\* timeout or the context.
DialRaw ==
  /\ at = "dial"
  /\ \/ at' = (IF proxied THEN "proxy" ELSE "tls") /\ UNCHANGED <<conn, cookie>>
     \/ Fail
  /\ UNCHANGED <<fixed, jar, saml>>

\* The proxy answers CONNECT; until it does there is neither timeout nor context.
ProxyAnswers ==
  /\ at = "proxy"
  /\ \/ at' = "tls" /\ UNCHANGED <<conn, cookie>>
     \/ Fail
  /\ UNCHANGED <<fixed, jar, saml>>

\* Faulty: the client of an earlier attempt goes on.
HandshakeSameClient ==
  /\ at = "tls"
  /\ \/ \E cert \in Certs :
          /\ VerifyConnectionState(cfg, cert) /\ VerifyCert(cfg, cert)
          /\ conn' = cert
          /\ at' = (IF cookie = NoCookie THEN "auth" ELSE "fetch")
          /\ UNCHANGED <<jar, cookie>>
     \/ Fail /\ UNCHANGED jar
  /\ UNCHANGED <<fixed, saml>>

\* The handshake with its checks, and the client for the connection: a new one without
\* a cookie the first time, with Authenticate's the second.
Handshake ==
  /\ at = "tls"
  /\ \/ \E cert \in Certs :
          /\ VerifyConnectionState(cfg, cert) /\ VerifyCert(cfg, cert)
          /\ conn' = cert
          /\ at' = (IF cookie = NoCookie THEN "auth" ELSE "fetch")
          /\ jar' = cookie
          /\ UNCHANGED cookie
     \/ Fail /\ UNCHANGED jar
  /\ UNCHANGED <<fixed, saml>>

-----------------------------------------------------------------------------
(* httptunnel.Client.Do: the cookie of a header replaces the one there is, *)
(* one in the body does not.                                               *)

JarAfter(r) ==
  IF r.cookie = "header" \/ (r.cookie = "body" /\ jar = NoCookie) THEN attempt ELSE jar

\* On to the next step on the same connection.
GoOn(where) == at' = where /\ UNCHANGED <<conn, cookie>>

\* auth.New, and what precedes the first request
ChooseAuth ==
  /\ at = "auth"
  /\ \/ /\ cfg["cookie"] # ""                               \* CookieAuth
        /\ jar' = Given /\ cookie' = Given /\ at' = "index"
        /\ UNCHANGED <<conn, saml>>
     \/ /\ cfg["cookie"] = "" /\ cfg["saml-login"] # 0      \* SAMLAuth, ServeSAML
        /\ \/ saml = "none" /\ saml' = "listening" /\ GoOn("callback")
           \/ Fail /\ UNCHANGED saml                        \* the port is in use
        /\ UNCHANGED jar
     \/ /\ cfg["cookie"] = "" /\ cfg["saml-login"] = 0      \* PasswordAuth
        /\ GoOn(IF cfg["password"] = Unset THEN "askpass" ELSE "login")
        /\ UNCHANGED <<jar, saml>>
  /\ UNCHANGED fixed

\* ReadPassword and ReadLine: an answer, or an end of input.  Only pinentry looks at
\* the context.
Prompt ==
  /\ at \in {"askpass", "askotp"}
  /\ \/ GoOn(IF at = "askpass" THEN "login" ELSE "otp")
     \/ Fail
  /\ UNCHANGED <<fixed, jar, saml>>

\* cookieOrRedir
Accepted(r) ==
  /\ \/ JarAfter(r) # NoCookie /\ cookie' = JarAfter(r) /\ at' = "index" /\ UNCHANGED conn
     \/ JarAfter(r) = NoCookie /\ "redir" \in r.marks /\ GoOn("redir")
     \/ JarAfter(r) = NoCookie /\ "redir" \notin r.marks /\ Fail

Otp == IF cfg["otp"] = "" THEN "askotp" ELSE "otp"

\* The first step of handle2FA
Challenge(r) ==
  GoOn(IF "ftm_push" \in r.marks /\ ~cfg["no-ftm-push"]
        THEN IF cfg["otp-delay"] # 0 THEN "delay" ELSE "push" ELSE Otp)

\* PasswordAuth.Authenticate
PostPassword ==
  /\ at = "login"
  /\ \/ \E r \in Replies :
          LET denied == "permission_denied" \in r.marks \/ r.status = 403
              in     == r.status = 200 /\ "ret=1" \in r.marks
              more   == r.status = 401 \/ "tokeninfo" \in r.marks
          IN /\ jar' = JarAfter(r)
             /\ \/ denied /\ Fail
                \/ ~denied /\ in /\ Accepted(r)
                \/ ~denied /\ ~in /\ more /\ Challenge(r)
                \/ ~denied /\ ~in /\ ~more /\ Fail
     \/ Fail /\ UNCHANGED jar
  /\ UNCHANGED <<fixed, saml>>

\* otp-delay, which ends with the context, too
PushDelay ==
  /\ at = "delay"
  /\ \/ GoOn("push")
     \/ cancelled /\ Fail
  /\ UNCHANGED <<fixed, jar, saml>>

\* The push; refused, it gives way to the one-time password.
PostPush ==
  /\ at = "push"
  /\ \/ \E r \in Replies :
          /\ jar' = JarAfter(r)
          /\ \/ r.status = 200 /\ Accepted(r)
             \/ r.status # 200 /\ GoOn(Otp)
     \/ Fail /\ UNCHANGED jar
  /\ UNCHANGED <<fixed, saml>>

PostOtp ==
  /\ at = "otp"
  /\ \/ \E r \in Replies :
          /\ jar' = JarAfter(r)
          /\ \/ r.status = 200 /\ Accepted(r)
             \/ r.status # 200 /\ Fail
     \/ Fail /\ UNCHANGED jar
  /\ UNCHANGED <<fixed, saml>>

\* The redirect; its status does not matter.
GetRedir ==
  /\ at = "redir"
  /\ \/ \E r \in Replies :
          /\ jar' = JarAfter(r)
          /\ \/ jar' # NoCookie /\ cookie' = jar' /\ at' = "index" /\ UNCHANGED conn
             \/ jar' = NoCookie /\ Fail
     \/ Fail /\ UNCHANGED jar
  /\ UNCHANGED <<fixed, saml>>

-----------------------------------------------------------------------------
(* SAMLAuth and the callback server                                        *)

\* The browser comes back with an id: the server hands it over and shuts down.
Callback ==
  /\ at = "callback" /\ saml = "listening"
  /\ saml' = "closing" /\ GoOn("samlid")
  /\ UNCHANGED <<fixed, jar>>

\* Faulty: nobody looks at the context.
SamlForever == FALSE /\ UNCHANGED loginVars

SamlCancelled ==
  /\ at = "callback" /\ cancelled
  /\ Fail
  /\ UNCHANGED <<fixed, jar, saml>>

GetAuthId ==
  /\ at = "samlid"
  /\ \/ \E r \in Replies :
          /\ jar' = JarAfter(r)
          /\ \/ /\ r.status = 200 /\ jar' # NoCookie
                /\ cookie' = jar' /\ at' = "index" /\ UNCHANGED conn
             \/ (r.status # 200 \/ jar' = NoCookie) /\ Fail
     \/ Fail /\ UNCHANGED jar
  /\ UNCHANGED <<fixed, saml>>

\* srv.Shutdown, in the goroutine of the callback or the one that waits for the context
ServerShutdown ==
  /\ saml = "closing" \/ (saml = "listening" /\ cancelled)
  /\ saml' = "none"
  /\ UNCHANGED <<at, fixed, conn, jar, cookie>>

-----------------------------------------------------------------------------
(* requestVPNAllocation, the second connection, fetchConfig                *)

GetIndex ==
  /\ at = "index"
  /\ \/ \E r \in Replies : jar' = JarAfter(r) /\ GoOn("alloc")
     \/ Fail /\ UNCHANGED jar
  /\ UNCHANGED <<fixed, saml>>

Allocate ==
  /\ at = "alloc"
  /\ \/ \E r \in Replies :
          /\ jar' = JarAfter(r)
          /\ \/ r.status = 200 /\ at' = "dial" /\ conn' = NoConn /\ UNCHANGED cookie
             \/ r.status # 200 /\ Fail
     \/ Fail /\ UNCHANGED jar
  /\ UNCHANGED <<fixed, saml>>

FetchConfig ==
  /\ at = "fetch"
  /\ \/ \E r \in Replies :
          /\ jar' = JarAfter(r)
          /\ \/ r.status = 200 /\ GoOn("start")
             \/ Fail                              \* the status, or what parseXMLConfig says
     \/ Fail /\ UNCHANGED jar
  /\ UNCHANGED <<fixed, saml>>

\* What comes to an end by itself, or by an answer of the proxy, the gateway or the user.
LoginProgress ==
  \/ Resolve \/ DialRaw \/ ProxyAnswers \/ Handshake
  \/ ChooseAuth \/ Prompt \/ PostPassword \/ PushDelay \/ PostPush \/ PostOtp \/ GetRedir
  \/ SamlCancelled \/ GetAuthId \/ ServerShutdown
  \/ GetIndex \/ Allocate \/ FetchConfig

LoginStep == LoginProgress \/ Callback
=============================================================================
