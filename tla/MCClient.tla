------------------------------ MODULE MCClient ------------------------------
(* Small instances of Client.                                              *)
EXTENDS Client, TLC

MCNumber  == ("0" :> 0) @@ ("5" :> 5) @@ ("443" :> 443) @@ ("8443" :> 8443)
               @@ ("70000" :> 70000)
MCDigests == {"d1", "d2"}

Line(k, v) == [key |-> k, val |-> v]
In(file, arg, flags) == [file |-> file, arg |-> arg, flags |-> flags]
NoFlags == << >>

Alice  == <<Line("host", "gw"), Line("username", "alice"), Line("password", "secret")>>
Again  == <<Line("persistent", "5")>>
Pin(d) == <<Line("trusted-cert", d)>>

\* One line in error of each kind.
BadLines ==
  {Line("port", "0"), Line("port", "70000"), Line("timeout", "0"),
   Line("persistent", "soon"), Line("set-routes", "maybe"), Line("min-tls", "1.4"),
   Line("trusted-cert", "d"), Line("saml-login", "0"), Line("colour", "blue")}

\* Files that repeat keys, all with one outcome.
Files ==
  {Alice \o Again \o Pin("d1"),
   Pin("d1") \o <<Line("set-dns", "no"), Line("set-dns", "1"), Line("host", "old")>>
     \o Alice \o Again,
   Alice \o <<Line("cookie", "old"), Line("persistent", "0")>> \o Again \o Pin("d1")}

\* Files with an error, which lose the pin behind it.
BadFiles ==
  {Alice \o <<Line("no-ftm-push", "yes"), Line("otp", "1"), bad>> \o Pin("d2") :
     bad \in BadLines}

\* Arguments good and bad: those that are good say what the file says.
Arguments == {<< >>, <<"gw", "">>, <<"gw", "443">>, <<"", "443">>, <<"gw", "0">>,
              <<"gw", "70000">>}

MCInputs ==
  {In(f, << >>, NoFlags) : f \in Files}
  \cup {In(f, << >>, ("set-routes" :> TRUE) @@ ("set-dns" :> FALSE) @@ ("otp" :> "2")) :
          f \in BadFiles}
  \cup {In(Alice \o Again \o Pin("d1"), a, NoFlags) : a \in Arguments}
  \cup {In(Alice, a, ("persistent" :> 5) @@ ("trusted-cert" :> <<"d1">>)) : a \in Arguments}
  \cup {In(Pin("d2") \o <<Line("otp-delay", "5")>>, <<"gw", "8443">>,
           ("username" :> "alice") @@ ("trusted-cert" :> <<"d1", "d2">>)),
        In(Alice \o <<Line("insecure-ssl", "yes"), Line("port", "8443")>>, << >>,
           ("cookie" :> "given") @@ ("port" :> 443)),
        In(Alice, << >>, "saml-login" :> 8443),
        In(Alice, << >>, "min-tls" :> "2.0"),
        In(<< >>, <<"gw", "443">>, NoFlags),
        In(Alice, << >>, "trusted-cert" :> <<"d">>)}

MCCerts == {[digest |-> "d1", chain |-> FALSE], [digest |-> "d3", chain |-> TRUE]}

Answer(s, m, c) == [status |-> s, marks |-> m, cookie |-> c]
MCReplies ==
  {Answer(200, {"ret=1"}, "header"), Answer(200, {"ret=1", "redir"}, "no"),
   Answer(200, {"ret=1"}, "body"), Answer(200, {}, "no"),
   Answer(200, {"tokeninfo", "ftm_push"}, "no"), Answer(401, {"tokeninfo"}, "no"),
   Answer(403, {}, "no"), Answer(200, {"permission_denied"}, "no"), Answer(500, {}, "no")}
=============================================================================
