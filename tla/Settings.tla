------------------------------ MODULE Settings ------------------------------
(***************************************************************************)
(* How the settings of a run come about (internal/config and the command   *)
(* of cmd/openfortivpn): the defaults, then the lines of the configuration *)
(* file until the first one in error, then the argument and the flags, and *)
(* the test whether that is enough to connect.                             *)
(*                                                                         *)
(* A line is a record of key and text; comments and blank lines are left   *)
(* out, and a line without "=" is one whose key is unknown.  A setting of  *)
(* the command line goes by the key of the file it corresponds to.         *)
(***************************************************************************)
EXTENDS Integers, Sequences

CONSTANTS
  Number,      \* the texts that are decimal numbers of 32 bits, with their values
  Digests      \* the texts that are SHA-256 digests, 64 hexadecimal digits

ASSUME SettingsAssumption ==
  /\ Number \in [DOMAIN Number -> Nat]

TextKeys == {"host", "username", "password", "otp", "otp-prompt", "pinentry", "realm",
             "sni", "pppd-log", "pppd-plugin", "pppd-ipparam", "pppd-ifname",
             "pppd-call", "ppp-system", "ca-file", "user-cert", "user-key",
             "pem-passphrase", "cipher-list", "user-agent", "hostcheck",
             "check-virtual-desktop"}
BoolKeys == {"no-ftm-push", "set-routes", "set-dns", "half-internet-routes",
             "use-syslog", "use-resolvconf", "pppd-use-peerdns",
             "pppd-accept-remote", "insecure-ssl", "seclevel-1"}
PortKeys    == {"port", "saml-login"}
NumberKeys  == PortKeys \cup {"timeout", "otp-delay", "persistent"}
ListKeys    == {"pppd-extra-arg", "trusted-cert"}
IgnoredKeys == {"cookie", "cookie-on-stdin"}
FlagOnlyKeys == {"cookie", "ifname"}

Keys == TextKeys \cup BoolKeys \cup NumberKeys \cup ListKeys \cup FlagOnlyKeys
          \cup {"min-tls"}
\* The keys a configuration file may have.
FileKeys == (Keys \ FlagOnlyKeys) \cup IgnoredKeys

Yes == {"1", "true", "yes"}
No  == {"0", "false", "no"}
Versions == {"1.0", "1.1", "1.2", "1.3"}
Unset == "unset"               \* PasswordSet is false

\* What a file and a command line may look like.
LineType == [key : STRING, val : STRING]
IsInput(in) ==
  /\ in.file \in Seq(LineType)
  /\ in.arg = << >> \/ in.arg \in STRING \X STRING
  /\ DOMAIN in.flags \subseteq Keys
  /\ \A k \in ListKeys \cap DOMAIN in.flags : in.flags[k] \in Seq(STRING)

Default(k) ==
  CASE k = "port"                      -> 443
    [] k = "timeout"                   -> 20
    [] k \in NumberKeys \ {"port", "timeout"} -> 0
    [] k \in {"set-routes", "set-dns"} -> TRUE
    [] k \in BoolKeys \ {"set-routes", "set-dns"} -> FALSE
    [] k \in ListKeys                  -> << >>
    [] k = "min-tls"                   -> "1.2"
    [] k = "password"                  -> Unset
    [] OTHER                           -> ""

Defaults == [k \in Keys |-> Default(k)]

-----------------------------------------------------------------------------
(* The configuration file                                                  *)

\* A port: strconv.ParseUint with 16 bits, and not 0.
Port(text) == text \in DOMAIN Number /\ Number[text] \in 1..65535

Good(line) ==
  \/ line.key \in TextKeys \cup IgnoredKeys \cup {"pppd-extra-arg"}
  \/ line.key \in BoolKeys /\ line.val \in Yes \cup No
  \/ line.key \in PortKeys /\ Port(line.val)
  \/ line.key = "timeout" /\ line.val \in DOMAIN Number /\ Number[line.val] # 0
  \/ line.key \in {"otp-delay", "persistent"} /\ line.val \in DOMAIN Number
  \/ line.key = "min-tls" /\ line.val \in Versions
  \/ line.key = "trusted-cert" /\ line.val \in Digests

Value(line) ==
  CASE line.key \in BoolKeys   -> line.val \in Yes
    [] line.key \in NumberKeys -> Number[line.val]
    [] OTHER                   -> line.val

ApplyKey(c, line) ==
  CASE line.key \in IgnoredKeys -> c
    [] line.key \in ListKeys    -> [c EXCEPT ![line.key] = Append(@, line.val)]
    [] OTHER                    -> [c EXCEPT ![line.key] = Value(line)]

\* Faulty: goes on behind a line in error.
LoadRest(c, file) ==
  LET after[n \in 0..Len(file)] ==
        IF n = 0 THEN c
        ELSE IF Good(file[n]) THEN ApplyKey(after[n-1], file[n]) ELSE after[n-1]
  IN after[Len(file)]

\* What LoadFile leaves in c; main reports its error and goes on.
LoadFile(c, file) ==
  LET after[n \in 0..Len(file)] ==
        IF n = 0 THEN c
        ELSE IF \A i \in 1..n : Good(file[i]) THEN ApplyKey(after[n-1], file[n])
        ELSE after[n-1]
  IN after[Len(file)]

-----------------------------------------------------------------------------
(* The command line: arg is <<host, port>> (a port of "" where there is    *)
(* none) or << >>, flags a function from the keys that were given.  The    *)
(* flags --no-routes and --no-dns are the keys set-routes and set-dns.     *)

ArgumentOK(arg) == arg # << >> => arg[2] = "" \/ Port(arg[2])

ApplyArgument(c, arg) ==
  IF arg = << >> THEN c
  ELSE [c EXCEPT !["host"] = IF arg[1] # "" THEN arg[1] ELSE @,
                 !["port"] = IF arg[2] # "" THEN Number[arg[2]] ELSE @]

\* What the flags make of setting k, x so far.
Flagged(k, x, flags) ==
  CASE k \notin DOMAIN flags           -> x
    [] k \in DOMAIN flags /\ k \in ListKeys -> x \o flags[k]
    [] k \in DOMAIN flags /\ k \in {"set-routes", "set-dns"} -> x /\ ~flags[k]
    [] OTHER                           -> flags[k]

ApplyFlags(c, flags) == [k \in Keys |-> Flagged(k, c[k], flags)]

Validate(c) ==
  /\ c["host"] # "" /\ c["port"] # 0
  /\ \/ c["cookie"] # "" \/ c["saml-login"] # 0 \/ c["user-cert"] # ""
     \/ c["username"] # ""
  /\ \A i \in DOMAIN c["trusted-cert"] : c["trusted-cert"][i] \in Digests

\* An invalid argument and an invalid --min-tls end the program before Validate does.
Acceptable(input) ==
  /\ ArgumentOK(input.arg)
  /\ "min-tls" \in DOMAIN input.flags => input.flags["min-tls"] \in Versions

Settle(input) ==
  ApplyFlags(ApplyArgument(LoadFile(Defaults, input.file), input.arg), input.flags)

-----------------------------------------------------------------------------
(* What the settings should come to, said without the order of the steps.  *)

\* The lines before the first one in error.
Prefix(file) == {i \in DOMAIN file : \A j \in 1..i : Good(file[j])}
LinesOf(k, file) == {i \in Prefix(file) : file[i].key = k /\ k \notin IgnoredKeys}

FromFile(k, file) ==
  LET lines == LinesOf(k, file)
  IN IF lines = {} THEN Defaults[k]
     ELSE Value(file[CHOOSE i \in lines : \A j \in lines : j <= i])

\* A list holds what the lines of its key say, in their order, and then the flags.
ListInForce(k, v, input) ==
  LET given == IF k \in DOMAIN input.flags THEN input.flags[k] ELSE << >>
      lines == LinesOf(k, input.file)
      n     == Len(v) - Len(given)
  IN /\ n >= 0 /\ SubSeq(v, n + 1, Len(v)) = given
     /\ \E place \in [1..n -> lines] :
          /\ \A i, j \in 1..n : i < j => place[i] < place[j]
          /\ \A i \in 1..n : v[i] = input.file[place[i]].val
          /\ {place[i] : i \in 1..n} = lines

\* The argument before the file.
FromArgument(k, input) ==
  IF k = "host" /\ input.arg # << >> /\ input.arg[1] # "" THEN input.arg[1]
  ELSE IF k = "port" /\ input.arg # << >> /\ input.arg[2] # "" THEN Number[input.arg[2]]
  ELSE FromFile(k, input.file)

Switches == {"set-routes", "set-dns"}       \* a flag can only clear them

InForce(k, v, input) ==
  /\ k \in ListKeys => ListInForce(k, v, input)
  /\ k \in Switches =>
       (v <=> FromFile(k, input.file) /\ ~(k \in DOMAIN input.flags /\ input.flags[k]))
  /\ k \in DOMAIN input.flags \ (ListKeys \cup Switches) => v = input.flags[k]
  /\ k \notin DOMAIN input.flags \cup ListKeys \cup Switches => v = FromArgument(k, input)
=============================================================================
