------------------------------ MODULE MCTunnel ------------------------------
(* Small instances of Tunnel.                                              *)
EXTENDS Tunnel, TLC

Cfg(routes, dns, half, rconf, persistent) ==
  [SetRoutes |-> routes, SetDNS |-> dns, HalfInternetRoutes |-> half,
   UseResolvconf |-> rconf, Persistent |-> persistent]

\* Full tunnel with reconnection, resolv.conf edited in place; /1 routes, once, with
\* resolvconf.
MCConfigs == {Cfg(TRUE, TRUE, FALSE, FALSE, TRUE), Cfg(TRUE, TRUE, TRUE, TRUE, FALSE)}
\* Every kind of setup, without reconnection.
OneShot == {Cfg(r, d, h, FALSE, FALSE) : r \in BOOLEAN, d \in BOOLEAN, h \in BOOLEAN}
\* --persistent
Forever == {Cfg(TRUE, TRUE, FALSE, FALSE, TRUE)}

Reply(ip, ns, split) == [ip |-> ip, ns |-> ns, split |-> split]

CONSTANTS ip1, s1, n1, n2
\* Full tunnel, and split tunnel with an address the client cannot parse.
MCReplies    == {Reply(ip1, <<s1>>, {}), Reply(None, << >>, {n1})}
FullReplies  == {Reply(ip1, <<s1>>, {})}
SplitReplies == {Reply(ip1, <<s1>>, {n1}), Reply(ip1, <<s1>>, {n2})}
UplinkSymmetry == Permutations(Uplinks)
=============================================================================
