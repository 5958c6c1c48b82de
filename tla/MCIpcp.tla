------------------------------- MODULE MCIpcp -------------------------------
(* Small instances of Ipcp.                                                *)
EXTENDS Ipcp
CONSTANTS a, b

List(ip, dns1, other) == [ip |-> ip, dns1 |-> dns1, dns2 |-> None, other |-> other]
\* An address; an address and a server; a server alone, for a Nak or a Reject.
MCFeedbacks == {List(a, None, FALSE), List(b, a, FALSE), List(None, a, FALSE)}
MCRequests  == {List(b, None, FALSE), List(b, None, TRUE)}
=============================================================================
