----------------------------- MODULE MCFramePath -----------------------------
(* A small instance of FramePath: port 0 drops, the others have an ACL, as *)
(* in dpcommon.c.                                                          *)
EXTENDS FramePath

CONSTANT m1
MCMatch == {m1}
MCPort    == 0 .. 2
MCPortAct == [p \in Port |-> IF p = 0 THEN {"DROP"} ELSE {"ACL"}]

Of(ether, proto, frag) == [ether |-> ether, proto |-> proto, frag |-> frag]
MCFrameIn == {Of("ipv4", "tcp", FALSE), Of("ipv4", "icmp", TRUE),
              Of("ipv6", "other", FALSE), Of("vlan", "other", FALSE)}

=============================================================================
