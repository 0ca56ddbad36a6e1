----------------------------- MODULE MCRuleStore -----------------------------
(* Small instances of ControlModule: one table of each kind together; the  *)
(* tables whose show commands are mixed up; the rest in pairs; and the     *)
(* commands on ports.                                                      *)
EXTENDS ControlModule

CONSTANTS s1, bad, r1

MCMatch == Source \X Rest
MCTable == Protocol \X {4, 6}
MCIpv4Table == Protocol \X {4}
MCAclTable == {<<"tcp", 4>>}
MCUdpTable == {"udp"} \X {4, 6}
MCDcerpcTable == {"dcerpc"} \X {4, 6}
MCWork == {{}, {<<"tcp", 4>>, <<"udp", 4>>, <<"dcerpc", 6>>},
           {<<"gtp", 4>>, <<"gre", 4>>}, {<<"gtp", 6>>, <<"gre", 6>>},
           {<<"http", 6>>, <<"icmp", 6>>}, {<<"http", 4>>, <<"icmp", 4>>},
           {<<"ssl", 4>>, <<"smb", 4>>}, {<<"ssl", 6>>, <<"dns", 6>>},
           {<<"smb", 6>>, <<"dns", 4>>}, {<<"tcp", 6>>, <<"udp", 6>>},
           {<<"ftp", 4>>, <<"ftp", 6>>}, {<<"sctp", 4>>, <<"sctp", 6>>},
           {<<"smtp", 4>>, <<"smtp", 6>>}, {<<"tls", 4>>, <<"tls", 6>>},
           {<<"dcerpc", 4>>}}

=============================================================================
