----------------------------- MODULE MCKeyPlan -----------------------------
(* Three nodes that come, go, become masters and lose their endpoint.      *)
EXTENDS KeyPlan

MCHosts == 1 .. 3

\* Node 1 always has an endpoint, node 3 never; node 2 loses its own.
MCNode(h, reachable) ==
  [hostname             |-> h,
   tunnel_address       |-> HostNet(h),
   listen_port          |-> 51820,
   endpoint             |-> IF h = 1 \/ (h = 2 /\ reachable)
                            THEN {[form |-> "host", length |-> 9, clean |-> TRUE, port |-> 51820]}
                            ELSE {},
   dns                  |-> {},
   mtu                  |-> {},
   extra_allowed_ips    |-> IF h = 2 THEN <<[addr |-> 6, len |-> 2], [addr |-> 4, len |-> 2]>>
                            ELSE <<>>,
   persistent_keepalive |-> {}]

MCR2 == [endpoint          |-> [parses |-> TRUE, scheme |-> "https", host |-> {"r2"},
                                userinfo |-> FALSE, query |-> FALSE, fragment |-> FALSE],
         access_key_id     |-> "set",
         secret_access_key |-> "set",
         session_token     |-> {}]

MCTopologies ==
  {[r2_config |-> MCR2,
    nodes     |-> LET s == SetToSortSeq(hosts, <)
                  IN  [i \in DOMAIN s |-> MCNode(s[i], reachable)],
    master    |-> SetToSortSeq(masters, <)] :
     hosts \in SUBSET MCHosts, masters \in {{}, {1}, {1, 2}, {2, 3}},
     reachable \in BOOLEAN}

MCRotateFlags == {<<>>, <<0>>, <<0, 1>>, <<1>>, <<2>>, <<3, 2>>}
=============================================================================
