------------------------------ MODULE MCParts ------------------------------
(* Parts of the server that share no state, each on its own: what one part *)
(* does leaves the others where they start.                                *)
EXTENDS TcpLink, MsgBuffer, TimeCorrector, TaskManager, Dns, Udp, TLC

VARIABLE part

Init ==
  /\ part \in {"link", "buffer", "time", "tasks", "dns", "udp"}
  /\ LinkInit /\ BufInit /\ TimeInit /\ TaskInit /\ DnsInit /\ UdpInit
  /\ part # "udp" => side = "client"

Next ==
  \/ part = "link" /\ LinkNext /\ UNCHANGED <<part, bufVars, timeVars, taskVars, dnsVars, udpVars>>
  \/ part = "buffer" /\ BufNext /\ UNCHANGED <<part, linkVars, timeVars, taskVars, dnsVars, udpVars>>
  \/ part = "time" /\ TimeNext /\ UNCHANGED <<part, linkVars, bufVars, taskVars, dnsVars, udpVars>>
  \/ part = "tasks" /\ TaskNext /\ UNCHANGED <<part, linkVars, bufVars, timeVars, dnsVars, udpVars>>
  \/ part = "dns" /\ DnsNext /\ UNCHANGED <<part, linkVars, bufVars, timeVars, taskVars, udpVars>>
  \/ part = "udp" /\ UdpNext /\ UNCHANGED <<part, linkVars, bufVars, timeVars, taskVars, dnsVars>>

Spec == Init /\ [][Next]_<<part, linkVars, bufVars, timeVars, taskVars, dnsVars, udpVars>>

(* The states of the six parts are what their types say *)
TypeOK == LinkTypeOK /\ BufTypeOK /\ TimeTypeOK /\ TaskTypeOK /\ DnsTypeOK /\ UdpTypeOK

(* TcpLink tells connections apart by their descriptors only *)
Symmetry == Permutations(Conns)

MCAddresses == {{"a"}, {"b"}}
=============================================================================
