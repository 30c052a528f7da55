---------------------------- MODULE MCWebSocket ----------------------------
(***************************************************************************)
(* Five clients behind a proxy, one of them without the proxy's header.    *)
(* Two share an address and ask for sockets, of which one sends messages.  *)
(***************************************************************************)
EXTENDS WebSocket

CONSTANTS c1, c2, c3, c4, c5, ip1, ip2, ip3, unknown, missing

ForwardedOf ==
  [c \in {c1, c2, c3, c4, c5} |->
     CASE c \in {c1, c2} -> ip1 [] c = c3 -> ip2 [] c = c4 -> ip3 [] OTHER -> missing]
RealIpOf == [c \in {c1, c2, c3, c4, c5} |-> missing]
MCMaxMessages == [c \in {c1, c2} |-> IF c = c1 THEN 3 ELSE 0]
=============================================================================
