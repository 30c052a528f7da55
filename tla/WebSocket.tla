------------------------------ MODULE WebSocket ------------------------------
(***************************************************************************)
(* WebSocket connections: handleUpgrade() and getWebsocketConfig() of      *)
(* packages/ws/src/adapter.ts, behind fetch() with a rateLimitPlugin as    *)
(* its onRequest hook.                                                     *)
(*                                                                         *)
(* An upgrade awaits the request() of every plugin, then asks Bun for the  *)
(* socket.  Handlers are started and never awaited, so what becomes of     *)
(* them changes nothing here.  Each connection has a limit of its own.     *)
(***************************************************************************)
EXTENDS RateLimit

CONSTANTS
  Sockets,       \* clients that ask for an upgrade
  NumWsPlugins,  \* plugins of the application and of the route's module
  MsgLimit,      \* _rateLimitMax
  MsgWindow,     \* _rateLimitWindowMs, in ticks
  HasSchema,     \* the route has a messageSchema
  MaxMessages    \* bound: messages of each connection

ASSUME WsAssumption ==
  /\ Sockets \subseteq Clients
  /\ NumWsPlugins \in Nat /\ MsgLimit \in Nat /\ MsgWindow \in Nat \ {0}
  /\ HasSchema \in BOOLEAN /\ MaxMessages \in [Sockets -> Nat]

VARIABLES
  conn,      \* of each client: its state
  chain,     \* plugins whose request() has resolved
  limiter,   \* _rateLimitMap: count and resetAt, resetAt 0 when there is no entry
  received,  \* history: when messages arrived
  handled,   \* history: when message handlers were started
  reply,     \* history: what became of the last message
  ticket     \* history: which pass of its key its upgrade request was, or 0

wsVars == <<conn, chain, limiter, received, handled, reply, ticket>>
vars   == <<now, rateVars, wsVars>>

Kinds   == {"valid", "invalid", "noJson", "binary"}
Replies == {"none", "handled", "RATE_LIMITED", "WS_PARSE_ERROR", "VALIDATION_ERROR"}
NoState == [count |-> 0, resetAt |-> 0]

TypeOK ==
  /\ RateTypeOK
  /\ conn \in [Sockets -> {"none", "plugins", "upgrade", "open", "closed", "failed"}]
  /\ chain \in [Sockets -> 0 .. NumWsPlugins]
  /\ limiter \in [Sockets -> [count : Nat, resetAt : 0 .. MaxTime + MsgWindow]]
  /\ received \in [Sockets -> Seq(0 .. MaxTime)] /\ handled \in [Sockets -> Seq(0 .. MaxTime)]
  /\ \A c \in Sockets : Len(handled[c]) <= Len(received[c]) /\ Len(received[c]) <= MaxMessages[c]
  /\ reply \in [Sockets -> Replies] /\ ticket \in [Sockets -> Nat]

Init ==
  /\ RateInit
  /\ conn = [c \in Sockets |-> "none"] /\ chain = [c \in Sockets |-> 0]
  /\ limiter = [c \in Sockets |-> NoState]
  /\ received = [c \in Sockets |-> <<>>] /\ handled = [c \in Sockets |-> <<>>]
  /\ reply = [c \in Sockets |-> "none"] /\ ticket = [c \in Sockets |-> 0]

Goto(c, state) == conn' = [conn EXCEPT ![c] = state]

-----------------------------------------------------------------------------
(* The upgrade *)

\* A plain request, or one with an Upgrade header.  If the hook answers there
\* is no upgrade.
HttpRequest(c) == Request(c) /\ UNCHANGED wsVars

\* The pass, if the limiter has just counted one.
TakeTicket(c) ==
  ticket' = [ticket EXCEPT ![c] = IF passes' = passes THEN 0 ELSE Len(passes'[KeyOf(c)])]

AfterHook == IF NumWsPlugins = 0 THEN "upgrade" ELSE "plugins"

\* Mutant of UpgradeRequest: the answer of the hook is not looked at.
UpgradeAnyway(c) ==
  /\ conn[c] = "none"
  /\ Request(c) /\ TakeTicket(c)
  /\ Goto(c, AfterHook)
  /\ UNCHANGED <<chain, limiter, received, handled, reply>>

UpgradeRequest(c) ==
  /\ conn[c] = "none"
  /\ Request(c) /\ TakeTicket(c)
  /\ Goto(c, IF last'.verdict = "pass" THEN AfterHook ELSE "failed")
  /\ UNCHANGED <<chain, limiter, received, handled, reply>>

PluginResolves(c) ==
  /\ conn[c] = "plugins"
  /\ chain' = [chain EXCEPT ![c] = @ + 1]
  /\ IF chain'[c] = NumWsPlugins THEN Goto(c, "upgrade") ELSE UNCHANGED conn
  /\ UNCHANGED <<now, rateVars, limiter, received, handled, reply, ticket>>

\* The error becomes the response of the upgrade request.
PluginThrows(c) ==
  /\ conn[c] = "plugins"
  /\ Goto(c, "failed")
  /\ UNCHANGED <<now, rateVars, chain, limiter, received, handled, reply, ticket>>

\* server.upgrade() succeeds, and Bun calls open; or it does not (426), for one
\* because the client has gone in the meantime.
Upgrade(c) ==
  /\ conn[c] = "upgrade"
  /\ Goto(c, "open")
  /\ UNCHANGED <<now, rateVars, chain, limiter, received, handled, reply, ticket>>

UpgradeFails(c) ==
  /\ conn[c] = "upgrade"
  /\ Goto(c, "failed")
  /\ UNCHANGED <<now, rateVars, chain, limiter, received, handled, reply, ticket>>

-----------------------------------------------------------------------------
(* The connection *)

TallyAgain(c) ==
  IF now < limiter[c].resetAt /\ limiter[c].count < MsgLimit
  THEN [limiter[c] EXCEPT !.count = @ + 1]
  ELSE [count |-> 1, resetAt |-> now + MsgWindow]

\* The limiter with one more message.
Tally(c) ==
  IF now < limiter[c].resetAt
  THEN [limiter[c] EXCEPT !.count = @ + 1]
  ELSE [count |-> 1, resetAt |-> now + MsgWindow]

\* Only a message that finds an open window is compared with the limit.
Limited(c) == now < limiter[c].resetAt /\ Tally(c).count > MsgLimit

\* The two gates of a route with a schema.
Outcome(kind) ==
  CASE ~HasSchema \/ kind = "valid" -> "handled"
    [] HasSchema /\ kind \in {"noJson", "binary"} -> "WS_PARSE_ERROR"
    [] OTHER -> "VALIDATION_ERROR"

Message(c, kind) ==
  /\ conn[c] = "open" /\ Len(received[c]) < MaxMessages[c]
  /\ received' = [received EXCEPT ![c] = Append(@, now)]
  /\ limiter' = [limiter EXCEPT ![c] = Tally(c)]
  /\ LET out == IF Limited(c) THEN "RATE_LIMITED" ELSE Outcome(kind) IN
       /\ reply' = [reply EXCEPT ![c] = out]
       /\ handled' = IF out = "handled" THEN [handled EXCEPT ![c] = Append(@, now)] ELSE handled
  /\ UNCHANGED <<now, rateVars, conn, chain, ticket>>

\* Either side closes: the close handler starts, whatever handlers have
\* not settled yet.
CloseSocket(c) ==
  /\ conn[c] = "open"
  /\ Goto(c, "closed")
  /\ UNCHANGED <<now, rateVars, chain, limiter, received, handled, reply, ticket>>

Tick == now < MaxTime /\ now' = now + 1 /\ UNCHANGED <<rateVars, wsVars>>

-----------------------------------------------------------------------------
UpgradeStep(c) == PluginResolves(c) \/ PluginThrows(c) \/ Upgrade(c) \/ UpgradeFails(c)

Next ==
  \/ \E c \in Clients : HttpRequest(c)
  \/ \E c \in Sockets :
       \/ UpgradeRequest(c) \/ UpgradeStep(c)
       \/ CloseSocket(c)
       \/ \E kind \in Kinds : Message(c, kind)
  \/ \E k \in Keys : Reset(k) /\ UNCHANGED wsVars
  \/ Tick

Spec == Init /\ [][Next]_vars

-----------------------------------------------------------------------------
(* Properties *)

\* In no interval as long as the window are more than twice as many messages of
\* a connection handled as the limit allows (a limit of 0 still lets one pass).
AtMostTwiceTheMessages ==
  \A c \in Sockets, t \in 0 .. MaxTime :
    Within(handled[c], t, t + MsgWindow - 1) <= 2 * (IF MsgLimit = 0 THEN 1 ELSE MsgLimit)

\* A message is only turned away if as many as the limit allows have arrived
\* within the last window.
TurnedAwayWhenBusy ==
  [][\A c \in Sockets :
       received'[c] # received[c] /\ reply'[c] = "RATE_LIMITED" =>
         Within(received[c], now - MsgWindow + 1, now) >= MsgLimit]_vars

\* Types, and the most that any of the limits lets through or keeps.
LimitsHold == TypeOK /\ AtMostTwiceTheLimit /\ CapHolds /\ AtMostTwiceTheMessages

\* Who is refused or forgotten had to be, in both limiters.
RefusalsAreFair == RefusalsAreJustified /\ RefusedUntilReset /\ ExpiredGoFirst /\ TurnedAwayWhenBusy

\* A socket opens only behind all plugins, and its own upgrade request is one
\* of those the rate limiter has let pass and counted for its key; no two
\* sockets open on the same pass.
OpenedBehindPlugins ==
  LET Opened == {c \in Sockets : conn[c] \in {"open", "closed"}} IN
  /\ \A c \in Opened : chain[c] = NumWsPlugins /\ KeyOf(c) # Missing /\ ticket[c] \in DOMAIN passes[KeyOf(c)]
  /\ \A c, d \in Opened : KeyOf(c) = KeyOf(d) /\ ticket[c] = ticket[d] => c = d

\* docs/plugins/05-ws-plugin.md:119 "Clients exceeding the limit have their
\* connection closed automatically."  (They get an error message each time.)
ExceedingCloses ==
  [][\A c \in Sockets : reply'[c] = "RATE_LIMITED" => conn'[c] # "open"]_vars
=============================================================================
