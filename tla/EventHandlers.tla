--------------------------- MODULE EventHandlers ---------------------------
(***************************************************************************)
(* Subscriptions: defineEventHandler(table) with use(), on() and build()   *)
(* (events/handler.ts), app.on() and app.events(), and what                *)
(* InMemoryEventBus makes of an event.  The builders that come from one    *)
(* defineEventHandler() share its Map of handlers, and each has services   *)
(* of its own.  Loggers and payloads are left out.                         *)
(***************************************************************************)
EXTENDS Naturals, Sequences, SequencesExt, TLC

\* handlers: the entries of the shared Map; services: of each builder.
NewBuilder(id) == [handlers |-> <<>>, services |-> (id :> <<>>)]

Use(defs, builder, id, service) ==
  [defs EXCEPT !.services = @ @@ (id :> Append(defs.services[builder], service))]

\* Map.set: an event that has a handler gets another one, at its old place.
AddHandler(defs, event, handler) ==
  LET entry == [event |-> event, handler |-> handler]
      at == {i \in 1 .. Len(defs.handlers) : defs.handlers[i].event = event}
  IN [defs EXCEPT !.handlers = IF at = {} THEN Append(@, entry)
                               ELSE [i \in 1 .. Len(@) |-> IF i \in at THEN entry ELSE @[i]]]

Build(defs, builder) == [handlers |-> defs.handlers, services |-> defs.services[builder]]

-----------------------------------------------------------------------------
(* The bus: its listeners in the order they were added *)

\* app.on(): the handler itself.
Listen(bus, event, handler) ==
  Append(bus, [event |-> event, handler |-> handler, services |-> <<>>, guarded |-> FALSE])

\* app.events(): each handler in a function that catches what it throws.
Events(bus, def) ==
  bus \o [i \in 1 .. Len(def.handlers) |->
            [event |-> def.handlers[i].event, handler |-> def.handlers[i].handler,
             services |-> def.services, guarded |-> TRUE]]

\* Services are made for each event, if there is an adapter; when that fails
\* the handler is not called.
Deliver(listener, world) ==
  LET made == IF world.adapter THEN ToSet(listener.services) ELSE {}
  IN [handler |-> listener.handler,
      called  |-> made \cap world.broken = {},
      given   |-> made,
      throws  |-> ~listener.guarded /\ listener.handler \in world.failing]

Addressed(bus, event) == SelectSeq(bus, LAMBDA l : l.event = event)

\* _emit: what a listener throws goes to onError.
Emit(bus, event, world) ==
  LET to == Addressed(bus, event)
  IN [i \in 1 .. Len(to) |-> Deliver(to[i], world)]

=============================================================================
