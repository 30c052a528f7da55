----------------------------- MODULE EventOutbox -----------------------------
(***************************************************************************)
(* What the event system of OakBun promises a subscriber, told without     *)
(* hooks, phases or buses (DESIGN.md, "Events (Fire & Forget)"): the       *)
(* events of a request are staged while it runs, published in the order    *)
(* they were staged and never twice, and only if the request committed.    *)
(* RequestPipeline implements this module.                                 *)
(***************************************************************************)
EXTENDS Naturals, Sequences

CONSTANT Requests

VARIABLES
  status,     \* "open", "committed" (the handler answered) or "closed"
  staged,     \* how many events the request has collected
  published,  \* how many of them were published
  log         \* all publications, <<request, n>>, in order

vars == <<status, staged, published, log>>

Init ==
  /\ status = [r \in Requests |-> "open"]
  /\ staged = [r \in Requests |-> 0]
  /\ published = [r \in Requests |-> 0]
  /\ log = <<>>

\* An event is collected; nothing can be added once publication began.
Stage(r) ==
  /\ status[r] # "closed" /\ published[r] = 0
  /\ staged' = [staged EXCEPT ![r] = @ + 1]
  /\ UNCHANGED <<status, published, log>>

\* The handler answers; it may have collected one more event on the way.
Commit(r) ==
  /\ status[r] = "open"
  /\ status' = [status EXCEPT ![r] = "committed"]
  /\ staged' \in {staged, [staged EXCEPT ![r] = @ + 1]}
  /\ UNCHANGED <<published, log>>

\* The next k events are published together.
Publish(r) ==
  /\ status[r] = "committed"
  /\ \E k \in 1 .. (staged[r] - published[r]) :
       /\ log' = log \o [i \in 1 .. k |-> <<r, published[r] + i>>]
       /\ published' = [published EXCEPT ![r] = @ + k]
  /\ UNCHANGED <<status, staged>>

\* A request that failed, or whose bus failed, ends without the rest.
Abandon(r) ==
  /\ status[r] # "closed"
  /\ status[r] = "committed" => published[r] < staged[r]
  /\ status' = [status EXCEPT ![r] = "closed"]
  /\ UNCHANGED <<staged, published, log>>

\* A committed request ends when everything it staged is published.
Finish(r) ==
  /\ status[r] = "committed" /\ published[r] = staged[r]
  /\ status' = [status EXCEPT ![r] = "closed"]
  /\ UNCHANGED <<staged, published, log>>

Next == \E r \in Requests : Stage(r) \/ Commit(r) \/ Publish(r) \/ Abandon(r) \/ Finish(r)

Spec == Init /\ [][Next]_vars
=============================================================================
