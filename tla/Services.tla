------------------------------ MODULE Services ------------------------------
(***************************************************************************)
(* The services and models of a request, a job or an event handler:        *)
(* service/index.ts and model/index.ts.  A definition is an id; defs gives *)
(* its kind, its key and the ids it depends on, in their order.  Two       *)
(* definitions may have the same key.                                      *)
(***************************************************************************)
EXTENDS Naturals, Sequences, SequencesExt, FiniteSets, TLC

Define(kind, key, deps) == [kind |-> kind, key |-> key, deps |-> IF kind = "model" THEN <<>> ELSE deps]

ServiceDeps(defs, id) == SelectSeq(defs[id].deps, LAMBDA d : defs[d].kind = "service")

-----------------------------------------------------------------------------
(* detectCircular *)

\* The first definition of each key that a walk over the services meets.
RECURSIVE CollectAll(_, _, _)
CollectAll(defs, byKey, id) ==
  IF defs[id].key \in DOMAIN byKey THEN byKey
  ELSE FoldLeft(LAMBDA met, d : CollectAll(defs, met, d), byKey @@ (defs[id].key :> id), ServiceDeps(defs, id))

ByKey(defs, services) == FoldLeft(LAMBDA met, id : CollectAll(defs, met, id), <<>>, services)

\* Depth first over keys: 0 unvisited, 1 on the stack, 2 done.
RECURSIVE Visit(_, _, _, _)

\* Mutant of Visit: what is done is taken for what is on the stack.
RECURSIVE VisitForgetful(_, _, _, _)
VisitForgetful(defs, byKey, search, key) ==
  IF search.cycle \/ search.color[key] # 0 THEN [search EXCEPT !.cycle = TRUE]
  ELSE FoldLeft(LAMBDA s, d : VisitForgetful(defs, byKey, s, defs[d].key),
                [search EXCEPT !.color[key] = 1], ServiceDeps(defs, byKey[key]))

Visit(defs, byKey, search, key) ==
  IF search.cycle \/ search.color[key] = 2 THEN search
  ELSE IF search.color[key] = 1 THEN [search EXCEPT !.cycle = TRUE]
  ELSE LET inner == FoldLeft(LAMBDA s, d : Visit(defs, byKey, s, defs[d].key),
                             [search EXCEPT !.color[key] = 1], ServiceDeps(defs, byKey[key]))
       IN IF inner.cycle THEN inner ELSE [inner EXCEPT !.color[key] = 2]

\* Whether detectCircular() throws.
Circular(defs, services) ==
  LET byKey == ByKey(defs, services)
  IN FoldLeft(LAMBDA s, key : Visit(defs, byKey, s, key),
              [color |-> [key \in DOMAIN byKey |-> 0], cycle |-> FALSE], SetToSeq(DOMAIN byKey)).cycle

-----------------------------------------------------------------------------
(* instantiateServices: an instance is the position of its factory's call  *)
(* in made, where the instances the factory was given stand too; made is   *)
(* endless when a definition is entered again while it is being made.      *)

RECURSIVE Instantiate(_, _, _, _)

\* The dependencies first, then the factory.
Make(defs, run, id, stack) ==
  LET deps == FoldLeft(LAMBDA acc, d :
                         LET r == Instantiate(defs, acc.run, d, stack \cup {id})
                         IN IF r.endless THEN [acc EXCEPT !.run = r]
                            ELSE [run |-> r, given |-> (defs[d].key :> r.cache[defs[d].key]) @@ acc.given],
                       [run |-> run, given |-> <<>>], defs[id].deps)
  IN IF deps.run.endless THEN deps.run
     ELSE [deps.run EXCEPT !.made = Append(@, [id |-> id, given |-> deps.given]),
                           !.cache = (defs[id].key :> (Len(deps.run.made) + 1)) @@ @]

Instantiate(defs, run, id, stack) ==
  IF run.endless \/ defs[id].key \in DOMAIN run.cache THEN run
  ELSE IF id \in stack THEN [run EXCEPT !.endless = TRUE]
  ELSE Make(defs, run, id, stack)

InstantiateServices(defs, services) ==
  FoldLeft(LAMBDA run, id : Instantiate(defs, run, id, {}),
           [cache |-> <<>>, made |-> <<>>, endless |-> FALSE], services)

=============================================================================
