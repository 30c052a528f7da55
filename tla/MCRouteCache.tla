---------------------------- MODULE MCRouteCache ----------------------------
(***************************************************************************)
(* A small route table, and all short patterns and paths for matchPath().  *)
(***************************************************************************)
EXTENDS RouteCache

Pattern(segments, wildcard) == [segments |-> segments, wildcard |-> wildcard]

\* /a, /:id and /:id? overlap on some paths, /a/* on others.
SmallPatterns ==
  { Pattern(<<Literal("a")>>, FALSE),
    Pattern(<<Param("id")>>, FALSE),
    Pattern(<<Literal("a"), Optional("id")>>, FALSE),
    Pattern(<<Literal("a")>>, TRUE) }

SmallPaths == { <<"a">>, <<"a", "">>, <<"a", "b">> }
SmallTexts == {"", "a", "b", "id"}
=============================================================================
