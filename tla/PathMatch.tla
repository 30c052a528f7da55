------------------------------ MODULE PathMatch ------------------------------
(***************************************************************************)
(* matchPath() of packages/core/src/app/router.ts, as a function from a    *)
(* pattern and a path to the parameters, or to NoMatch.                    *)
(*                                                                         *)
(* A path is the sequence of its segments behind the leading slash, so "/" *)
(* is << "" >> and "/a/" is << "a", "" >>.  A pattern is a sequence of     *)
(* segments, with a flag for a trailing "/*".                              *)
(***************************************************************************)
EXTENDS Naturals, Sequences, SequencesExt

Literal(text)  == [kind |-> "literal", text |-> text]
Param(name)    == [kind |-> "param", text |-> name]
Optional(name) == [kind |-> "optional", text |-> name]

SegmentsOf(texts) == [kind : {"literal", "param", "optional"}, text : texts]

NoMatch == [matched |-> FALSE]

\* One trailing slash is dropped from a path or a pattern, except from the root.
DropSlash(segments, empty) ==
  IF Len(segments) > 1 /\ Last(segments) = empty THEN Front(segments) ELSE segments

\* Mutant of MatchWildcard: the rest is sliced one segment too late.
MatchWildcardLate(segments, path) ==
  IF /\ Len(path) > Len(segments)
     /\ \A i \in 1 .. Len(segments) : segments[i] = Literal(path[i])
    THEN [matched |-> TRUE, params |-> [rest \in {"*"} |-> SubSeq(path, Len(segments) + 2, Len(path))]]
    ELSE NoMatch

\* A wildcard pattern: the prefix is compared as text, so a parameter in it
\* stands for nothing but its own name; the rest must be there, if only empty.
MatchWildcard(segments, path) ==
  IF /\ Len(path) > Len(segments)
     /\ \A i \in 1 .. Len(segments) : segments[i] = Literal(path[i])
    THEN [matched |-> TRUE, params |-> [rest \in {"*"} |-> SubSeq(path, Len(segments) + 1, Len(path))]]
    ELSE NoMatch

\* A parameter gets a value; the last one of a name counts.
Bind(params, name, value) ==
  [n \in DOMAIN params \cup {name} |-> IF n = name THEN value ELSE params[n]]

\* One segment of the pattern takes one segment of the path; an optional one
\* takes it whenever there is one, and nothing is ever given back.
Consume(m, segment, path) ==
  LET more == m.used < Len(path)
      next == path[m.used + 1]
      take == [m EXCEPT !.used = @ + 1, !.params = Bind(@, segment.text, next)]
  IN CASE segment.kind = "optional" -> IF more THEN take ELSE m
       [] segment.kind = "param"    -> IF more THEN take ELSE [m EXCEPT !.matched = FALSE]
       [] segment.kind = "literal"  ->
            IF more /\ next = segment.text THEN [m EXCEPT !.used = @ + 1]
                                           ELSE [m EXCEPT !.matched = FALSE]

\* All segments of the pattern match, and they use up the path.
MatchSegments(segments, path) ==
  LET after[i \in 0 .. Len(segments)] ==
        IF i = 0 THEN [matched |-> TRUE, used |-> 0, params |-> <<>>]
        ELSE IF after[i - 1].matched THEN Consume(after[i - 1], segments[i], path) ELSE after[i - 1]
      end == after[Len(segments)]
  IN IF end.matched /\ end.used = Len(path)
       THEN [matched |-> TRUE, params |-> end.params]
       ELSE NoMatch

MatchPath(pattern, path) ==
  IF pattern.wildcard
    THEN MatchWildcard(pattern.segments, DropSlash(path, ""))
    ELSE MatchSegments(DropSlash(pattern.segments, Literal("")), DropSlash(path, ""))

-----------------------------------------------------------------------------
(* What a pattern means *)

\* The paths a list of segments stands for: each segment takes one, in order,
\* and only optional ones may be left out.
Fits(segments, path) ==
  \E taker \in [1 .. Len(path) -> 1 .. Len(segments)] :
    /\ \A i, j \in 1 .. Len(path) : i < j => taker[i] < taker[j]
    /\ \A k \in 1 .. Len(segments) :
         segments[k].kind # "optional" => \E i \in 1 .. Len(path) : taker[i] = k
    /\ \A i \in 1 .. Len(path) :
         segments[taker[i]].kind = "literal" => segments[taker[i]].text = path[i]

\* Optional parameters come last, as documented patterns have them.
OptionalsLast(segments) ==
  \A i, j \in 1 .. Len(segments) :
    i < j /\ segments[i].kind = "optional" => segments[j].kind = "optional"

\* What is compared.
Sought(pattern) ==
  IF pattern.wildcard THEN pattern.segments ELSE DropSlash(pattern.segments, Literal(""))
Given(path) == DropSlash(path, "")

-----------------------------------------------------------------------------
(* Properties *)

\* A path that matches a pattern is one the pattern stands for, and with
\* optional parameters only at the end every such path matches.
MatchIsExact(pattern, path) ==
  ~pattern.wildcard =>
    /\ MatchPath(pattern, path).matched => Fits(Sought(pattern), Given(path))
    /\ OptionalsLast(Sought(pattern)) /\ Fits(Sought(pattern), Given(path)) => MatchPath(pattern, path).matched

\* Two parameters of a pattern have two names.
NamesDiffer(segments) ==
  \A i, j \in 1 .. Len(segments) :
    /\ segments[i].kind # "literal" /\ segments[j].kind # "literal"
    /\ segments[i].text = segments[j].text
    => i = j

\* A segment of the pattern with the parameters put in.
Filled(segment, params) == IF segment.kind = "literal" THEN segment.text ELSE params[segment.text]

\* No segment is lost: the parameters put back into the pattern give the path,
\* the rest below a wildcard included (unless two parameters share a name).
ParamsRebuildPath(pattern, path) ==
  LET segments == Sought(pattern)
      result == MatchPath(pattern, path)
  IN result.matched =>
       IF pattern.wildcard
         THEN Given(path) = [i \in 1 .. Len(segments) |-> segments[i].text] \o result.params["*"]
         ELSE NamesDiffer(segments) =>
                Given(path) = [i \in 1 .. Len(Given(path)) |-> Filled(segments[i], result.params)]

\* A trailing slash makes no difference, neither in a request nor in a route
\* (tests/app/router.test.ts).
SlashIsIgnored(pattern, path) ==
  /\ path # <<"">> /\ Last(path) # "" =>
       MatchPath(pattern, Append(path, "")) = MatchPath(pattern, path)
  /\ ~pattern.wildcard /\ pattern.segments # <<Literal("")>> /\ Last(pattern.segments) # Literal("") =>
       MatchPath([pattern EXCEPT !.segments = Append(@, Literal(""))], path) = MatchPath(pattern, path)
=============================================================================
