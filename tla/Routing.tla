------------------------------ MODULE Routing -------------------------------
(***************************************************************************)
(* The routing table of the edge (Route, newMux and canonicalPathOnly in   *)
(* internal/ingress/ingress.go).  net/http's ServeMux answers a path by    *)
(* itself with a redirect, to the cleaned path or to the path and a slash, *)
(* and a redirected delivery fails its signature.  New refuses the first   *)
(* kind in front of the mux; for the second it builds the table, asks it   *)
(* which paths it redirects, and adds a route of its own, a guard, that    *)
(* answers 404 for each.                                                   *)
(*                                                                         *)
(* A path is the sequence of its segments, "" last for a trailing slash.   *)
(* A pattern holds segments as they are written; StoredAs is what net/http *)
(* makes of one: it matches its text, any one segment, or all that follow. *)
(* Hosts, CONNECT, and the spelling rules a route breaks by itself (a nil  *)
(* handler, a space, a lower case method) are left out.                    *)
(***************************************************************************)
EXTENDS Integers, Sequences, FiniteSets

CONSTANTS
    Wiring,     \* the routes callers ask for: [method, path]
    MaxWiring,  \* bound: how many of them at once
    Paths,      \* the paths requests have, and a slash behind each
    StoredAs,   \* [segment -> [kind : {"text", "one", "rest"}, text]]
    Escaped,    \* the segments that are written with a percent-escape
    Dots        \* the segments path.Clean takes away

ASSUME RoutingAssumption == MaxWiring \in Nat /\ Wiring # {}

VARIABLES
    offered,    \* Options.Routes
    stage,      \* how far newMux is
    table,      \* the patterns registered
    todo        \* the routes whose root has not been asked about

routingVars == <<offered, stage, table, todo>>

edge == [method |-> "POST", path |-> <<"ingress", "{provider}">>]

NoRoute == [method |-> "", path |-> <<>>]

Last(path) == path[Len(path)]

(* Mutated form: only a trailing slash is known to have a root.             *)
redirectRootMutant(path) ==
    IF Len(path) <= 1 \/ Last(path) # "" THEN <<>> ELSE SubSeq(path, 1, Len(path) - 1)

(* The one path from which there could be a redirect to the pattern.        *)
redirectRoot(path) == IF Len(path) <= 1 THEN <<>> ELSE SubSeq(path, 1, Len(path) - 1)

-----------------------------------------------------------------------------
(* net/http.ServeMux *)

Methods == {"", "GET", "HEAD", "POST"}

MethodsOf == [method \in Methods |->
    CASE method = ""    -> Methods
      [] method = "GET" -> {"GET", "HEAD"}
      [] OTHER          -> {method}]

(* A wildcard is never the empty segment behind a trailing slash.           *)
SegmentMatches(segment, text) ==
    CASE StoredAs[segment].kind = "text" -> text = StoredAs[segment].text
      [] StoredAs[segment].kind = "one"  -> text # ""
      [] OTHER                           -> TRUE

(* What parsePattern lets through, and makes of it.  Only the end of a      *)
(* pattern is or matches a trailing slash, and a text is stored as it is    *)
(* written, but for an escape and for {$}, whose text is empty.             *)
ASSUME SpellingAssumption ==
    /\ \A r \in Wiring :
          /\ r.method \in Methods /\ r.path \in Seq(DOMAIN StoredAs) /\ r.path # <<>>
          /\ \A i \in 1..(Len(r.path) - 1) : r.path[i] # "" /\ ~SegmentMatches(r.path[i], "")
    /\ {"ingress", "{provider}"} \subseteq DOMAIN StoredAs \ Escaped
    /\ StoredAs["ingress"].kind = "text" /\ StoredAs["ingress"].text = "ingress"
    /\ StoredAs["{provider}"].kind = "one"
    /\ \A segment \in DOMAIN StoredAs \ Escaped :
          StoredAs[segment].kind = "text" => StoredAs[segment].text \in {segment, ""}
    /\ \A segment \in DOMAIN StoredAs \cap Dots :
          StoredAs[segment].kind = "text" /\ StoredAs[segment].text = segment

PathMatches(pattern, path) ==
    /\ IF StoredAs[Last(pattern)].kind = "rest" THEN Len(path) >= Len(pattern)
                                                ELSE Len(path) = Len(pattern)
    /\ \A i \in DOMAIN pattern : SegmentMatches(pattern[i], path[i])

Patterns == {r.path : r \in Wiring \cup {edge}}
               \cup ({redirectRoot(r.path) : r \in Wiring \cup {edge}} \ {<<>>})

PathsOf == [pattern \in Patterns |-> {path \in Paths : PathMatches(pattern, path)}]

(* Paths has what newMux asks about, and is rich enough for net/http's      *)
(* order: it shows where two patterns overlap, that one of every length     *)
(* matches more than one of a single length or of longer ones, and that a   *)
(* wildcard in front does not only match what begins like the edge.         *)
ASSUME PathsAssumption ==
    /\ Paths \subseteq Seq(UNION {{path[i] : i \in DOMAIN path} : path \in Paths}) \ {<<>>}
    /\ \A r \in Wiring \cup {edge} :
          (\A i \in DOMAIN r.path : r.path[i] \notin Escaped)
              => redirectRoot(r.path) \in Paths \cup {<<>>}
    /\ \A r, s \in Patterns, path \in Paths :
          PathMatches(r, Append(path, "")) /\ PathMatches(s, Append(path, ""))
              => PathsOf[r] \cap PathsOf[s] # {}
    /\ \A r, s \in Patterns :
          /\ PathsOf[r] \cap PathsOf[s] # {}
          /\ StoredAs[Last(r)].kind = "rest"
          /\ StoredAs[Last(s)].kind = "rest" => Len(r) < Len(s)
          => ~(PathsOf[r] \subseteq PathsOf[s])
    /\ \A pattern \in Patterns :
          StoredAs[pattern[1]].kind # "text" /\ PathsOf[pattern] # {}
              => \E path \in PathsOf[pattern] : path[1] # "ingress"

(* What a pattern matches is part of, or all of, what another one does.     *)
Within(r, s) == /\ MethodsOf[r.method] \subseteq MethodsOf[s.method]
                /\ PathsOf[r.path] \subseteq PathsOf[s.path]

(* Handle panics on two patterns of which neither is the more specific.     *)
Conflict(r, s) ==
    /\ MethodsOf[r.method] \cap MethodsOf[s.method] # {}
    /\ PathsOf[r.path] \cap PathsOf[s.path] # {}
    /\ Within(r, s) <=> Within(s, r)

(* The most specific pattern that matches.                                  *)
Matched(t, method, path) ==
    LET all == {r \in t : method \in MethodsOf[r.method] /\ PathMatches(r.path, path)} IN
    IF all = {} THEN NoRoute ELSE CHOOSE r \in all : \A s \in all : Within(r, s)

(* exactMatch: not by way of a subtree that begins further up.              *)
Exact(t, method, path) ==
    LET r == Matched(t, method, path) IN
    /\ r # NoRoute
    /\ StoredAs[Last(r.path)].kind = "rest" => Len(path) = Len(r.path) /\ Last(path) = ""

Clean(path) == \A i \in DOMAIN path : path[i] \notin Dots

Redirected(t, method, path) ==
    \/ ~Clean(path)
    \/ /\ Last(path) # "" /\ ~Exact(t, method, path)
       /\ Exact(t, method, Append(path, ""))

-----------------------------------------------------------------------------
(* newMux *)

RoutingInit ==
    /\ offered \in {routes \in SUBSET Wiring : IsFiniteSet(routes) /\ Cardinality(routes) <= MaxWiring}
    /\ stage = "check" /\ table = {} /\ todo = {}

(* Mutated form: a route may be anywhere.                                   *)
checkMutant(r) == \A i \in DOMAIN r.path : r.path[i] \notin Escaped

(* Route.check: no escape, and nothing under the prefix of the edge.        *)
check(r) ==
    /\ \A i \in DOMAIN r.path : r.path[i] \notin Escaped
    /\ ~(Len(r.path) > 1 /\ r.path[1] = "ingress")

(* net/http never matches a pattern with a method and an unclean path.      *)
Unmatchable(r) == r.method # "" /\ ~Clean(r.path)

Check ==
    /\ stage = "check"
    /\ stage' = IF \A r \in offered : check(r) THEN "handle" ELSE "refused"
    /\ UNCHANGED <<offered, table, todo>>

(* Every route is registered, and the mux panics on none.                   *)
Handle ==
    LET all == offered \cup {edge} IN
    /\ stage = "handle"
    /\ IF \/ \E r \in all : Unmatchable(r)
          \/ \E r, s \in all : r # s /\ Conflict(r, s)
       THEN stage' = "refused" /\ UNCHANGED <<table, todo>>
       ELSE stage' = "guard" /\ table' = all /\ todo' = all
    /\ UNCHANGED offered

(* redirects asks about the root as it is written: a wildcard in it is asked*)
(* about as its own text, which stands for every text it matches.           *)
redirects(t, method, root) == root # <<>> /\ Redirected(t, method, root)

Guard(r) == [method |-> r.method, path |-> redirectRoot(r.path)]

(* The edge is asked about first, then the routes in the caller's order.    *)
Turn(r) == stage = "guard" /\ r \in todo /\ (edge \in todo => r = edge)

Needed(r) == redirects(table, r.method, redirectRoot(r.path))

Refuses(g) == Unmatchable(g) \/ \E s \in table : Conflict(g, s)

NoGuard(r) ==
    /\ Turn(r) /\ ~Needed(r)
    /\ todo' = todo \ {r}
    /\ UNCHANGED <<offered, stage, table>>

AddGuard(r) ==
    /\ Turn(r) /\ Needed(r) /\ ~Refuses(Guard(r))
    /\ table' = table \cup {Guard(r)}
    /\ todo' = todo \ {r}
    /\ UNCHANGED <<offered, stage>>

GuardRefused(r) ==
    /\ Turn(r) /\ Needed(r) /\ Refuses(Guard(r))
    /\ stage' = "refused"
    /\ UNCHANGED <<offered, table, todo>>

Return ==
    /\ stage = "guard" /\ todo = {}
    /\ stage' = "served"
    /\ UNCHANGED <<offered, table, todo>>

RoutingNext ==
    \/ Check \/ Handle \/ Return
    \/ \E r \in offered \cup {edge} : NoGuard(r) \/ AddGuard(r) \/ GuardRefused(r)

RoutingSpec == RoutingInit /\ [][RoutingNext]_routingVars

-----------------------------------------------------------------------------
(* Properties *)

Asked == {path \in Paths : Clean(path)}

(* newMux: no request is answered with a redirect, canonicalPathOnly letting*)
(* only clean paths through; and a guard takes a redirect away and nothing  *)
(* else.  A request that the routes answer by themselves, or that nothing   *)
(* answers, gets the answer it would have without the guards.               *)
GuardsAreExact ==
    stage = "served" =>
        LET bare == offered \cup {edge} IN
        \A method \in Methods \ {""}, path \in Asked :
            /\ ~Redirected(table, method, path)
            /\ ~Redirected(bare, method, path) =>
                  Matched(table, method, path) = Matched(bare, method, path)

(* Route.check: whatever routes a caller adds, a delivery posted to a       *)
(* provider's endpoint reaches the edge.                                    *)
EdgeAnswersItsDeliveries ==
    stage = "served" =>
        \A path \in Asked :
            Len(path) = 2 /\ path[1] = "ingress" /\ path[2] # "" =>
                Matched(table, "POST", path) = edge

=============================================================================
