----------------------------- MODULE MCIngress ------------------------------
(* Small instances of the edge: the routing table it serves with, and the   *)
(* requests it serves.  A behaviour is of one of the two: the table is built*)
(* before the first request and never changes.                              *)
(*                                                                          *)
(* d1 carries both keys and is signed with s1; d2 carries none.  The        *)
(* operators' call is made when one subscription of the provider is there,  *)
(* beside another provider's, or three share the workspace of d1, two of    *)
(* them the secret; for the race, when two could own d1.  It replaces the   *)
(* secret of one, moves one from a registration id to the workspace, or     *)
(* adds one, under an id another row may have.                              *)
EXTENDS Ingress, Routing, TLC

CONSTANTS d1, d2    \* the deliveries

VARIABLE part

Sub(id, workspace, external, secret) ==
    [id |-> id, workspace |-> workspace, external |-> external, secret |-> secret]

L1 == <<"t1", "clickup", "list">>
L2 == <<"t2", "clickup", "list">>
T2 == <<"t2", "clickup", "team">>
G1 == <<"t1", "graph", "list">>
MCSlots == {L1, L2, T2, G1}

MCRegistrations == {
    [slot |-> L1, row |-> Sub(1, "", "e", "s2")],
    [slot |-> L1, row |-> Sub(2, "w", "", "s1")],
    [slot |-> L2, row |-> Sub(2, "w", "", "s2")],
    [slot |-> T2, row |-> Sub(3, "w", "e", "s1")]}

Alone == [[s \in MCSlots |-> NoSubscription]
             EXCEPT ![L1] = Sub(1, "", "e", "s1"), ![G1] = Sub(4, "w", "", "s1")]
Two == [Alone EXCEPT ![T2] = Sub(3, "w", "e", "s1")]
Three == [Alone EXCEPT ![L1] = Sub(1, "w", "", "s1"), ![L2] = Sub(2, "w", "", "s2"),
                       ![T2] = Sub(3, "w", "", "s1")]
MCBefore == {Alone, Three}
RaceBefore == {Two}

MCKeys == d1 :> [workspace |-> "w", subscription |-> "e"]
          @@ d2 :> [workspace |-> "", subscription |-> ""]
MCSignedWith == d1 :> {"s1"} @@ d2 :> {}
MCProviderOf == d1 :> "clickup" @@ d2 :> "clickup"
MCIds == 1..4
MCStrings == {"", "w", "e", "s1", "s2"}
MCOrderingKeys == {<<"clickup", id>> : id \in MCIds}

-----------------------------------------------------------------------------
(* Routes of every kind: subtrees, the end of a path, a rest, wildcards, and*)
(* the two escapes, of a letter of the edge's prefix and of a brace.        *)
Route(method, path) == [method |-> method, path |-> path]

MCWiring == {
    Route("GET", <<"a", "">>), Route("", <<"a", "">>), Route("POST", <<"a", "{$}">>),
    Route("POST", <<"a", "{rest...}">>), Route("GET", <<"a", "{x}", "">>),
    Route("POST", <<"a", "{x}", "">>), Route("POST", <<"{x}", "{$}">>),
    Route("GET", <<"a">>), Route("", <<"a", "b">>), Route("GET", <<"{x}">>),
    Route("GET", <<"{x}", "b">>), Route("POST", <<"{x}", "b">>),
    Route("GET", <<"">>), Route("POST", <<"">>), Route("POST", <<"ingress">>),
    Route("POST", <<"ingress", "b">>), Route("POST", <<"%ingress", "b">>),
    Route("POST", <<"a", "%{x}">>), Route("", <<"..", "a">>)}

Kind(kind, text) == [kind |-> kind, text |-> text]

MCStoredAs ==
    [s \in {"a", "b", "ingress", ".."} |-> Kind("text", s)]
    @@ "%ingress" :> Kind("text", "ingress") @@ "%{x}" :> Kind("text", "{x}")
    @@ "{$}" :> Kind("text", "")
    @@ [s \in {"{x}", "{provider}"} |-> Kind("one", "")]
    @@ [s \in {"", "{rest...}"} |-> Kind("rest", "")]

(* Texts no route has, the text of a wildcard, and one path.Clean removes.  *)
Texts == {"a", "b", "ingress", "z", "{x}", ".."}

MCPaths ==
    {<<s>> : s \in Texts \cup {""}}
    \cup {<<s, t>> : s \in Texts, t \in Texts \cup {""}}
    \cup {<<s, t, u>> : s \in Texts, t \in Texts, u \in {"b", ""}}

-----------------------------------------------------------------------------

MCInit ==
    \/ part = "requests" /\ IngressInit /\ RoutingInit /\ offered = {}
    \/ /\ part = "routes" /\ RoutingInit
       /\ HubInit /\ subscriptions = Alone
       /\ settled = Deliveries /\ server = "up"

MCNext ==
    \/ part = "requests" /\ IngressNext /\ UNCHANGED <<part, routingVars>>
    \/ part = "routes" /\ RoutingNext /\ UNCHANGED <<part, ingressVars>>

MCSpec == MCInit /\ [][MCNext]_<<part, ingressVars, routingVars>>

FairMCSpec == MCSpec /\ IngressFairness

=============================================================================
