------------------------------ MODULE MCSinks -------------------------------
(* A small instance of Sinks.  Two documents close a supersede cycle, two   *)
(* have one id and different content, one is of another tenant and one is   *)
(* too large.  Two short documents fit a request and a comma.               *)
EXTENDS Sinks

Doc(id, supersedes, size, content) ==
    [id |-> id, supersedes |-> supersedes, size |-> size, content |-> content]

A1 == Doc("a", "b", 2, 1)       \* a supersedes b, which may not have arrived
A2 == Doc("a", "none", 1, 2)    \* a again, with other content
B1 == Doc("b", "c", 2, 1)
C1 == Doc("c", "a", 1, 1)       \* closes the cycle a, b, c
Alien == Doc("x", "none", 1, 1)
Huge == Doc("h", "none", 9, 1)

MCRecords == {A1, A2, B1, C1, Alien, Huge}
MCIdOf == [r \in MCRecords |-> r.id]
MCSupersedesOf == [r \in MCRecords |-> r.supersedes]
MCSizeOf == [r \in MCRecords |-> r.size]
MCUnsealed == {Alien}
MCBatches == {<<A1, B1, Huge>>, <<C1, Alien, A2>>}

ASSUME SentTogether

=============================================================================
