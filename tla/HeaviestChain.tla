--------------------------- MODULE HeaviestChain ---------------------------
(***************************************************************************)
(* What chain.Chain promises its callers about the canonical head, in any  *)
(* consensus mode: the node gathers blocks, parents first, and its head is *)
(* at all times a heaviest of them, where a block weighs what its whole    *)
(* branch does.  The head is left only for a strictly heavier block, so of *)
(* equally heavy branches the one that got there first stays canonical.    *)
(* How the weights are kept, and why a block is turned away, is not said.  *)
(***************************************************************************)
EXTENDS Integers

CONSTANT Genesis

VARIABLES
    parent,    \* the parent of every block that exists
    own,       \* the weight a block contributes
    accepted,  \* the blocks the node has
    head

vars == <<parent, own, accepted, head>>

branchWeight[b \in DOMAIN parent] ==
    IF b = Genesis THEN own[b] ELSE own[b] + branchWeight[parent[b]]

Heaviest(b, acc) == \A c \in acc : branchWeight[c] =< branchWeight[b]

Init == accepted = {Genesis} /\ head = Genesis

Accept(b) ==
    /\ b \notin accepted
    /\ parent[b] \in accepted
    /\ accepted' = accepted \cup {b}
    /\ head' \in accepted'
    /\ Heaviest(head', accepted')
    /\ head' # head => branchWeight[head'] > branchWeight[head]
    /\ UNCHANGED <<parent, own>>

Next == \E b \in DOMAIN parent \ {Genesis} : Accept(b)

Spec == Init /\ [][Next]_vars
=============================================================================
