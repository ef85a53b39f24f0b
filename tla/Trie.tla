-------------------------------- MODULE Trie --------------------------------
(***************************************************************************)
(* The Merkle Patricia trie of trie/trie.go and trie/proof.go.  A node     *)
(* stands for its hash: hashes do not collide, and the node store, which   *)
(* only ever grows, has every node a root leads to.  All paths are of one  *)
(* length (the nibbles of a hash), so that no path ends inside another:    *)
(* the code's branch values are never set and are left out.                *)
(***************************************************************************)
EXTENDS Integers, Sequences, FiniteSets, SequencesExt

CONSTANT Nibble

NoNode == [kind |-> "none"]   \* the zero hash
leafNode(p, value) == [kind |-> "leaf", nibbles |-> p, value |-> value]
extensionNode(p, child) == [kind |-> "extension", nibbles |-> p, child |-> child]
branchNode(children) == [kind |-> "branch", children |-> children]

from(p, i) == SubSeq(p, i, Len(p))
commonPrefixLen(p, q) == Len(LongestCommonPrefix({p, q}))

-----------------------------------------------------------------------------
(* Get: the set of the value found at a path, empty when there is none.    *)
RECURSIVE get(_, _)
(* Mutant: the nibbles of an extension are skipped, not compared.          *)
getSkipping(root, p) ==
    CASE root.kind = "none" -> {}
      [] root.kind = "leaf" -> IF root.nibbles = p THEN {root.value} ELSE {}
      [] root.kind = "extension" -> get(root.child, from(p, Len(root.nibbles) + 1))
      [] root.kind = "branch" -> get(root.children[Head(p)], Tail(p))

get(root, p) ==
    CASE root.kind = "none" -> {}
      [] root.kind = "leaf" -> IF root.nibbles = p THEN {root.value} ELSE {}
      [] root.kind = "extension" ->
           IF IsPrefix(root.nibbles, p) THEN get(root.child, from(p, Len(root.nibbles) + 1)) ELSE {}
      [] root.kind = "branch" -> get(root.children[Head(p)], Tail(p))

(* A branch at which two subtries part, below the prefix they share.       *)
fork(prefix, n1, child1, n2, child2) ==
    LET b == branchNode([n \in Nibble |-> CASE n = n1 -> child1
                                            [] n = n2 -> child2
                                            [] OTHER -> NoNode])
    IN  IF prefix = <<>> THEN b ELSE extensionNode(prefix, b)

putIntoLeaf(nd, p, value) ==
    LET cp == commonPrefixLen(p, nd.nibbles)
    IN  IF nd.nibbles = p THEN leafNode(p, value)
        ELSE fork(SubSeq(p, 1, cp),
                  nd.nibbles[cp + 1], leafNode(from(nd.nibbles, cp + 2), nd.value),
                  p[cp + 1], leafNode(from(p, cp + 2), value))

(* What is left of an extension below the branch that splits it.           *)
restOfExtension(nd, cp) ==
    LET rest == from(nd.nibbles, cp + 2)
    IN  IF rest = <<>> THEN nd.child ELSE extensionNode(rest, nd.child)

RECURSIVE put(_, _, _)
put(root, p, value) ==
    CASE root.kind = "none" -> leafNode(p, value)
      [] root.kind = "leaf" -> putIntoLeaf(root, p, value)
      [] root.kind = "extension" ->
           LET cp == commonPrefixLen(p, root.nibbles)
           IN  IF cp = Len(root.nibbles)
               THEN extensionNode(root.nibbles, put(root.child, from(p, cp + 1), value))
               ELSE fork(SubSeq(p, 1, cp), root.nibbles[cp + 1], restOfExtension(root, cp),
                         p[cp + 1], leafNode(from(p, cp + 2), value))
      [] root.kind = "branch" ->
           [root EXCEPT !.children[Head(p)] = put(@, Tail(p), value)]

(* Mutant: an extension is put above whatever is left.                     *)
mergeIntoExtensionAlways(prefix, child) == extensionNode(prefix, child)

mergeIntoExtensionParent(prefix, child) ==
    CASE child.kind = "leaf" -> leafNode(prefix \o child.nibbles, child.value)
      [] child.kind = "extension" -> extensionNode(prefix \o child.nibbles, child.child)
      [] OTHER -> extensionNode(prefix, child)

collapseBranch(nb) ==
    LET left == {n \in Nibble : nb.children[n] # NoNode}
    IN  CASE left = {} -> NoNode
          [] Cardinality(left) = 1 ->
               LET only == CHOOSE n \in left : TRUE
               IN  mergeIntoExtensionParent(<<only>>, nb.children[only])
          [] OTHER -> nb

RECURSIVE del(_, _)
del(root, p) ==
    CASE root.kind = "none" -> root
      [] root.kind = "leaf" -> IF root.nibbles = p THEN NoNode ELSE root
      [] root.kind = "extension" ->
           IF ~IsPrefix(root.nibbles, p) THEN root
           ELSE LET child == del(root.child, from(p, Len(root.nibbles) + 1))
                IN  CASE child = NoNode -> NoNode
                      [] child = root.child -> root
                      [] OTHER -> mergeIntoExtensionParent(root.nibbles, child)
      [] root.kind = "branch" ->
           LET child == del(root.children[Head(p)], Tail(p))
           IN  IF child = root.children[Head(p)] THEN root
               ELSE collapseBranch([root EXCEPT !.children[Head(p)] = child])

-----------------------------------------------------------------------------
(* GenerateProof: the nodes on the way to a path.                          *)
RECURSIVE genProof(_, _)
(* Mutant: an extension is passed through and left out of the proof.       *)
genProofBranches(root, p) ==
    CASE root.kind = "none" -> <<>>
      [] root.kind = "leaf" -> <<root>>
      [] root.kind = "extension" ->
           IF IsPrefix(root.nibbles, p) THEN genProof(root.child, from(p, Len(root.nibbles) + 1))
           ELSE <<>>
      [] root.kind = "branch" -> <<root>> \o genProof(root.children[Head(p)], Tail(p))

genProof(root, p) ==
    CASE root.kind = "none" -> <<>>
      [] root.kind = "leaf" -> <<root>>
      [] root.kind = "extension" ->
           <<root>> \o (IF IsPrefix(root.nibbles, p)
                        THEN genProof(root.child, from(p, Len(root.nibbles) + 1)) ELSE <<>>)
      [] root.kind = "branch" -> <<root>> \o genProof(root.children[Head(p)], Tail(p))

(* VerifyProof: expected is the hash the node before it named.             *)
RECURSIVE VerifyProof(_, _, _, _)
VerifyProof(expected, p, value, proof) ==
    /\ proof # <<>>
    /\ Head(proof) = expected
    /\ LET nd   == Head(proof)
           rest == Tail(proof)
       IN  CASE nd.kind = "leaf" -> rest = <<>> /\ nd.nibbles = p /\ nd.value = value
             [] nd.kind = "extension" ->
                  /\ IsPrefix(nd.nibbles, p)
                  /\ VerifyProof(nd.child, from(p, Len(nd.nibbles) + 1), value, rest)
             [] nd.kind = "branch" ->
                  VerifyProof(nd.children[Head(p)], Tail(p), value, rest)
=============================================================================
