------------------------------ MODULE ForkTree ------------------------------
(***************************************************************************)
(* The fork tree of utils/fork-tree/src/lib.rs: values pinned to blocks of *)
(* a chain that forks, each node below the closest pinned ancestor.        *)
(*                                                                         *)
(* A tree is a record: parent maps every node (a block) to the node it is  *)
(* a child of, or to NoNode for a root; best_finalized_number is a number  *)
(* or NoNumber.  The order of siblings, which `rebalance` keeps by depth,  *)
(* is left out: WellFormed says that no two siblings are on one chain, so  *)
(* a search that stops at the first match has at most one match.           *)
(***************************************************************************)
EXTENDS Integers, FiniteSets, FiniteSetsExt

CONSTANTS Blocks,      \* the blocks of the chain, all forks included
          Ancestors    \* the blocks strictly below a block

\* What a block tree is: the blocks below a block are totally ordered.
ASSUME BlockTreeAssumption ==
  /\ Ancestors \in [Blocks -> SUBSET Blocks]
  /\ \A b \in Blocks : IsFiniteSet(Ancestors[b]) /\ b \notin Ancestors[b]
  /\ \A b \in Blocks : \A a \in Ancestors[b] : Ancestors[a] \subseteq Ancestors[b]
  /\ \A b \in Blocks : \A a, c \in Ancestors[b] :
        a = c \/ a \in Ancestors[c] \/ c \in Ancestors[a]

NoNode == "no node"
ASSUME NoNodeAssumption == NoNode \notin Blocks
NoNumber == -1

Number(b) == Cardinality(Ancestors[b])

\* The closure every caller passes: strict descent.
is_descendent_of(base, hash) == base \in Ancestors[hash]

AtOrBelow(base, hash) == base = hash \/ is_descendent_of(base, hash)

EmptyTree == [parent |-> <<>>, best_finalized_number |-> NoNumber]

nodes(tree) == DOMAIN tree.parent
children(tree, n) == {c \in nodes(tree) : tree.parent[c] = n}
roots(tree) == children(tree, NoNode)

Deepest(S) == CHOOSE n \in S : \A o \in S : Number(o) <= Number(n)

\* A finalization or an import below the best finalized number is refused.
Reverts(tree, number) == number <= tree.best_finalized_number

\* Mutant: every node becomes a root.
import_as_root(tree, b) ==
  [tree EXCEPT !.parent = [n \in nodes(tree) \cup {b} |-> IF n = b THEN NoNode ELSE tree.parent[n]]]

\* ForkTree::import and Node::import: children are tried before their
\* parent, so that the deepest pinned ancestor takes the node.
import_ok(tree, b) == ~Reverts(tree, Number(b)) /\ b \notin nodes(tree)
import(tree, b) ==
  LET above == {n \in nodes(tree) : is_descendent_of(n, b)}
  IN  [tree EXCEPT !.parent =
         [n \in nodes(tree) \cup {b} |->
            IF n # b THEN tree.parent[n]
            ELSE IF above = {} THEN NoNode ELSE Deepest(above)]]

\* The nodes that survive below a set of roots: their subtrees, which in a
\* WellFormed tree are the nodes above them on the chain.
Under(tree, R) ==
  {n \in nodes(tree) : \E r \in R : AtOrBelow(r, n)}

\* Finalizing past a child of n: the child sits at or under the block.
SkipsChild(tree, n, b) ==
  \E c \in children(tree, n) : Number(c) <= Number(b) /\ is_descendent_of(c, b)

\* Mutant: a root below the block goes although its change is still to come.
compatible_above(r, b) == is_descendent_of(b, r) \/ r = b

\* The roots that finalizing b retains.
Compatible(r, b) == is_descendent_of(b, r) \/ r = b \/ is_descendent_of(r, b)

\* ForkTree::finalize_with_descendent_if: the root that b enacts, if any,
\* is replaced by its children, then the roots that b contradicts go.
\* due holds the nodes for which the predicate of the caller is true.
Enacted(tree, b, due) ==
  {r \in roots(tree) \cap due : AtOrBelow(r, b)}

finalize_ok(tree, b, due) ==
  /\ ~Reverts(tree, Number(b))
  /\ \A r \in Enacted(tree, b, due) : ~SkipsChild(tree, r, b)

finalize_with_descendent_if(tree, b, due) ==
  LET enacted == Enacted(tree, b, due)
      left    == IF enacted = {} THEN roots(tree)
                 ELSE UNION {children(tree, r) : r \in enacted}
      kept    == {r \in left : Compatible(r, b)}
  IN  [tree    |-> [parent |-> [n \in Under(tree, kept) |->
                                  IF n \in kept THEN NoNode ELSE tree.parent[n]],
                    best_finalized_number |-> Number(b)],
       enacted |-> enacted,
       changed |-> enacted # {} \/ kept # left]

\* ForkTree::finalizes_any_with_descendent_if: the node, root or not, that
\* b would enact.
EnactedAnywhere(tree, b, due) ==
  {n \in nodes(tree) \cap due : AtOrBelow(n, b)}

finalizes_any_ok(tree, b, due) ==
  /\ ~Reverts(tree, Number(b))
  /\ \A n \in EnactedAnywhere(tree, b, due) : ~SkipsChild(tree, n, b)

\* What `import` and `finalize_with_descendent_if` keep true of a tree:
\* the parent of a node is its deepest ancestor in the tree.
WellFormed(tree) ==
  \A n \in nodes(tree) :
    LET above == {m \in nodes(tree) : is_descendent_of(m, n)}
    IN  IF above = {} THEN tree.parent[n] = NoNode
        ELSE tree.parent[n] = Deepest(above)
=============================================================================
