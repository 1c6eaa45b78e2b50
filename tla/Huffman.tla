------------------------------- MODULE Huffman -------------------------------
(***************************************************************************)
(* linux_program/inc/huffman.h: frequencies, the heap of subtrees, the     *)
(* Huffman tree, its codes, its description and the tree rebuilt from it.  *)
(*                                                                         *)
(* A node is a record with its subtrees in kids; a heap is the sequence of *)
(* the nodes in use, so C's index i is place i + 1 here.                   *)
(***************************************************************************)
EXTENDS HfcFormat, Letters

Leaf(c, f) == [letter |-> c, frequency |-> f, kids |-> <<>>]

\* Mutant: one subtree is taken twice.
Inner_LeftTwice(l, r, f) == [letter |-> 36, frequency |-> f, kids |-> <<l, l>>]

Inner(l, r, f) == [letter |-> 36, frequency |-> f, kids |-> <<l, r>>]

is_leaf(node) == node.kids = <<>>

-----------------------------------------------------------------------------
(* The heap *)

\* The smallest of a node and its two children; the node itself wins a tie,
\* then the left child.
Smallest(heap, i) ==
    LET Pick(best, j) ==
            IF j <= Len(heap) /\ heap[j].frequency < heap[best].frequency
            THEN j ELSE best
    IN  Pick(Pick(i, 2 * i), 2 * i + 1)

RECURSIVE heapify(_, _)
heapify(heap, i) ==
    LET s == Smallest(heap, i)
    IN  IF s = i THEN heap
        ELSE heapify([heap EXCEPT ![i] = heap[s], ![s] = heap[i]], s)

build_heap(heap) ==
    FoldLeft(heapify, heap, [k \in 1 .. Len(heap) \div 2 |->
                                Len(heap) \div 2 + 1 - k])

\* The heap that pop leaves; what it returns is heap[1].
popped(heap) ==
    IF Len(heap) = 1 THEN <<>>
    ELSE heapify(SubSeq([heap EXCEPT ![1] = heap[Len(heap)]],
                        1, Len(heap) - 1), 1)

\* Parents that are larger move down until the new node has its place; a full
\* heap refuses it.
RECURSIVE SiftUp(_, _, _)
SiftUp(heap, node, i) ==
    IF i > 1 /\ node.frequency < heap[i \div 2].frequency
    THEN SiftUp([heap EXCEPT ![i] = heap[i \div 2]], node, i \div 2)
    ELSE [heap EXCEPT ![i] = node]

push(heap, node) ==
    IF Len(heap) = NLetters THEN heap
    ELSE SiftUp(Append(heap, node), node, Len(heap) + 1)

create_HF_Heap(frequencies) ==
    build_heap([k \in 1 .. NLetters |-> Leaf(data[k], frequencies[k])])

-----------------------------------------------------------------------------
(* The tree *)

\* Mutant: the new node counts as much as its left subtree.
Merge_LeftOnly(heap) ==
    LET l == heap[1]
        r == popped(heap)[1]
    IN  push(popped(popped(heap)), Inner(l, r, l.frequency))

\* One turn of build_HF_Tree: the two smallest subtrees become one.
Merge(heap) ==
    LET l == heap[1]
        r == popped(heap)[1]
    IN  push(popped(popped(heap)), Inner(l, r, l.frequency + r.frequency))

\* The code of each letter below root: 0 for left, 1 for right, root first.
RECURSIVE get_codes(_)
get_codes(root) ==
    IF is_leaf(root) THEN [c \in {root.letter} |-> <<>>]
    ELSE LET left  == get_codes(root.kids[1])
             right == get_codes(root.kids[2])
         IN  [c \in DOMAIN left \cup DOMAIN right |->
                IF c \in DOMAIN left THEN <<0>> \o left[c] ELSE <<1>> \o right[c]]

\* The description: '1' and the letter for a leaf, '0' behind both subtrees.
RECURSIVE HF_tree_to_string(_)
HF_tree_to_string(node) ==
    IF is_leaf(node) THEN <<49, node.letter>>
    ELSE HF_tree_to_string(node.kids[1]) \o HF_tree_to_string(node.kids[2])
           \o <<48>>

\* rebuild_tree with what is left of the description and its stack of nodes.
RECURSIVE Rebuild(_, _)
Rebuild(str, stack) ==
    IF str = <<>> THEN stack[1]
    ELSE IF str[1] = 49
         THEN Rebuild(SubSeq(str, 3, Len(str)), Append(stack, Leaf(str[2], 0)))
         ELSE LET n == Len(stack)
              IN  Rebuild(Tail(str), Append(SubSeq(stack, 1, n - 2),
                                            Inner(stack[n - 1], stack[n], 0)))

\* Mutant: the two nodes on the stack are taken in the order they come off.
rebuild_tree_Swapped(str) ==
    LET root == Rebuild(str, <<>>)
    IN  [root EXCEPT !.kids = <<root.kids[2], root.kids[1]>>]

rebuild_tree(str) == Rebuild(str, <<>>)

-----------------------------------------------------------------------------
(* Texts *)

\* How often each letter occurs in the C string text; characters that are not
\* in the alphabet count in a 57th place that nobody reads.
prepare_frequencies(text) ==
    LET nul == {k \in 1 .. Len(text) : text[k] = 0}
        end == IF nul = {} THEN Len(text) ELSE Min(nul) - 1
    IN  [j \in 1 .. NLetters |->
            Cardinality({k \in 1 .. end : text[k] = data[j]})]
=============================================================================
