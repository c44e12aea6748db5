----------------------------- MODULE MCAlgorithms -----------------------------
(***************************************************************************)
(* The algorithms of src/src/dsa on every small input.  A behaviour takes  *)
(* one kind of input and lets it grow, or uses one data structure, an      *)
(* operation at a time.                                                    *)
(***************************************************************************)
EXTENDS StringAlgorithms, GraphAlgorithms

CONSTANTS
    Numbers, MaxLength,      \* elements and length of arrays
    ListNodes,               \* nodes of a linked list
    MaxText, MaxPattern,     \* lengths of strings, over the characters 1 and 2
    MaxItems, Capacity,      \* knapsack
    Width,                   \* bits of an int
    MaxNodes, MaxEdges,      \* graphs
    MaxUnions, MaxUpdates, MaxQueens

VARIABLES kind, input

ASSUME AlgorithmsAssumption ==
    /\ Numbers \subseteq Nat /\ {ListNodes, Width, MaxNodes} \subseteq Nat \ {0}
    /\ {MaxLength, MaxText, MaxPattern, MaxItems, Capacity, MaxEdges, MaxUnions, MaxUpdates, MaxQueens} \subseteq Nat

Words == {<<>>, <<1>>, <<2>>, <<1, 1>>, <<1, 2>>, <<2, 1>>, <<1, 1, 2>>}
Letters == {1, 2}

Init ==
    \/ kind \in {"array", "items", "bits", "weights", "edges"} /\ input = <<>>
    \/ kind = "list" /\ input = [i \in 1 .. ListNodes |-> (i + 1) % (ListNodes + 1)]
    \/ kind = "texts" /\ input = [text |-> <<>>, pattern |-> <<>>]
    \/ kind = "trie" /\ input = Trie
    \/ kind = "forest" /\ input = UnionFind(MaxNodes + 1)
    \/ kind = "tree" /\ \E op \in {"sum", "min"}, n \in 1 .. 5 : input = SegmentTree(op, [i \in 1 .. n |-> i % 3])
    \/ kind = "queens" /\ input = 0
    \/ kind = "mains" /\ input = 0

Appends(S, bound) == Len(input) < bound /\ \E v \in S : input' = Append(input, v)

Grow ==
    \/ kind = "array" /\ Appends(Numbers, MaxLength)
    \/ kind = "items" /\ Appends([weight : 0 .. 2, value : 0 .. 2], MaxItems)
    \/ kind = "bits" /\ Appends(0 .. 2 ^ Width - 1, MaxLength - 1)
    \/ kind = "weights" /\ Appends((0 .. MaxNodes - 1) \X (0 .. MaxNodes - 1) \X {0, 1, 3}, MaxEdges)
    \/ kind = "edges" /\ Appends((0 .. MaxNodes - 1) \X (0 .. MaxNodes - 1), MaxEdges + 1)
    \/ kind = "queens" /\ input < MaxQueens /\ input' = input + 1
    \/ /\ kind = "texts" /\ Len(input.text) < MaxText
       /\ \E c \in Letters : input' = [input EXCEPT !.text = Append(@, c)]
    \/ /\ kind = "texts" /\ Len(input.pattern) < MaxPattern
       /\ \E c \in Letters : input' = [input EXCEPT !.pattern = Append(@, c)]

Use ==
    \/ kind = "list" /\ \E n \in 1 .. ListNodes, to \in 0 .. ListNodes : input' = [input EXCEPT ![n] = to]
    \/ kind = "trie" /\ \E w \in Words : input' = insert(input, w)
    \/ /\ kind = "forest" /\ Len(input.united) < MaxUnions
       /\ \E x, y \in DOMAIN input.parent_ : input' = unite(input, x, y)
    \/ kind = "forest" /\ \E x \in DOMAIN input.parent_ : input' = find(input, x)
    \/ /\ kind = "tree" /\ Sum(input.arr) < MaxUpdates
       /\ \E i \in 0 .. Len(input.arr) - 1 : input' = update(input, i, 1)

Next == (Grow \/ Use) /\ UNCHANGED kind

Spec == Init /\ [][Next]_<<kind, input>>

-----------------------------------------------------------------------------
(* The sorts, two-pointer, window, stack and search algorithms of dsa/merge_sort.cpp,
   strategy.cpp, two_pointers.cpp, sliding_window.cpp, monotonic_stack.cpp and
   binary_search_on_answer.cpp, the dynamic programs, KMP, the trie and the bit tricks
   give the results their definitions by brute force give, and their mains what the
   asserts and the printed expectations say. *)
SequencesCorrect ==
    /\ kind = "mains" =>
          /\ MergeSortMain /\ StrategyMain /\ TwoPointersMain /\ SlidingWindowMain /\ MonotonicStackMain
          /\ BinarySearchMain /\ KnapsackMain /\ LCSMain /\ KMPMain /\ TrieMain /\ BitsMain
    /\ kind = "array" =>
          /\ MergeSortCorrect(input) /\ StrategiesAgree(input)
          /\ MaxAreaCorrect(input) /\ WindowsCorrect(input) /\ StacksCorrect(input)
          /\ ToSet(input) \subseteq 0 .. 2 => sortColors(input) = BubbleSort(input)
          /\ input # <<>> /\ 0 \notin ToSet(input) => AnswersMinimal(input)
    /\ kind = "list" => CyclesFound(input)
    /\ kind = "items" => KnapsackOptimal(input, Capacity)
    /\ kind = "texts" => KMPCorrect(input.text, input.pattern)
    /\ kind = "texts" /\ Len(input.text) <= MaxPattern =>
          LCSCorrect(input.text, input.pattern) /\ LCSCorrect(input.pattern, input.text)
    /\ kind = "trie" => TrieCorrect(input, Words)
    /\ kind = "bits" => BitsCorrect(input, Width)

(* Shortest paths, topological orders, union-find, segment trees and the n-queens
   solver agree with their definitions by brute force on every small graph and after
   every sequence of operations, and their mains with what they expect
   (dsa/dijkstra.cpp, topological_sort.cpp, union_find.cpp, segment_tree.cpp,
   backtracking_nqueens.cpp). *)
StructuresCorrect ==
    /\ kind = "mains" => DijkstraMain /\ TopologicalSortMain /\ UnionFindMain /\ SegmentTreeMain /\ NQueensMain
    /\ kind = "weights" => ShortestPaths(MaxNodes, input, 0)
    /\ kind = "edges" => TopologicalOrders(MaxNodes, input) /\ ComponentsFound(MaxNodes, input)
    /\ kind = "forest" => UnionFindCorrect(input)
    /\ kind = "tree" => SegmentTreeCorrect(input)
    /\ kind = "queens" => QueensCorrect(input)
==============================================================================
