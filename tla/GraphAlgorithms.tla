--------------------------- MODULE GraphAlgorithms ---------------------------
(***************************************************************************)
(* The graph algorithms, union-find, the segment tree and the n-queens     *)
(* solver of src/src/dsa.  Nodes, rows and columns are numbered from 0.    *)
(* The state of an object is a record that its member functions map to the *)
(* one after the call.                                                     *)
(***************************************************************************)
EXTENDS Integers, Sequences, SequencesExt, FiniteSets, FiniteSetsExt

Upwards(n) == [i \in 1 .. n |-> i - 1]

(* adj[from]: where the edges of a sequence of pairs lead, in their order. *)
Adjacent(edges, from) == LET own == SelectSeq(edges, LAMBDA e : e[1] = from) IN [i \in DOMAIN own |-> own[i][2]]

-----------------------------------------------------------------------------
(* dsa/dijkstra.cpp.  An edge is <<from, to, weight>>; INF is more than any sum of
   weights.  An entry of the queue is never pushed twice, since every push of a node
   has a smaller distance: pq is a set. *)
INF == 1000

PopMin(pq) == CHOOSE e \in pq : \A f \in pq : e[1] < f[1] \/ (e[1] = f[1] /\ e[2] <= f[2])

Relax(s, u, edge) ==
    IF edge[1] = u /\ s.dist[u] + edge[3] < s.dist[edge[2]]
    THEN [dist |-> [s.dist EXCEPT ![edge[2]] = s.dist[u] + edge[3]],
          prev |-> [s.prev EXCEPT ![edge[2]] = u],
          pq |-> s.pq \cup {<<s.dist[u] + edge[3], edge[2]>>}]
    ELSE s

RECURSIVE DijkstraLoop(_, _)
DijkstraLoop(edges, s) ==
    IF s.pq = {} THEN [dist |-> s.dist, prev |-> s.prev]
    ELSE LET top == PopMin(s.pq)
             rest == [s EXCEPT !.pq = @ \ {top}]
         IN  IF top[1] > s.dist[top[2]] THEN DijkstraLoop(edges, rest)
             ELSE DijkstraLoop(edges, FoldLeft(LAMBDA t, e : Relax(t, top[2], e), rest, edges))

dijkstra(n, edges, source) ==
    DijkstraLoop(edges, [dist |-> [v \in 0 .. n - 1 |-> IF v = source THEN 0 ELSE INF],
                         prev |-> [v \in 0 .. n - 1 |-> -1], pq |-> {<<0, source>>}])

RECURSIVE WayTo(_, _)
WayTo(prev, v) == IF v = -1 THEN <<>> ELSE Append(WayTo(prev, prev[v]), v)
reconstruct_path(prev, source, target) ==
    LET path == WayTo(prev, target) IN IF path[1] = source THEN path ELSE <<>>

DijkstraMain ==
    LET found == dijkstra(4, <<<<0, 1, 4>>, <<0, 2, 2>>, <<2, 1, 1>>, <<2, 3, 5>>, <<1, 3, 1>>>>, 0)
    IN  /\ \A v \in 0 .. 3 : found.dist[v] = <<0, 3, 2, 4>>[v + 1]
        /\ reconstruct_path(found.prev, 0, 3) = <<0, 2, 1, 3>>

(* The cost of a path: the cheapest edge for each of its steps, INF if there is none. *)
Weight(edges, u, v) == Min({INF} \cup {e[3] : e \in {f \in ToSet(edges) : f[1] = u /\ f[2] = v}})
Cost(edges, path) ==
    FoldLeft(LAMBDA c, i : c + Weight(edges, path[i], path[i + 1]), 0, [i \in 1 .. Len(path) - 1 |-> i])

(* The distance is that of the cheapest simple path, the path found costs it, and
   there is no path exactly to the nodes at distance INF. *)
ShortestPaths(n, edges, source) ==
    LET found == dijkstra(n, edges, source)
        simple(v) == {p \in SetToAllKPermutations(0 .. n - 1) : Len(p) > 0 /\ p[1] = source /\ Last(p) = v}
    IN  \A v \in 0 .. n - 1 :
            LET path == reconstruct_path(found.prev, source, v)
            IN  /\ found.dist[v] = Min({INF} \cup {Cost(edges, p) : p \in simple(v)})
                /\ IF found.dist[v] = INF THEN path = <<>>
                   ELSE path[1] = source /\ Last(path) = v /\ Cost(edges, path) = found.dist[v]

-----------------------------------------------------------------------------
(* dsa/topological_sort.cpp.  Edges are pairs and may repeat. *)
RECURSIVE KahnLoop(_, _, _, _)
KahnLoop(edges, in_degree, q, order) ==
    IF q = <<>> THEN order
    ELSE LET visited == FoldLeft(LAMBDA w, v :
                            [in_degree |-> [w.in_degree EXCEPT ![v] = @ - 1],
                             q |-> IF w.in_degree[v] = 1 THEN Append(w.q, v) ELSE w.q],
                            [in_degree |-> in_degree, q |-> Tail(q)], Adjacent(edges, q[1]))
         IN  KahnLoop(edges, visited.in_degree, visited.q, Append(order, q[1]))

topoSortKahn(n, edges) ==
    LET in_degree == [v \in 0 .. n - 1 |-> Cardinality({i \in DOMAIN edges : edges[i][2] = v})]
        order == KahnLoop(edges, in_degree, SelectSeq(Upwards(n), LAMBDA v : in_degree[v] = 0), <<>>)
    IN  IF Len(order) # n THEN <<>> ELSE order

(* DFSTopoSort::dfs; the loop over the neighbours ends at the first back edge. *)
RECURSIVE dfs(_, _, _)
dfs(edges, s, node) ==
    IF s.has_cycle_ THEN s
    ELSE LET visit(w, v) ==
                 IF w.left THEN w
                 ELSE CASE w.s.state_[v] = "Visiting" -> [s |-> [w.s EXCEPT !.has_cycle_ = TRUE], left |-> TRUE]
                        [] w.s.state_[v] = "Unvisited" -> [w EXCEPT !.s = dfs(edges, w.s, v)]
                        [] w.s.state_[v] = "Visited" -> w
             entered == [s EXCEPT !.state_[node] = "Visiting"]
             done == FoldLeft(visit, [s |-> entered, left |-> FALSE], Adjacent(edges, node))
         IN  IF done.left THEN done.s
             ELSE [done.s EXCEPT !.state_[node] = "Visited", !.order_ = Append(@, node)]

DFSTopoSort(n, edges) ==
    LET fresh == [state_ |-> [v \in 0 .. n - 1 |-> "Unvisited"], order_ |-> <<>>, has_cycle_ |-> FALSE]
        final == FoldLeft(LAMBDA s, v : IF s.state_[v] = "Unvisited" THEN dfs(edges, s, v) ELSE s,
                          fresh, Upwards(n))
    IN  IF final.has_cycle_ THEN <<>> ELSE Reverse(final.order_)

TopologicalSortMain ==
    LET courses == <<<<0, 1>>, <<0, 2>>, <<1, 3>>, <<2, 3>>, <<3, 4>>, <<4, 5>>>>
        cycle == <<<<0, 1>>, <<1, 2>>, <<2, 0>>>>
    IN  /\ topoSortKahn(6, courses) = <<0, 1, 2, 3, 4, 5>> /\ DFSTopoSort(6, courses) = <<0, 2, 1, 3, 4, 5>>
        /\ topoSortKahn(3, cycle) = <<>> /\ DFSTopoSort(3, cycle) = <<>>

(* Nodes reached from v over at least one edge. *)
Reached(n, edges, v) ==
    LET step(S) == S \cup {e[2] : e \in {f \in ToSet(edges) : f[1] \in S \cup {v}}}
    IN  FoldLeft(LAMBDA S, i : step(S), {}, Upwards(n))

(* Both orders hold every node once, before all its successors; if there is a cycle,
   and only then, both are empty. *)
TopologicalOrders(n, edges) ==
    \A order \in {topoSortKahn(n, edges), DFSTopoSort(n, edges)} :
        IF \E v \in 0 .. n - 1 : v \in Reached(n, edges, v) THEN order = <<>>
        ELSE /\ Len(order) = n /\ ToSet(order) = 0 .. n - 1
             /\ \A i, j \in DOMAIN order : order[j] \in Reached(n, edges, order[i]) => i < j

-----------------------------------------------------------------------------
(* dsa/union_find.cpp.  united is history: the pairs unite was called with. *)
UnionFind(n) ==
    [parent_ |-> [x \in 0 .. n - 1 |-> x], rank_ |-> [x \in 0 .. n - 1 |-> 0], components_ |-> n, united |-> <<>>]

RECURSIVE Root(_, _)
Root(uf, x) == IF uf.parent_[x] = x THEN x ELSE Root(uf, uf.parent_[x])

RECURSIVE find(_, _)
find(uf, x) ==
    IF uf.parent_[x] = x THEN uf
    ELSE LET above == find(uf, uf.parent_[x]) IN [above EXCEPT !.parent_[x] = above.parent_[uf.parent_[x]]]

unite(uf, x, y) ==
    LET found == [find(find(uf, x), y) EXCEPT !.united = Append(@, <<x, y>>)]
        rx == found.parent_[x]
        ry == found.parent_[y]
        top == IF found.rank_[rx] < found.rank_[ry] THEN ry ELSE rx
        below == IF top = rx THEN ry ELSE rx
    IN  IF rx = ry THEN found
        ELSE [found EXCEPT !.parent_[below] = top, !.components_ = @ - 1,
                           !.rank_[top] = IF found.rank_[top] = found.rank_[below] THEN @ + 1 ELSE @]

(* The answer of connected; find, which it calls, compresses the paths. *)
connected(uf, x, y) == Root(uf, x) = Root(uf, y)

countComponents(n, edges) == FoldLeft(LAMBDA uf, e : unite(uf, e[1], e[2]), UnionFind(n), edges).components_

(* The first edge whose call of unite returns false; nodes are numbered from 1. *)
findRedundantConnection(edges) ==
    LET before(i) == FoldLeft(LAMBDA uf, e : unite(uf, e[1], e[2]), UnionFind(Len(edges) + 1), SubSeq(edges, 1, i - 1))
        useless == {i \in DOMAIN edges : connected(before(i), edges[i][1], edges[i][2])}
    IN  IF useless = {} THEN <<-1, -1>> ELSE edges[Min(useless)]

UnionFindMain ==
    LET three == unite(unite(unite(UnionFind(7), 0, 1), 2, 3), 4, 5)
        four == unite(three, 1, 2)
    IN  /\ three.components_ = 4 /\ four.components_ = 3 /\ connected(four, 0, 3) /\ ~connected(four, 0, 4)
        /\ countComponents(5, <<<<0, 1>>, <<1, 2>>, <<3, 4>>>>) = 2
        /\ findRedundantConnection(<<<<1, 2>>, <<1, 3>>, <<2, 3>>>>) = <<2, 3>>

BothWays(edges) == edges \o [i \in DOMAIN edges |-> <<edges[i][2], edges[i][1]>>]

RECURSIVE Depth(_, _)
Depth(uf, x) == IF uf.parent_[x] = x THEN 0 ELSE 1 + Depth(uf, uf.parent_[x])

(* The trees are the connected components of the united pairs; the rank bounds the
   height, in spite of compressed paths, and a root of rank r has 2^r nodes or more. *)
UnionFindCorrect(uf) ==
    LET n == Cardinality(DOMAIN uf.parent_)
        tree(r) == {x \in DOMAIN uf.parent_ : Root(uf, x) = r}
    IN  /\ \A x \in DOMAIN uf.parent_ :
               tree(Root(uf, x)) = Reached(n, BothWays(uf.united), x) \cup {x}
        /\ uf.components_ = Cardinality({x \in DOMAIN uf.parent_ : uf.parent_[x] = x})
        /\ \A x \in DOMAIN uf.parent_ :
               /\ Depth(uf, x) <= uf.rank_[Root(uf, x)]
               /\ uf.parent_[x] = x => Cardinality(tree(x)) >= 2 ^ uf.rank_[x]

(* The components are counted, and with as many edges as nodes the first edge that
   closes a cycle is reported. *)
ComponentsFound(n, edges) ==
    LET near(k, v) == Reached(n, BothWays(SubSeq(edges, 1, k)), v) \cup {v}
        closing == {i \in DOMAIN edges : edges[i][2] \in near(i - 1, edges[i][1])}
        fromOne == [i \in DOMAIN edges |-> <<edges[i][1] + 1, edges[i][2] + 1>>]
    IN  /\ countComponents(n, edges) = Cardinality({near(Len(edges), v) : v \in 0 .. n - 1})
        /\ Len(edges) >= n =>
               findRedundantConnection(fromOne) = IF closing = {} THEN <<-1, -1>> ELSE fromOne[Min(closing)]

-----------------------------------------------------------------------------
(* dsa/segment_tree.cpp.  op is "sum" or "min"; arr is history: the array itself.
   An index behind the 4 n nodes would be outside the domain of tree_. *)
Combine(op, x, y) == IF op = "sum" THEN x + y ELSE IF x < y THEN x ELSE y
Identity(op) == IF op = "sum" THEN 0 ELSE INF

RECURSIVE build(_, _, _, _, _, _)
build(tree, op, arr, node, start, end) ==
    IF start = end THEN [tree EXCEPT ![node] = arr[start + 1]]
    ELSE LET mid == (start + end) \div 2
             both == build(build(tree, op, arr, 2 * node, start, mid), op, arr, 2 * node + 1, mid + 1, end)
         IN  [both EXCEPT ![node] = Combine(op, both[2 * node], both[2 * node + 1])]

SegmentTree(op, arr) ==
    [op |-> op, arr |-> arr,
     tree_ |-> build([k \in 0 .. 4 * Len(arr) - 1 |-> Identity(op)], op, arr, 1, 0, Len(arr) - 1)]

RECURSIVE UpdateBelow(_, _, _, _, _, _, _)
UpdateBelow(tree, op, node, start, end, idx, val) ==
    IF start = end THEN [tree EXCEPT ![node] = @ + val]
    ELSE LET mid == (start + end) \div 2
             below == IF idx <= mid THEN UpdateBelow(tree, op, 2 * node, start, mid, idx, val)
                                    ELSE UpdateBelow(tree, op, 2 * node + 1, mid + 1, end, idx, val)
         IN  [below EXCEPT ![node] = Combine(op, below[2 * node], below[2 * node + 1])]

update(st, idx, val) ==
    [st EXCEPT !.tree_ = UpdateBelow(@, st.op, 1, 0, Len(st.arr) - 1, idx, val), !.arr[idx + 1] = @ + val]

RECURSIVE QueryBelow(_, _, _, _, _, _)
QueryBelow(st, node, start, end, l, r) ==
    IF r < start \/ end < l THEN Identity(st.op)
    ELSE IF l <= start /\ end <= r THEN st.tree_[node]
    ELSE LET mid == (start + end) \div 2
         IN  Combine(st.op, QueryBelow(st, 2 * node, start, mid, l, r),
                            QueryBelow(st, 2 * node + 1, mid + 1, end, l, r))
query(st, l, r) == QueryBelow(st, 1, 0, Len(st.arr) - 1, l, r)

SegmentTreeMain ==
    LET st == SegmentTree("sum", <<1, 3, 5, 7, 9, 11>>)
        updated == update(st, 2, 5)
        minTree == SegmentTree("min", <<1, 3, 5, 7, 9, 11>>)
    IN  /\ query(st, 0, 2) = 9 /\ query(st, 1, 4) = 24 /\ query(st, 0, 5) = 36 /\ query(st, 3, 3) = 7
        /\ query(updated, 0, 2) = 14 /\ query(updated, 0, 5) = 41
        /\ query(minTree, 0, 5) = 1 /\ query(minTree, 2, 4) = 5

(* Every range, those that leave the array included, gives what the elements in it give. *)
SegmentTreeCorrect(st) ==
    \A l, r \in -1 .. Len(st.arr) :
        query(st, l, r) = FoldLeft(LAMBDA x, y : Combine(st.op, x, y), Identity(st.op),
                                   SelectSeq([i \in DOMAIN st.arr |-> IF i - 1 \in l .. r THEN st.arr[i] ELSE INF],
                                             LAMBDA v : v # INF))

-----------------------------------------------------------------------------
(* dsa/backtracking_nqueens.cpp.  A mask is the set of its bits; remove toggles them.
   The highest bit is 2n - 2, so a uint32_t holds the masks of boards up to n = 16; a
   larger board shifts by 32 or more, which is undefined. *)
Solver(n) == [n_ |-> n, queens_ |-> [i \in 1 .. n |-> 0], solutions_ |-> <<>>, cols_ |-> {}, diag1_ |-> {}, diag2_ |-> {}]

is_safe(s, row, col) == col \notin s.cols_ /\ (row - col + s.n_ - 1) \notin s.diag1_ /\ (row + col) \notin s.diag2_

place(s, row, col) ==
    [s EXCEPT !.queens_[row + 1] = col, !.cols_ = @ \cup {col},
              !.diag1_ = @ \cup {row - col + s.n_ - 1}, !.diag2_ = @ \cup {row + col}]

removeFromColumns(s, row, col) == [s EXCEPT !.cols_ = SymDiff(@, {col})]
remove(s, row, col) ==
    [s EXCEPT !.cols_ = SymDiff(@, {col}), !.diag1_ = SymDiff(@, {row - col + s.n_ - 1}),
              !.diag2_ = SymDiff(@, {row + col})]

RECURSIVE backtrack(_, _)
backtrack(s, row) ==
    IF row = s.n_ THEN [s EXCEPT !.solutions_ = Append(@, s.queens_)]
    ELSE FoldLeft(LAMBDA t, col : IF is_safe(t, row, col)
                                  THEN remove(backtrack(place(t, row, col), row + 1), row, col) ELSE t,
                  s, Upwards(s.n_))
solve_all(n) == backtrack(Solver(n), 0)

(* count_backtrack counts where backtrack appends. *)
count_solutions(n) == Len(solve_all(n).solutions_)

NQueensMain == [n \in 1 .. 4 |-> count_solutions(n)] = <<1, 0, 0, 2>> /\ count_solutions(8) = 92

(* Exactly the boards without an attack are found, in lexicographic order and once
   each, and the masks are empty again at the end. *)
QueensCorrect(n) ==
    LET s == solve_all(n)
        peaceful == {q \in [1 .. n -> 0 .. n - 1] :
                        \A i, j \in 1 .. n : i < j => q[i] # q[j] /\ q[j] - q[i] \notin {j - i, i - j}}
    IN  /\ ToSet(s.solutions_) = peaceful /\ Len(s.solutions_) = Cardinality(peaceful)
        /\ \A a, b \in DOMAIN s.solutions_ : a < b =>
               \E k \in 1 .. n : /\ s.solutions_[a][k] < s.solutions_[b][k]
                                 /\ \A i \in 1 .. k - 1 : s.solutions_[a][i] = s.solutions_[b][i]
        /\ s.cols_ = {} /\ s.diag1_ = {} /\ s.diag2_ = {}
==============================================================================
