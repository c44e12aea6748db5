----------------------------- MODULE ValueObjects -----------------------------
(***************************************************************************)
(* Trees, wrappers and handles: composite, builder, decorators, visitor    *)
(* and prototypes of src/src/patterns, and the results, vectors of widgets,*)
(* shared pointers and threads of modern_cpp and threads_basics.cpp.  An   *)
(* operator named after a member function maps the object before the call  *)
(* to the one after it, or to the value returned.                          *)
(***************************************************************************)
EXTENDS Integers, Sequences, SequencesExt, FiniteSets, FiniteSetsExt

-----------------------------------------------------------------------------
(* patterns/composite.cpp.  A forest is the entries that local pointers own; bytes is
   history: the sizes of all files made. *)
File(size) == [size_ |-> size, children_ |-> <<>>, directory |-> FALSE]
Directory == [size_ |-> 0, children_ |-> <<>>, directory |-> TRUE]

RECURSIVE size(_)
size(entry) ==
    IF entry.directory THEN FoldLeft(LAMBDA sum, child : sum + size(child), 0, entry.children_) ELSE entry.size_

Forest == [loose |-> <<>>, bytes |-> 0]
make(f, entry) == [loose |-> Append(f.loose, entry), bytes |-> f.bytes + entry.size_]

(* The pointer to entry j moves into directory i. *)
add(f, i, j) ==
    [f EXCEPT !.loose = RemoveAt([f.loose EXCEPT ![i].children_ = Append(@, f.loose[j])], j)]

CompositeMain ==
    LET dir(children) == [Directory EXCEPT !.children_ = children]
        root == dir(<<dir(<<File(2048), File(1024), File(512)>>), dir(<<File(8192), File(32768)>>), File(256)>>)
    IN  size(root) = 2048 + 1024 + 512 + 8192 + 32768 + 256 /\ root.directory /\ Len(root.children_) = 3

(* Every file is in exactly one tree: the sizes of the trees add up. *)
SizesAddUp(f) == FoldLeft(LAMBDA sum, entry : sum + size(entry), 0, f.loose) = f.bytes

-----------------------------------------------------------------------------
(* patterns/builder.cpp.  SQL is a sequence of words, 0 an empty clause; a builder goes on
   after build(), which changes nothing. *)
QueryBuilder == [select_clause_ |-> 0, from_clause_ |-> 0, where_clauses_ |-> <<>>, order_clause_ |-> 0, limit_ |-> -1]

select(q, cols) == [q EXCEPT !.select_clause_ = cols]
from(q, table) == [q EXCEPT !.from_clause_ = table]
where(q, condition) == [q EXCEPT !.where_clauses_ = Append(@, condition)]
orderBy(q, col) == [q EXCEPT !.order_clause_ = col]
limit(q, n) == [q EXCEPT !.limit_ = n]

buildQuery(q) ==
    <<"SELECT", q.select_clause_, "FROM", q.from_clause_>>
        \o FlattenSeq([i \in DOMAIN q.where_clauses_ |-> <<IF i = 1 THEN "WHERE" ELSE "AND", q.where_clauses_[i]>>])
        \o (IF q.order_clause_ = 0 THEN <<>> ELSE <<"ORDER BY", q.order_clause_>>)
        \o (IF q.limit_ > 0 THEN <<"LIMIT", q.limit_>> ELSE <<>>)

BuilderMain ==
    LET full == limit(orderBy(where(where(from(select(QueryBuilder, 1), 2), 3), 4), 5), 10)
    IN  /\ buildQuery(full) = <<"SELECT", 1, "FROM", 2, "WHERE", 3, "AND", 4, "ORDER BY", 5, "LIMIT", 10>>
        /\ buildQuery(from(select(QueryBuilder, 6), 7)) = <<"SELECT", 6, "FROM", 7>>

(* What follows keyword k in a query, in order. *)
Clauses(sql, k) ==
    LET own == SelectSeq([i \in 1 .. Len(sql) \div 2 |-> <<sql[2 * i - 1], sql[2 * i]>>], LAMBDA c : c[1] \in k)
    IN  [i \in DOMAIN own |-> own[i][2]]

(* The query can be read back: every clause is there once, and the conditions in order. *)
QueryReadsBack(q) ==
    LET sql == buildQuery(q)
    IN  /\ Clauses(sql, {"SELECT"}) = <<q.select_clause_>> /\ Clauses(sql, {"FROM"}) = <<q.from_clause_>>
        /\ Clauses(sql, {"WHERE", "AND"}) = q.where_clauses_
        /\ Len(Clauses(sql, {"WHERE"})) = (IF q.where_clauses_ = <<>> THEN 0 ELSE 1)
        /\ Clauses(sql, {"ORDER BY"}) = (IF q.order_clause_ = 0 THEN <<>> ELSE <<q.order_clause_>>)
        /\ Clauses(sql, {"LIMIT"}) = (IF q.limit_ <= 0 THEN <<>> ELSE <<q.limit_>>)

-----------------------------------------------------------------------------
(* patterns/decorator.cpp.  A stream is the sequence of its decorators, the outermost first.
   Characters are numbers below 16, "]" is 1 and lengths are from 8 on; the encryption
   flips a bit, which may make any character a "]". *)
Flip(data) == [i \in DOMAIN data |-> IF (data[i] \div 4) % 2 = 0 THEN data[i] + 4 ELSE data[i] - 4]
Header(data) == <<3, 8 + Len(data), 1>>

RECURSIVE writeTo(_, _)
writeTo(stream, data) ==
    IF stream = <<>> THEN data
    ELSE writeTo(Tail(stream), IF stream[1] = "Encrypted" THEN Flip(data) ELSE Header(data) \o data)

(* The header ends at the first "]"; without one the data stay as they are. *)
Stripped(raw) ==
    LET ends == {i \in DOMAIN raw : raw[i] = 1}
    IN  IF ends = {} THEN raw ELSE SubSeq(raw, Min(ends) + 1, Len(raw))

RECURSIVE readFrom(_, _)
readFrom(stream, data) ==
    IF stream = <<>> THEN data
    ELSE LET inner == readFrom(Tail(stream), data)
         IN  IF stream[1] = "Encrypted" THEN Flip(inner) ELSE Stripped(inner)

DecoratorMain ==
    LET stream == <<"Compressed", "Encrypted">> IN readFrom(stream, writeTo(stream, <<2, 6, 0>>)) = <<2, 6, 0>>

(* Any stack of decorators reads what it wrote, brackets in the data included. *)
RoundTrip(stream, data) == readFrom(stream, writeTo(stream, data)) = data

-----------------------------------------------------------------------------
(* patterns/software_design/runtime_decorator.cpp.  An item is a coffee or a wrapper that
   owns a copy of an item. *)
Coffee(cents) == [kind |-> "Coffee", cents_ |-> cents, in |-> <<>>]
Wrap(kind, n, item) == [kind |-> kind, cents_ |-> n, in |-> <<item>>]

RECURSIVE price_cents(_)
price_cents(item) ==
    CASE item.kind = "Coffee" -> item.cents_
      [] item.kind = "WithMilk" -> price_cents(item.in[1]) + 50
      [] item.kind = "WithSugar" -> price_cents(item.in[1]) + 25
      [] item.kind = "WithDiscount" -> (price_cents(item.in[1]) * (100 - item.cents_)) \div 100

RuntimeDecoratorMain ==
    /\ price_cents(Wrap("WithMilk", 0, Coffee(400))) = 450
    /\ price_cents(Wrap("WithSugar", 0, Wrap("WithMilk", 0, Coffee(450)))) = 525
    /\ price_cents(Wrap("WithDiscount", 10, Wrap("WithMilk", 0, Coffee(350)))) = 360

RECURSIVE Undiscounted(_)
Undiscounted(item) ==
    CASE item.kind = "Coffee" -> item.cents_
      [] item.kind = "WithMilk" -> Undiscounted(item.in[1]) + 50
      [] item.kind = "WithSugar" -> Undiscounted(item.in[1]) + 25
      [] item.kind = "WithDiscount" -> Undiscounted(item.in[1])

(* A wrapper never takes more off than its percentage of the undecorated price, in
   spite of the rounding, and no price is negative. *)
PricesSane(item) ==
    /\ price_cents(item) \in 0 .. Undiscounted(item)
    /\ item.kind = "WithDiscount" =>
           LET inner == price_cents(item.in[1])
           IN  100 * price_cents(item) > inner * (100 - item.cents_) - 100

-----------------------------------------------------------------------------
(* patterns/visitor.cpp.  Both visitors keep what they found in a member, which the visit
   of a subtree overwrites (result_) or extends (output_). *)
Sym(s) == [sym |-> s, value |-> 0]
Num(v) == [sym |-> "num", value |-> v]

NumberExpr(v) == [op |-> "num", value |-> v, kids |-> <<>>]
BinaryExpr(op, l, r) == [op |-> op, value |-> 0, kids |-> <<l, r>>]

RECURSIVE EvalVisit(_, _)
EvalVisit(result, e) ==
    IF e.op = "num" THEN e.value
    ELSE LET l == EvalVisit(result, e.kids[1])
             r == EvalVisit(l, e.kids[2])
         IN  IF e.op = "+" THEN l + r ELSE l * r

RECURSIVE PrintVisit(_, _)
PrintVisit(output, e) ==
    IF e.op = "num" THEN Append(output, Num(e.value))
    ELSE Append(PrintVisit(Append(PrintVisit(Append(output, Sym("(")), e.kids[1]), Sym(e.op)), e.kids[2]), Sym(")"))

VisitorMain ==
    LET n(v) == NumberExpr(v)
        expr == BinaryExpr("*", BinaryExpr("+", n(3), n(4)), n(2))
    IN  /\ EvalVisit(0, expr) = 14 
        /\ PrintVisit(<<>>, expr) = <<Sym("("), Sym("("), Num(3), Sym("+"), Num(4), Sym(")"), Sym("*"), Num(2), Sym(")")>>
        /\ EvalVisit(0, BinaryExpr("+", n(5), BinaryExpr("*", n(2), n(3)))) = 11

(* Reading a print: each ")" reduces the last five symbols to their value. *)
Reduced(printed) ==
    FoldLeft(LAMBDA stk, t :
                 IF t.sym # ")" THEN Append(stk, t)
                 ELSE LET k == Len(stk)
                          l == stk[k - 2].value
                          r == stk[k].value
                      IN  Append(SubSeq(stk, 1, k - 4), Num(IF stk[k - 1].sym = "+" THEN l + r ELSE l * r)),
             <<>>, printed)

(* The printed expression means what the other visitor computes, whatever either
   visitor visited before. *)
VisitorsAgree(e, before) ==
    LET printed == PrintVisit(<<>>, before)
    IN  /\ Reduced(PrintVisit(<<>>, e)) = <<Num(EvalVisit(EvalVisit(0, before), e))>>
        /\ PrintVisit(printed, e) = printed \o PrintVisit(<<>>, e)

-----------------------------------------------------------------------------
(* patterns/software_design/prototype_pattern.cpp.  Documents live on a heap; the registry
   and the caller own theirs.  made is history: the content each document should show. *)
Registry == [heap |-> <<>>, registry_ |-> <<>>, owned |-> <<>>, made |-> <<>>]

Allocated(r, doc) == [r EXCEPT !.heap = Append(@, doc), !.made = Append(@, doc)]

(* A prototype registered under a name replaces the one there, which is destroyed. *)
register_prototype(r, name, doc) ==
    [Allocated(r, doc) EXCEPT !.registry_ = [n \in DOMAIN @ \cup {name} |-> IF n = name THEN Len(r.heap) + 1 ELSE @[n]]]

clone(r, address) == Allocated(r, r.heap[address])

create(r, name) ==
    IF name \notin DOMAIN r.registry_ THEN r
    ELSE [clone(r, r.registry_[name]) EXCEPT !.owned = Append(@, Len(r.heap) + 1)]

set_content(r, k, content) ==
    [r EXCEPT !.heap[r.owned[k]].content_ = content, !.made[r.owned[k]].content_ = content]

PrototypeMain ==
    LET doc(content, css) == [content_ |-> content, css_class_ |-> css]
        r == register_prototype(register_prototype(Registry, "blog", doc(1, 0)), "page", doc(2, 9))
        c == create(set_content(create(set_content(create(r, "blog"), 1, 3), "page"), 2, 4), "blog")
    IN  c.heap[c.owned[3]] = doc(1, 0) /\ c.heap[c.owned[1]] = doc(3, 0) /\ c.heap[c.owned[2]] = doc(4, 9)

(* A change of a clone shows in that clone only, and no document has two owners. *)
ClonesIndependent(r) ==
    /\ r.heap = r.made
    /\ \A k \in DOMAIN r.owned, n \in DOMAIN r.registry_ : r.owned[k] # r.registry_[n]
    /\ \A j, k \in DOMAIN r.owned : j # k => r.owned[j] # r.owned[k]

-----------------------------------------------------------------------------
(* modern_cpp/practical/error_handling.cpp.  A string is a sequence of characters: the
   digits 0 to 9, 10 for "-" and 11 for others; most is the largest int. *)
success(v) == [ok |-> TRUE, value |-> v]
error(e) == [ok |-> FALSE, value |-> e]

and_then(r, f) == IF r.ok THEN f[r.value] ELSE r
transform(r, f) == IF r.ok THEN success(f[r.value]) ELSE r
or_else(r, f) == IF r.ok THEN r ELSE f[r.value]

(* std::from_chars: an optional minus and digits to the end, within the range of int. *)
parse_int(sv, most) ==
    LET negative == sv # <<>> /\ sv[1] = 10
        digits == IF negative THEN Tail(sv) ELSE sv
        n == FoldLeft(LAMBDA v, d : 10 * v + d, 0, digits)
    IN  IF digits # <<>> /\ ToSet(digits) \subseteq 0 .. 9 /\ n <= (IF negative THEN most + 1 ELSE most)
        THEN success(IF negative THEN -n ELSE n) ELSE error(1)

validate_positive(v) == IF v > 0 THEN success(v) ELSE error(2)
validate_range(v, min, max) == IF v >= min /\ v <= max THEN success(v) ELSE error(3)
safe_divide(a, b) == IF b = 0 THEN <<>> ELSE <<a \div b>>
find_user(id) == IF id = 1 THEN <<"Alice">> ELSE IF id = 2 THEN <<"Bob">> ELSE <<>>

Pipeline(sv, most) ==
    and_then(and_then(parse_int(sv, most), [v \in Int |-> validate_positive(v)]), [v \in Int |-> validate_range(v, 1, 100)])

ErrorHandlingMain ==
    /\ Pipeline(<<4, 2>>, 999) = success(42) /\ ~parse_int(<<11, 11, 11>>, 999).ok
    /\ Pipeline(<<10, 5>>, 999) = error(2) /\ transform(parse_int(<<2, 1>>, 999), [v \in Int |-> 2 * v]) = success(42)
    /\ safe_divide(10, 3) # <<>> /\ safe_divide(10, 0) = <<>> /\ find_user(1) = <<"Alice">>

(* The chain yields a value only if every stage accepts it, and otherwise the error of the
   first stage that does not; a handler sees errors only. *)
FirstErrorWins(sv, most) ==
    LET r == Pipeline(sv, most)
        parsed == parse_int(sv, most)
    IN  /\ r.ok => parsed = r /\ r.value \in 1 .. 100
        /\ ~r.ok => r.value = (IF ~parsed.ok THEN 1 ELSE IF parsed.value <= 0 THEN 2 ELSE 3)
        /\ parsed.ok => parsed.value \in -most - 1 .. most
        /\ or_else(r, [e \in Int |-> success(0)]) = (IF r.ok THEN r ELSE success(0))

-----------------------------------------------------------------------------
(* modern_cpp/noexcept.cpp: a vector that grows by doubling (external), moving its
   elements only if their move constructor is noexcept. *)
WidgetVector(nothrow) == [nothrow |-> nothrow, items |-> <<>>, capacity |-> 0, moves_ |-> 0, copies_ |-> 0]

emplace_back(v, item) ==
    LET moved == IF Len(v.items) < v.capacity THEN 0 ELSE Len(v.items)
    IN  [v EXCEPT !.items = Append(@, item), !.capacity = IF Len(v.items) < @ THEN @ ELSE Max({1, 2 * @}),
                  !.moves_ = IF v.nothrow THEN @ + moved ELSE @, !.copies_ = IF v.nothrow THEN @ ELSE @ + moved]

NoexceptMain ==
    LET filled(nothrow) == FoldLeft(emplace_back, WidgetVector(nothrow), [i \in 1 .. 100 |-> i])
    IN  filled(TRUE).copies_ = 0 /\ filled(FALSE).copies_ > 0

(* Relocations cost less than two per element inserted, and none of them is a copy
   exactly if moving cannot throw. *)
GrowthAmortised(v) ==
    /\ v.moves_ + v.copies_ < Max({1, 2 * Len(v.items)}) /\ Len(v.items) <= v.capacity
    /\ Len(v.items) > 1 => (v.copies_ = 0) = v.nothrow

-----------------------------------------------------------------------------
(* modern_cpp/smart_pointers.cpp: nodes with a strong next and a weak parent, and local
   shared_ptrs (external: what copying and resetting does to use_count).  0 is nullptr. *)
SharedNodes(Locals) == [alive |-> {}, use_count |-> <<>>, next |-> <<>>, parent |-> <<>>, local |-> [v \in Locals |-> 0]]

AddRef(g, n) == IF n = 0 THEN g ELSE [g EXCEPT !.use_count[n] = @ + 1]

(* The last reference destroys the node, which gives up its next. *)
RECURSIVE Release(_, _)
Release(g, n) ==
    IF n = 0 THEN g
    ELSE IF g.use_count[n] > 1 THEN [g EXCEPT !.use_count[n] = @ - 1]
    ELSE Release([g EXCEPT !.use_count[n] = 0, !.alive = @ \ {n}, !.next[n] = 0], g.next[n])

SetLocal(g, v, n) == Release([AddRef(g, n) EXCEPT !.local[v] = n], g.local[v])

make_shared(g, v) ==
    LET n == Len(g.next) + 1
    IN  SetLocal([g EXCEPT !.alive = @ \cup {n}, !.use_count = Append(@, 0), !.next = Append(@, 0),
                           !.parent = Append(@, 0)], v, n)
set_next(g, v, u) ==
    LET n == g.local[v] IN Release([AddRef(g, g.local[u]) EXCEPT !.next[n] = g.local[u]], g.next[n])
set_parent(g, v, u) == [g EXCEPT !.parent[g.local[v]] = g.local[u]]
lock(g, n) == {g.parent[n]} \cap g.alive

SmartPointersMain ==
    LET two == make_shared(make_shared(SharedNodes({1, 2, 3}), 1), 2)
        g == set_parent(set_next(two, 1, 2), 2, 1)
    IN  /\ g.use_count = <<1, 2>> /\ lock(g, 2) = {1} /\ SetLocal(g, 3, 1).use_count[1] = 2
        /\ SetLocal(SetLocal(g, 2, 0), 1, 0).alive = {}

(* The nodes reached from n along next. *)
Behind(g, n) ==
    LET hop[k \in 0 .. Len(g.next)] == IF k = 0 THEN {n} ELSE {g.next[m] : m \in hop[k - 1]} \ {0}
    IN  UNION {hop[k] : k \in DOMAIN hop}

(* Counts are right, what a local reaches is alive, and only a cycle of next leaks. *)
CountsRight(g) ==
    LET used == {g.local[v] : v \in DOMAIN g.local} \ {0}
        reached == UNION {Behind(g, n) : n \in used}
    IN  /\ \A n \in DOMAIN g.next : g.use_count[n] =
               Cardinality({v \in DOMAIN g.local : g.local[v] = n}) + Cardinality({m \in g.alive : g.next[m] = n})
        /\ reached \subseteq g.alive
        /\ \A n \in g.alive \ reached : \E c \in g.alive : n \in Behind(g, c) /\ g.next[c] # 0 /\ c \in Behind(g, g.next[c])

-----------------------------------------------------------------------------
(* concurrency/threads_basics.cpp: cancellable_work between its steps and main.  late is
   history: iterations begun after the request to stop. *)
StoppableThread == [pc |-> "test", count |-> 0, stop |-> FALSE, late |-> 0, tls_counter |-> [t \in 0 .. 2 |-> 0]]

testStop(t) == [t EXCEPT !.pc = IF ~t.stop /\ t.count < 5 THEN "work" ELSE "exit"]
workOnce(t) == [t EXCEPT !.count = @ + 1, !.pc = "test", !.late = IF t.stop THEN @ + 1 ELSE @]
request_stop(t) == [t EXCEPT !.stop = TRUE]
increment_tls(t, id) == [t EXCEPT !.tls_counter[id] = @ + 1]

(* A stopped thread begins at most the iteration it had already decided on, and the
   counter of the main thread stays 0. *)
StopsPromptly(t) ==
    /\ t.late <= 1 /\ t.count <= 5 /\ (t.late = 1 => t.stop)
    /\ t.pc = "exit" => t.stop \/ t.count = 5
    /\ t.tls_counter[0] = 0
==============================================================================
