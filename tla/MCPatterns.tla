------------------------------ MODULE MCPatterns ------------------------------
(***************************************************************************)
(* The classes of src/src/patterns and modern_cpp for TLC: a behaviour     *)
(* takes one object and calls its operations in any order.  The owning     *)
(* classes are in MCContainers; here are only the asserts of their mains.  *)
(***************************************************************************)
EXTENDS BehaviouralPatterns, Ownership, SmallObjects, ValueObjects

CONSTANTS
    MaxCalls,            \* operations on one object
    MaxLongCalls,        \* the same for the objects of LongLived
    MaxPosition,         \* arguments of the editors
    Events,              \* of the observer's bus
    Bytes, MaxData,      \* data for the decorated streams
    MaxDepth             \* wrappers and operators around an item or number

VARIABLES kind, object, calls

vars == <<kind, object, calls>>

ASSUME PatternsAssumption ==
    /\ {MaxCalls, MaxLongCalls, MaxPosition, MaxData, MaxDepth} \subseteq Nat /\ Bytes \subseteq 0 .. 15

Texts == {<<1>>, <<2, 2>>}
Levels == {0, 1, 3}

Init ==
    /\ calls = 0
    /\ \/ kind = "commands" /\ object = CommandEditor
       \/ kind = "snapshots" /\ object = SnapshotEditor
       \/ kind = "bus" /\ object = EventBus(Events)
       \/ kind = "mediator" /\ object = Mediator
       \/ kind = "LED" /\ object = LEDController
       \/ kind = "connection" /\ object = TCPConnection
       \/ kind = "ring" /\ \E n \in 1 .. 3 : object = RingBuffer(n)
       \/ kind = "proxies" /\ object = Proxies
       \/ kind = "styles" /\ object = StyleFactory
       \/ kind = "chain" /\ \E l \in Levels : object = Chain(l)
       \/ kind = "forest" /\ object = Forest
       \/ kind = "query" /\ object = from(select(QueryBuilder, 1), 2)
       \/ kind = "stream" /\ object = [stream |-> <<>>, data |-> <<>>]
       \/ kind = "item" /\ \E cents \in {1, 99, 350} : object = Coffee(cents)
       \/ kind = "expression" /\ \E v \in 1 .. 2 : object = <<NumberExpr(v), NumberExpr(3)>>
       \/ kind = "stock" /\ object = Stock(1 .. 2)
       \/ kind = "registry" /\ object = Registry
       \/ kind = "digits" /\ object = <<>>
       \/ kind = "vector" /\ object \in {WidgetVector(TRUE), WidgetVector(FALSE)}
       \/ kind = "nodes" /\ object = SharedNodes(1 .. 2)
       \/ kind = "thread" /\ object = StoppableThread
       \/ kind = "mains" /\ object = 0

EditorCall ==
    \/ kind = "commands" /\ \E pos \in 0 .. MaxPosition :
           \/ \E s \in Texts : object' = executeCmd(object, InsertCommand(pos, s))
           \/ \E len \in 0 .. 2 : object' = executeCmd(object, DeleteCommand(pos, len))
    \/ kind = "commands" /\ object' \in {undo(object), redo(object)}
    \/ kind = "snapshots" /\ \E s \in Texts : object' = type(object, s)
    \/ kind = "snapshots" /\ object' \in {set_cursor(object, 1), clear(object), push(object)}
    \/ kind = "snapshots" /\ object' \in {undoSnapshot(object), redoSnapshot(object)}

BusCall ==
    \/ kind = "bus" /\ \E e \in Events : object' \in {subscribe(object, e), emit(object, e)}
    \/ kind = "bus" /\ \E e \in Events, id \in 0 .. object.next_id_ : object' = unsubscribe(object, e, id)
    \/ kind = "mediator" /\ \E user \in Known \cup {"hacker"} : object' = login(object, user)
    \/ kind = "mediator" /\ \E id \in 0 .. 3 : object' = unsubscribeId(object, id)
    \/ kind = "stock" /\ \E c \in 1 .. 2 : object' \in {connect(object, c), disconnect(object, c), set_price(object, c)}
    \/ kind = "stock" /\ \E c, d \in 1 .. 2 : object' = moveConnection(object, c, d)

ObjectCall ==
    \/ kind = "LED" /\ \E e \in LEDEvents : object' = processEvent(object, e)
    \/ kind = "connection" /\ object' \in {open(object), close(object), send(object, Len(object.tried))}
    \/ kind = "ring" /\ object' \in {pushValue(object, Len(object.pushed)), begin(object)}
    \/ kind = "ring" /\ ~AtEnd(object) /\ object' = increment(object)
    \/ kind = "proxies" /\ \E key \in 1 .. 3 : object' = fetch(object, key)
    \/ kind = "styles" /\ \E style \in 1 .. 3 : object' = get_style(object, style)
    \/ kind = "chain" /\ \E k \in DOMAIN object.handlers, levels \in BoundedSeq(Levels, 2) :
           object' = setNext(object, k, levels)
    \/ kind = "chain" /\ \E l \in Levels : object' = handle(object, l)

RECURSIVE Depth(_)
Depth(item) == IF item.in = <<>> THEN 0 ELSE 1 + Depth(item.in[1])

ValueCall ==
    \/ kind = "forest" /\ \E entry \in {File(1), File(4), Directory} : object' = make(object, entry)
    \/ kind = "forest" /\ \E i, j \in DOMAIN object.loose :
           i # j /\ object.loose[i].directory /\ object' = add(object, i, j)
    \/ kind = "query" /\ \E n \in 0 .. 2 : object' \in {where(object, n), limit(object, n - 1), orderBy(object, n)}
    \/ kind = "query" /\ object' \in {select(object, 3), from(object, 4)}
    \/ /\ kind = "stream" /\ object.data = <<>>
       /\ \E d \in {"Encrypted", "Compressed"} : object' = [object EXCEPT !.stream = Append(@, d)]
    \/ /\ kind = "stream" /\ Len(object.data) < MaxData
       /\ \E c \in Bytes : object' = [object EXCEPT !.data = Append(@, c)]
    \/ /\ kind = "item" /\ Depth(object) < MaxDepth
       /\ \/ \E k \in {"WithMilk", "WithSugar"} : object' = Wrap(k, 0, object)
          \/ \E percent \in {0, 10, 33, 100} : object' = Wrap("WithDiscount", percent, object)
    \/ /\ kind = "expression"
       /\ \E op \in {"+", "*"}, l, r \in 1 .. 2 : object' = <<BinaryExpr(op, object[l], object[r]), object[1]>>

HandleCall ==
    \/ /\ kind = "registry"
       /\ \E n \in 1 .. 2 : object' \in {register_prototype(object, n, [content_ |-> n, css_class_ |-> 0]), create(object, n)}
    \/ kind = "registry" /\ \E k \in DOMAIN object.owned : object' = set_content(object, k, 3)
    \/ kind = "digits" /\ \E c \in {0, 1, 5, 10, 11} : object' = Append(object, c)
    \/ kind = "vector" /\ object' = emplace_back(object, calls)
    \/ kind = "nodes" /\ \E v \in 1 .. 2 : object' \in {make_shared(object, v), SetLocal(object, v, 0)}
    \/ kind = "nodes" /\ \E v, u \in 1 .. 2 : v # u /\ object' = SetLocal(object, v, object.local[u])
    \/ kind = "nodes" /\ \E v, u \in 1 .. 2 : object.local[v] # 0 /\ object' = set_next(object, v, u)
    \/ kind = "nodes" /\ \E v, u \in 1 .. 2 : object.local[v] # 0 /\ object' = set_parent(object, v, u)
    \/ kind = "thread" /\ object.pc = "test" /\ object' = testStop(object)
    \/ kind = "thread" /\ object.pc = "work" /\ object' = workOnce(object)
    \/ kind = "thread" /\ object' = request_stop(object)
    \/ kind = "thread" /\ \E id \in 1 .. 2 : object' = increment_tls(object, id)

LongLived == {"thread", "vector", "LED", "ring", "mediator"}
CallBound == IF kind \in LongLived THEN MaxLongCalls ELSE IF kind = "expression" THEN MaxDepth ELSE MaxCalls

Next ==
    /\ calls < CallBound /\ calls' = calls + 1
    /\ EditorCall \/ BusCall \/ ObjectCall \/ ValueCall \/ HandleCall
    /\ UNCHANGED kind

Spec == Init /\ [][Next]_vars

-----------------------------------------------------------------------------
(* After any sequence of commands, undo and redo the text is what the commands say
   (patterns/command.cpp), no snapshot is lost (memento.cpp), an event reaches
   exactly the listeners that are subscribed (observer.cpp), also when handlers
   publish (mediator.cpp) and when connections are moved (modern_observer.cpp). *)
HistoriesAndBuses ==
    /\ kind = "commands" => CommandsReplay(object)
    /\ kind = "snapshots" => SnapshotsKept(object)
    /\ kind = "bus" => BusDelivers(object)
    /\ kind = "mediator" => MediatorCounts(object)
    /\ kind = "stock" => SlotsFollowConnections(object)
    /\ kind = "mains" => CommandMain /\ MementoMain /\ ObserverMain /\ ModernObserverMain /\ MediatorMain

(* The state machines, buffers, caches, trees, wrappers and visitors of src/src/patterns
   keep their promises under every sequence of calls, and the mains see what they
   assert; those of the owning classes and allocators (Ownership) as well. *)
ObjectsSound ==
    /\ kind = "mains" =>
          /\ LEDMain /\ StateMain /\ IteratorMain /\ ProxyMain /\ FlyweightMain /\ ChainMain
          /\ CompositeMain /\ BuilderMain /\ DecoratorMain /\ RuntimeDecoratorMain /\ VisitorMain
          /\ PrototypeMain /\ ErrorHandlingMain /\ NoexceptMain /\ SmartPointersMain
          /\ AllocatorsMain /\ RuleOfFiveMain /\ PimplMain /\ ScopesMain
          /\ \A fails \in {"none", "socket", "bind", "listen", "accept"} : NothingLeft(ServerMain(fails))
    /\ kind = "LED" => LEDShowsState(object)
    /\ kind = "connection" => SendsOnlyEstablished(object)
    /\ kind = "ring" => RingKeepsLatest(object)
    /\ kind = "proxies" => CacheTransparent(object)
    /\ kind = "styles" => StylesShared(object)
    /\ kind = "chain" => HandlersIndependent(object)
    /\ kind = "forest" => SizesAddUp(object)
    /\ kind = "query" => QueryReadsBack(object)
    /\ kind = "stream" => RoundTrip(object.stream, object.data)
    /\ kind = "item" => PricesSane(object)
    /\ kind = "expression" => VisitorsAgree(object[1], object[2])
    /\ kind = "registry" => ClonesIndependent(object)
    /\ kind = "digits" => FirstErrorWins(object, 127)
    /\ kind = "vector" => GrowthAmortised(object)
    /\ kind = "nodes" => CountsRight(object)
    /\ kind = "thread" => StopsPromptly(object)
==============================================================================
