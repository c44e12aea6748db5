----------------------------- MODULE SmallObjects -----------------------------
(***************************************************************************)
(* The stateful objects of src/src/patterns and the LED controller of      *)
(* systems/embedded.  An object is a record; an operator named after a     *)
(* member function maps the object before the call to the one after it.    *)
(* A definition whose name ends in Main holds the calls and asserts of a   *)
(* main function.                                                          *)
(***************************************************************************)
EXTENDS Integers, Sequences, SequencesExt, FiniteSets, FiniteSetsExt

-----------------------------------------------------------------------------
(* systems/embedded/state_machine.cpp.  led is what the hardware shows. *)
Row(onPowerOn, onPowerOff, onToggle, onFault, onReset) ==
    [PowerOn |-> onPowerOn, PowerOff |-> onPowerOff, Toggle |-> onToggle, Fault |-> onFault, Reset |-> onReset]

table_ ==
    LET solid == <<"Solid", "on">> blinking == <<"Blinking", "blink">> alarm == <<"Error", "alarm">>
        off == <<"Off", "off">> stay(s) == <<s, "none">>
    IN  [Off |-> Row(solid, stay("Off"), blinking, alarm, stay("Off")),
         Blinking |-> Row(stay("Blinking"), off, solid, alarm, off),
         Solid |-> Row(stay("Solid"), off, blinking, alarm, off),
         Error |-> Row(stay("Error"), off, stay("Error"), alarm, off)]

LEDController == [current_state_ |-> "Off", led |-> "off", unresolved |-> FALSE]
LEDEvents == {"PowerOn", "PowerOff", "Toggle", "Fault", "Reset"}

(* unresolved is history: a fault that neither Reset nor PowerOff followed. *)
processEvent(c, event) ==
    LET transition == table_[c.current_state_][event]
    IN  [current_state_ |-> transition[1],
         led |-> IF transition[2] = "none" THEN c.led ELSE transition[2],
         unresolved |-> event = "Fault" \/ (c.unresolved /\ event \notin {"Reset", "PowerOff"})]

LEDMain ==
    LET scenario == <<"PowerOn", "Toggle", "Toggle", "Fault", "PowerOn", "Reset", "PowerOn", "PowerOff">>
        after(n) == FoldLeft(processEvent, LEDController, SubSeq(scenario, 1, n)).current_state_
    IN  [n \in 1 .. 8 |-> after(n)] = <<"Solid", "Blinking", "Solid", "Error", "Error", "Off", "Solid", "Off">>

(* The hardware shows the state, and a fault is shown until it is reset. *)
LEDShowsState(c) ==
    /\ c.led = [Off |-> "off", Blinking |-> "blink", Solid |-> "on", Error |-> "alarm"][c.current_state_]
    /\ c.unresolved = (c.current_state_ = "Error")

-----------------------------------------------------------------------------
(* patterns/state.cpp.  opens and tried are history: the calls of open since the last
   close, and the sends tried and let through since then. *)
TCPConnection == [state_ |-> "CLOSED", opens |-> 0, tried |-> <<>>, passed |-> <<>>]

open(c) ==
    [c EXCEPT !.state_ = [CLOSED |-> "LISTEN", LISTEN |-> "ESTABLISHED", ESTABLISHED |-> "ESTABLISHED"][@],
              !.opens = @ + 1]
close(c) == [c EXCEPT !.state_ = "CLOSED", !.opens = 0]
send(c, data) ==
    [c EXCEPT !.tried = Append(@, <<data, c.opens >= 2>>),
              !.passed = IF c.state_ = "ESTABLISHED" THEN Append(@, data) ELSE @]

StateMain ==
    LET c1 == open(send(TCPConnection, "hello"))
        c2 == open(send(c1, "hello"))
        c3 == close(open(send(c2, "Hello, Server!")))
    IN  /\ c1.state_ = "LISTEN" /\ c2.state_ = "ESTABLISHED" /\ c3.state_ = "CLOSED"
        /\ send(close(c3), "data") = [c3 EXCEPT !.tried = Append(@, <<"data", FALSE>>)]
        /\ c3.passed = <<"Hello, Server!">>

(* Data goes out exactly between the second open and the next close, in order. *)
SendsOnlyEstablished(c) ==
    LET allowed == SelectSeq(c.tried, LAMBDA t : t[2])
    IN  c.passed = [i \in DOMAIN allowed |-> allowed[i][1]]

-----------------------------------------------------------------------------
(* patterns/iterator.cpp.  pushed is history.  it is an iterator of begin(), which
   copies head_ and size_; fresh says that no push since has overwritten. *)
RingBuffer(Capacity) ==
    [data_ |-> [k \in 0 .. Capacity - 1 |-> 0], head_ |-> 0, size_ |-> 0, pushed |-> <<>>,
     it |-> [head_ |-> 0, count_ |-> 0, index_ |-> 0], began |-> 0, fresh |-> TRUE]

CapacityOf(r) == Cardinality(DOMAIN r.data_)

pushKeepingHead(r, value) ==
    [r EXCEPT !.data_[(r.head_ + r.size_) % CapacityOf(r)] = value,
              !.size_ = Min({@ + 1, CapacityOf(r)}), !.pushed = Append(@, value)]

pushValue(r, value) ==
    LET full == r.size_ = CapacityOf(r)
    IN  [r EXCEPT !.data_[(r.head_ + r.size_) % CapacityOf(r)] = value,
                  !.size_ = IF full THEN @ ELSE @ + 1,
                  !.head_ = IF full THEN (@ + 1) % CapacityOf(r) ELSE @,
                  !.pushed = Append(@, value), !.fresh = @ /\ ~full]

begin(r) ==
    [r EXCEPT !.it = [head_ |-> r.head_, count_ |-> r.size_, index_ |-> 0],
              !.began = Len(r.pushed) - r.size_, !.fresh = TRUE]
increment(r) == [r EXCEPT !.it.index_ = @ + 1]
AtEnd(r) == r.it.index_ = r.it.count_
deref(r) == r.data_[(r.it.head_ + r.it.index_) % CapacityOf(r)]

front(r) == r.data_[r.head_]
back(r) == r.data_[(r.head_ + r.size_ - 1) % CapacityOf(r)]
Contents(r) == [i \in 1 .. r.size_ |-> r.data_[(r.head_ + i - 1) % CapacityOf(r)]]
SumOf(r) == FoldLeft(+, 0, Contents(r))

IteratorMain ==
    LET ring == FoldLeft(LAMBDA r, i : pushValue(r, i * 10), RingBuffer(5), [i \in 1 .. 7 |-> i])
    IN  ring.size_ = 5 /\ front(ring) = 30 /\ back(ring) = 70 /\ SumOf(ring) = 250 /\ Contents(ring)[5] = 70

(* The buffer holds the last pushes, oldest first, and an iterator reads what it was
   created on as long as nothing is overwritten. *)
RingKeepsLatest(r) ==
    /\ Contents(r) = SubSeq(r.pushed, Len(r.pushed) - r.size_ + 1, Len(r.pushed))
    /\ r.size_ = Min({Len(r.pushed), CapacityOf(r)})
    /\ r.size_ > 0 => front(r) = Contents(r)[1] /\ back(r) = Last(r.pushed)
    /\ r.fresh /\ ~AtEnd(r) => deref(r) = r.pushed[r.began + r.it.index_ + 1]

-----------------------------------------------------------------------------
(* patterns/proxy.cpp: Logging -> Caching -> Real; the logging proxy only prints.
   fetched is history.  The real service derives the data from the key. *)
Proxies == [requests_ |-> 0, cache_ |-> <<>>, cache_hits_ |-> 0, fetched |-> <<>>]

RemoteData(key) == <<"data_for_", key>>

fetch(p, key) ==
    LET hits == {i \in DOMAIN p.cache_ : p.cache_[i][1] = key}
    IN  IF hits # {}
        THEN [p EXCEPT !.cache_hits_ = @ + 1, !.fetched = Append(@, <<key, p.cache_[Min(hits)][2]>>)]
        ELSE [p EXCEPT !.requests_ = @ + 1, !.cache_ = Append(@, <<key, RemoteData(key)>>),
                       !.fetched = Append(@, <<key, RemoteData(key)>>)]

ProxyMain ==
    LET p == FoldLeft(fetch, Proxies, <<"user_123", "user_123", "order_456">>)
    IN  p.requests_ = 2 /\ p.cache_hits_ = 1

(* Every key is fetched from the real service once, and every caller gets its data. *)
CacheTransparent(p) ==
    /\ p.requests_ = Cardinality(ToSet(p.fetched)) /\ p.cache_hits_ = Len(p.fetched) - p.requests_
    /\ \A i \in DOMAIN p.fetched : p.fetched[i][2] = RemoteData(p.fetched[i][1])

-----------------------------------------------------------------------------
(* patterns/flyweight.cpp.  Pointers are numbered in the order of allocation; given is
   history: the style asked for and the pointer returned. *)
StyleFactory == [cache_ |-> {}, cache_hits_ |-> 0, given |-> <<>>]

get_style(f, style) ==
    LET known == {c \in f.cache_ : c[1] = style}
        fresh == Cardinality(f.cache_) + 1
    IN  IF known # {}
        THEN [f EXCEPT !.cache_hits_ = @ + 1, !.given = Append(@, CHOOSE c \in known : TRUE)]
        ELSE [f EXCEPT !.cache_ = @ \cup {<<style, fresh>>}, !.given = Append(@, <<style, fresh>>)]

FlyweightMain ==
    LET f == FoldLeft(get_style, StyleFactory, <<"regular", "bold", "regular", "bold">>)
    IN  Cardinality(f.cache_) = 2 /\ f.cache_hits_ = 2 /\ f.given[1] = f.given[3] /\ f.given[2] = f.given[4]

(* Equal styles share an object, and no others do. *)
StylesShared(f) ==
    /\ \A i, j \in DOMAIN f.given : (f.given[i][1] = f.given[j][1]) = (f.given[i][2] = f.given[j][2])
    /\ Len(f.given) = Cardinality(f.cache_) + f.cache_hits_

-----------------------------------------------------------------------------
(* patterns/chain_of_responsibility.cpp.  A handler is its level and how often it wrote;
   every handler passes the message on.  said, and how much had been said when a handler
   was linked, are history. *)
Linked(levels, said) == [i \in DOMAIN levels |-> [level_ |-> levels[i], count |-> 0, since |-> Len(said)]]

Chain(level) == [handlers |-> Linked(<<level>>, <<>>), said |-> <<>>]

(* Handler k gets a new next_, which may be null or head a chain of its own; what it had
   before is destroyed. *)
setNext(c, k, levels) == [c EXCEPT !.handlers = SubSeq(@, 1, k) \o Linked(levels, c.said)]

RECURSIVE HandleFrom(_, _, _)
HandleFrom(handlers, k, level) ==
    IF k > Len(handlers) THEN handlers
    ELSE HandleFrom(IF level >= handlers[k].level_ THEN [handlers EXCEPT ![k].count = @ + 1] ELSE handlers,
                    k + 1, level)
handle(c, level) == [c EXCEPT !.handlers = HandleFrom(@, 1, level), !.said = Append(@, level)]

ChainMain ==
    LET c == FoldLeft(handle, setNext(Chain(0), 1, <<1, 3>>), <<0, 1, 3>>)
    IN  c.handlers[2].count = 2 /\ c.handlers[3].count = 1

(* Each handler wrote every message of its level or above since it was linked, wherever
   it is in the chain and whatever was linked or dropped behind it. *)
HandlersIndependent(c) ==
    \A k \in DOMAIN c.handlers :
        LET heard == SubSeq(c.said, c.handlers[k].since + 1, Len(c.said))
        IN  c.handlers[k].count = Len(SelectSeq(heard, LAMBDA l : l >= c.handlers[k].level_))
==============================================================================
