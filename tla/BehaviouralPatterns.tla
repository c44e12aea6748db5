------------------------- MODULE BehaviouralPatterns -------------------------
(***************************************************************************)
(* The behavioural patterns that keep state: the two undo/redo designs,    *)
(* commands that undo themselves (patterns/command.cpp) and snapshots      *)
(* (patterns/memento.cpp), and the event buses of patterns/observer.cpp,   *)
(* modern_observer.cpp and mediator.cpp, with the services of the last.    *)
(* An editor or a bus is a record; an operator named after a member        *)
(* function maps the record before the call to the one after it.  A text   *)
(* is a sequence of characters.  Callbacks of the repository neither       *)
(* subscribe nor unsubscribe.                                              *)
(***************************************************************************)
EXTENDS Naturals, Sequences, SequencesExt, FiniteSets, FiniteSetsExt

-----------------------------------------------------------------------------
(* patterns/command.cpp *)
InsertText(text, pos, s) == SubSeq(text, 1, pos) \o s \o SubSeq(text, pos + 1, Len(text))
EraseText(text, pos, len) == SubSeq(text, 1, pos) \o SubSeq(text, pos + len + 1, Len(text))
Substr(text, pos, len) == SubSeq(text, pos + 1, Min({pos + len, Len(text)}))

InsertCommand(pos, s) == [kind |-> "insert", pos |-> pos, text |-> s]
DeleteCommand(pos, len) == [kind |-> "delete", pos |-> pos, len |-> len, deleted |-> <<>>]

(* std::string throws out_of_range for a position behind the end. *)
Executes(cmd, text) == cmd.pos <= Len(text)

(* A deletion remembers what it deleted. *)
Executed(cmd, text) ==
    IF cmd.kind = "insert" THEN cmd
    ELSE [cmd EXCEPT !.deleted = Substr(text, cmd.pos, cmd.len)]

execute(cmd, text) ==
    IF cmd.kind = "insert" THEN InsertText(text, cmd.pos, cmd.text) ELSE EraseText(text, cmd.pos, cmd.len)

unexecute(cmd, text) ==
    IF cmd.kind = "insert" THEN EraseText(text, cmd.pos, Len(cmd.text))
                           ELSE InsertText(text, cmd.pos, cmd.deleted)

(* latest is history: the text after the newest command. *)
CommandEditor == [text |-> <<>>, undo_stack_ |-> <<>>, redo_stack_ |-> <<>>, latest |-> <<>>]

executeCmdKeepingRedo(e, cmd) ==
    IF ~Executes(cmd, e.text) THEN e
    ELSE LET text == execute(cmd, e.text)
         IN  [text |-> text, undo_stack_ |-> Append(e.undo_stack_, Executed(cmd, e.text)),
              redo_stack_ |-> e.redo_stack_, latest |-> text]

(* A command that throws changes nothing, the redo stack included. *)
executeCmd(e, cmd) ==
    IF ~Executes(cmd, e.text) THEN e
    ELSE LET text == execute(cmd, e.text)
         IN  [text |-> text, undo_stack_ |-> Append(e.undo_stack_, Executed(cmd, e.text)),
              redo_stack_ |-> <<>>, latest |-> text]

undo(e) ==
    IF e.undo_stack_ = <<>> THEN e
    ELSE [e EXCEPT !.text = unexecute(Last(e.undo_stack_), e.text),
                   !.undo_stack_ = Front(@),
                   !.redo_stack_ = Append(@, Last(e.undo_stack_))]

redo(e) ==
    IF e.redo_stack_ = <<>> THEN e
    ELSE [e EXCEPT !.text = execute(Last(e.redo_stack_), e.text),
                   !.redo_stack_ = Front(@),
                   !.undo_stack_ = Append(@, Executed(Last(e.redo_stack_), e.text))]

(* The text is what the commands on the undo stack make of an empty document,
   and redoing the rest leads back to the newest text. *)
Replayed(cmds) == FoldLeft(LAMBDA text, cmd : execute(cmd, text), <<>>, cmds)
CommandsReplay(e) ==
    /\ e.text = Replayed(e.undo_stack_)
    /\ e.latest = Replayed(e.undo_stack_ \o Reverse(e.redo_stack_))

(* The calls and asserts of main, 1 to 5 standing for the pieces of the text. *)
CommandMain ==
    LET e1 == executeCmd(CommandEditor, InsertCommand(0, <<1, 2>>))
        e2 == executeCmd(e1, InsertCommand(1, <<3>>))
        e3 == executeCmd(e2, DeleteCommand(1, 1))
    IN  /\ e1.text = <<1, 2>> /\ e2.text = <<1, 3, 2>> /\ e3.text = e1.text
        /\ undo(e3).text = e2.text /\ undo(undo(e3)).text = e1.text /\ redo(undo(undo(e3))).text = e2.text

-----------------------------------------------------------------------------
(* patterns/memento.cpp: the editor and its History.  snapshots and shown are
   history: what was pushed and not given up, and what undo or redo returned
   if that was the last call. *)
SnapshotEditor ==
    [content_ |-> <<>>, cursor_ |-> 0, undo_stack_ |-> <<>>, redo_stack_ |-> <<>>,
     snapshots |-> <<>>, shown |-> <<>>]

type(e, text) == [e EXCEPT !.content_ = @ \o text, !.shown = <<>>]
set_cursor(e, pos) == [e EXCEPT !.cursor_ = pos, !.shown = <<>>]
clear(e) == [e EXCEPT !.content_ = <<>>, !.cursor_ = 0, !.shown = <<>>]

save(e) == [content_ |-> e.content_, cursor_ |-> e.cursor_]

(* The caller restores what undo or redo return, unless that is nullptr. *)
restore(e, memento) ==
    IF memento = <<>> THEN [e EXCEPT !.shown = <<>>]
    ELSE [e EXCEPT !.content_ = memento[1].content_, !.cursor_ = memento[1].cursor_, !.shown = memento]

push(e) ==
    [e EXCEPT !.undo_stack_ = Append(@, save(e)), !.redo_stack_ = <<>>,
              !.snapshots = Append(e.undo_stack_, save(e)), !.shown = <<>>]

undoSnapshot(e) ==
    IF e.undo_stack_ = <<>> THEN restore(e, <<>>)
    ELSE LET rest == Front(e.undo_stack_)
         IN  restore([e EXCEPT !.undo_stack_ = rest, !.redo_stack_ = Append(@, Last(e.undo_stack_))],
                     IF rest = <<>> THEN <<>> ELSE <<Last(rest)>>)

redoSnapshot(e) ==
    IF e.redo_stack_ = <<>> THEN restore(e, <<>>)
    ELSE restore([e EXCEPT !.undo_stack_ = Append(@, Last(e.redo_stack_)), !.redo_stack_ = Front(@)],
                 <<Last(e.redo_stack_)>>)

MementoMain ==
    LET e == FoldLeft(LAMBDA ed, t : push(type(ed, t)), SnapshotEditor, <<<<1>>, <<2>>, <<3>>>>)
        u == undoSnapshot(undoSnapshot(e))
        r == redoSnapshot(u)
    IN  /\ e.content_ = <<1, 2, 3>> /\ undoSnapshot(e).content_ = <<1, 2>> /\ u.content_ = <<1>>
        /\ r.content_ = <<1, 2>> /\ Len(r.undo_stack_) = 2 /\ Len(r.redo_stack_) = 1

(* No snapshot is lost or out of order between the two stacks, and after an undo
   or redo that returned one the editor shows the newest of the undo stack. *)
SnapshotsKept(e) ==
    /\ e.undo_stack_ \o Reverse(e.redo_stack_) = e.snapshots
    /\ e.shown # <<>> => save(e) = Last(e.undo_stack_) /\ e.shown = <<Last(e.undo_stack_)>>

-----------------------------------------------------------------------------
(* patterns/observer.cpp.  live and heard are history: the subscriptions in
   force, and whom the last emit called. *)
EventBus(Events) ==
    [listeners_ |-> [e \in Events |-> <<>>], next_id_ |-> 0, live |-> {}, heard |-> <<>>, emitted |-> {}]

subscribe(bus, event) ==
    [bus EXCEPT !.listeners_[event] = Append(@, bus.next_id_), !.next_id_ = @ + 1,
                !.live = @ \cup {<<event, bus.next_id_>>}, !.emitted = {}]

(* Only the list of the given event is searched. *)
unsubscribe(bus, event, id) ==
    [bus EXCEPT !.listeners_[event] = SelectSeq(@, LAMBDA l : l # id),
                !.live = @ \ {<<event, id>>}, !.emitted = {}]

emit(bus, event) == [bus EXCEPT !.heard = bus.listeners_[event], !.emitted = {event}]

listenerCount(bus, event) == Len(bus.listeners_[event])

(* An emit calls each listener of the event that has not left, once, in the
   order of subscription; every count agrees. *)
BusDelivers(bus) ==
    /\ \A e \in bus.emitted :
           /\ ToSet(bus.heard) = {l[2] : l \in {k \in bus.live : k[1] = e}}
           /\ \A i, j \in DOMAIN bus.heard : i < j => bus.heard[i] < bus.heard[j]
    /\ \A e \in DOMAIN bus.listeners_ : listenerCount(bus, e) = Cardinality({l \in bus.live : l[1] = e})

ObserverMain ==
    LET bus == FoldLeft(subscribe, EventBus({"trade", "price"}), <<"trade", "price", "price">>)
        left == unsubscribe(bus, "price", 1)
    IN  /\ emit(bus, "trade").heard = <<0>> /\ emit(bus, "price").heard = <<1, 2>>
        /\ listenerCount(bus, "price") = 2 /\ listenerCount(left, "price") = 1 /\ emit(left, "price").heard = <<2>>

-----------------------------------------------------------------------------
(* patterns/software_design/modern_observer.cpp: a Stock, whose signal calls the slots, and
   the connections, each of which holds the id it will erase, or nothing.  heard is
   history: the slots the last set_price called, and the change it told them. *)
Stock(Connections) ==
    [slots_ |-> <<>>, next_id_ |-> 0, price_ |-> 0, connection |-> [c \in Connections |-> {}], heard |-> <<>>]

subscriber_count(s) == Len(s.slots_)

disconnect(s, c) ==
    [s EXCEPT !.slots_ = SelectSeq(@, LAMBDA id : id \notin s.connection[c]), !.connection[c] = {}, !.heard = <<>>]

(* The move assignment of line 48: c gives up its slot and takes that of d. *)
moveConnection(s, c, d) ==
    LET freed == disconnect(s, c)
        taken == [freed EXCEPT !.connection[c] = freed.connection[d]]
    IN  IF c = d THEN freed ELSE [taken EXCEPT !.connection[d] = {}]

(* c = signal.connect(slot) *)
connect(s, c) ==
    LET freed == disconnect([s EXCEPT !.slots_ = Append(@, s.next_id_), !.next_id_ = @ + 1], c)
    IN  [freed EXCEPT !.connection[c] = {s.next_id_}]

set_price(s, new_price) ==
    [s EXCEPT !.price_ = new_price, !.heard = [i \in DOMAIN s.slots_ |-> <<s.slots_[i], s.price_, new_price>>]]

ModernObserverMain ==
    LET s1 == connect(connect(Stock({1, 2, 3}), 1), 2)
        s2 == set_price(set_price(s1, 155), 210)
        s3 == set_price(disconnect(s2, 1), 220)
        s4 == connect(s3, 3)
    IN  /\ subscriber_count(s1) = 2 /\ s2.heard = <<<<0, 155, 210>>, <<1, 155, 210>>>>
        /\ s3.heard = <<<<1, 210, 220>>>> /\ subscriber_count(s4) = 2 /\ subscriber_count(disconnect(s4, 3)) = 1

(* The signal has exactly the slots that some connection holds, each held once, in the
   order of subscription, and all of them hear of a change of the price. *)
SlotsFollowConnections(s) ==
    /\ ToSet(s.slots_) = UNION {s.connection[c] : c \in DOMAIN s.connection}
    /\ \A i, j \in DOMAIN s.slots_ : i < j => s.slots_[i] < s.slots_[j]
    /\ \A c, d \in DOMAIN s.connection : c # d => s.connection[c] \cap s.connection[d] = {}
    /\ s.heard # <<>> => Len(s.heard) = subscriber_count(s) /\ \A i \in DOMAIN s.heard : s.heard[i][3] = s.price_

-----------------------------------------------------------------------------
(* patterns/mediator.cpp: the services subscribe when they are constructed and
   AuthService publishes from within its handler.  welcomed is history: the
   value of auth_count_ each time somebody is welcomed. *)
Handler(id, does) == [id |-> id, does |-> does]

Mediator ==
    [handlers_ |-> [e \in {"login_request", "authenticated", "auth_failed"} |->
        CASE e = "login_request" -> <<Handler(0, "authenticate")>>
          [] e = "authenticated" -> <<Handler(1, "log"), Handler(3, "welcome")>>
          [] e = "auth_failed" -> <<Handler(2, "log")>>],
     auth_count_ |-> 0, log_count_ |-> 0, notify_count_ |-> 0,
     attempts |-> [ok |-> 0, failed |-> 0], welcomed |-> <<>>, gone |-> {}]

Known == {"admin", "alice"}

unsubscribeFirstEvent(m, id) ==
    [m EXCEPT !.handlers_["login_request"] = SelectSeq(@, LAMBDA h : h.id # id), !.gone = @ \cup {id}]

(* unsubscribe searches the lists of all events. *)
unsubscribeId(m, id) ==
    [m EXCEPT !.handlers_ = [e \in DOMAIN @ |-> SelectSeq(@[e], LAMBDA h : h.id # id)],
              !.gone = @ \cup {id}]

RECURSIVE publish(_, _, _)
RunHandler(m, h, user) ==
    CASE h.does = "authenticate" ->
             IF user \in Known
             THEN LET told == publish(m, "authenticated", user)
                  IN  [told EXCEPT !.auth_count_ = @ + 1]
             ELSE publish(m, "auth_failed", user)
      [] h.does = "log" -> [m EXCEPT !.log_count_ = @ + 1]
      [] h.does = "welcome" -> [m EXCEPT !.notify_count_ = @ + 1, !.welcomed = Append(@, m.auth_count_)]

publish(m, event, user) ==
    FoldLeft(LAMBDA told, h : RunHandler(told, h, user), m, m.handlers_[event])

(* bus.publish("user:login_request", user) in main *)
login(m, user) ==
    LET counted == IF user \in Known THEN [m EXCEPT !.attempts.ok = @ + 1]
                                     ELSE [m EXCEPT !.attempts.failed = @ + 1]
    IN  publish(counted, "login_request", user)

MediatorMain ==
    LET m == FoldLeft(login, Mediator, <<"alice", "hacker", "admin">>)
    IN  m.auth_count_ = 2 /\ m.log_count_ = 3 /\ m.notify_count_ = 2

(* While nobody unsubscribes the counts are those main asserts: every attempt is
   logged, every successful one is counted and welcomed; a welcome comes before
   its own login is counted.  Who unsubscribes is not called any more. *)
MediatorCounts(m) ==
    /\ 0 \notin m.gone => m.auth_count_ = m.attempts.ok
    /\ m.gone = {} =>
          /\ m.log_count_ = m.attempts.ok + m.attempts.failed
          /\ m.notify_count_ = m.attempts.ok
          /\ \A k \in DOMAIN m.welcomed : m.welcomed[k] = k - 1
    /\ \A e \in DOMAIN m.handlers_ : \A k \in DOMAIN m.handlers_[e] : m.handlers_[e][k].id \notin m.gone
==============================================================================
