----------------------------- MODULE MarketData -----------------------------
(***************************************************************************)
(* src/src/systems/hft/market_data_handler.cpp.  onTick aggregates ticks   *)
(* into bars of BAR_DURATION_NS.  Ticks may come late: their time stamps   *)
(* are not ordered.  A tick's symbol and side are not looked at; the       *)
(* moving average is floating point and left out.                          *)
(***************************************************************************)
EXTENDS Integers, Sequences, FiniteSets, FiniteSetsExt, SequencesExt

CONSTANTS TickPrices, TickQuantities, Times, BAR_DURATION_NS,
          MaxTicks       \* bound on the calls of onTick

Tick == [price : TickPrices, quantity : TickQuantities, timestamp_ns : Times]

VARIABLES current_bar_, ticks_processed_,
          emitted,       \* the bars emitBar has printed
          ticks,         \* history: the ticks of the current bar
          past           \* history: the ticks of each emitted bar

vars == <<current_bar_, ticks_processed_, emitted, ticks, past>>

Bar(price, ts) ==
    [open |-> price, high |-> price, low |-> price, close |-> price,
     volume |-> 0, bar_start_ns |-> ts, count |-> 0]

Init ==
    /\ current_bar_ = Bar(0, 0) /\ ticks_processed_ = 0
    /\ emitted = <<>> /\ ticks = <<>> /\ past = <<>>

(* Lines 76 to 80. *)
Updated(bar, tick) ==
    [bar EXCEPT !.high = IF tick.price > @ THEN tick.price ELSE @,
                !.low = IF tick.price < @ THEN tick.price ELSE @,
                !.close = tick.price, !.volume = @ + tick.quantity, !.count = @ + 1]

(* The bar after the test of line 64. *)
Started(tick) ==
    IF current_bar_.count = 0 THEN Bar(tick.price, tick.timestamp_ns) ELSE current_bar_

Elapsed(tick) == tick.timestamp_ns - Started(tick).bar_start_ns

-----------------------------------------------------------------------------
(* The tick belongs to the current bar, or starts the first one. *)
TickInBar(tick) ==
    /\ ticks_processed_ < MaxTicks /\ ticks_processed_' = ticks_processed_ + 1
    /\ Elapsed(tick) < BAR_DURATION_NS
    /\ current_bar_' = Updated(Started(tick), tick)
    /\ ticks' = Append(ticks, tick)
    /\ UNCHANGED <<emitted, past>>

(* The tick is past the end of the bar: the bar is emitted, the tick starts
   the next one. *)
TickInNextKeepingBar(tick) ==
    /\ ticks_processed_ < MaxTicks /\ ticks_processed_' = ticks_processed_ + 1
    /\ Elapsed(tick) >= BAR_DURATION_NS
    /\ emitted' = Append(emitted, Started(tick)) /\ past' = Append(past, ticks)
    /\ current_bar_' = Updated([Started(tick) EXCEPT !.bar_start_ns = tick.timestamp_ns], tick)
    /\ ticks' = <<tick>>

TickInNext(tick) ==
    /\ ticks_processed_ < MaxTicks /\ ticks_processed_' = ticks_processed_ + 1
    /\ Elapsed(tick) >= BAR_DURATION_NS
    /\ emitted' = Append(emitted, Started(tick)) /\ past' = Append(past, ticks)
    /\ current_bar_' = Updated(Bar(tick.price, tick.timestamp_ns), tick)
    /\ ticks' = <<tick>>

(* The stream ends; nothing emits the last bar. *)
EndOfStream == ticks_processed_ = MaxTicks /\ UNCHANGED vars

Next ==
    \/ \E tick \in Tick : TickInBar(tick) \/ TickInNext(tick)
    \/ EndOfStream

Spec == Init /\ [][Next]_vars

-----------------------------------------------------------------------------
Total(f) == MapThenSumSet(LAMBDA n : f[n], DOMAIN f)
Volume(run) == Total([n \in DOMAIN run |-> run[n].quantity])
TicksIn(runs) == Total([n \in DOMAIN runs |-> Len(runs[n])])
PricesOf(run) == {run[n].price : n \in DOMAIN run}

(* A bar is the aggregate of a non-empty run of ticks, none of which is a
   bar's duration or more after the first. *)
Aggregates(bar, run) ==
    /\ run # <<>> /\ bar.count = Len(run)
    /\ bar.open = Head(run).price /\ bar.close = Last(run).price
    /\ bar.high = Max(PricesOf(run)) /\ bar.low = Min(PricesOf(run))
    /\ bar.volume = Volume(run)
    /\ bar.bar_start_ns = Head(run).timestamp_ns
    /\ \A n \in DOMAIN run : run[n].timestamp_ns - bar.bar_start_ns < BAR_DURATION_NS

(* Every emitted bar and the current one aggregate the ticks between two
   resets, late ticks included, and every tick processed is in exactly one of
   them (lines 60-80). *)
BarsSound ==
    /\ ticks_processed_ > 0 => Aggregates(current_bar_, ticks)
    /\ Len(emitted) = Len(past)
    /\ \A n \in DOMAIN emitted : Aggregates(emitted[n], past[n])
    /\ ticks_processed_ = Len(ticks) + TicksIn(past)
==============================================================================
