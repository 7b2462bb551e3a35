---------------------------- MODULE EnergyCounter ----------------------------
(* CounterMonitor (battery_health.py): one continuous total out of a        *)
(* lifetime energy counter that may restart, that is sometimes read a       *)
(* little low, and whose monitor is restored from an older store.           *)
EXTENDS Integers

CONSTANTS
    TOLERANCE,     \* COUNTER_RESET_TOLERANCE_KWH
    JITTER,        \* how much too low a reading of the counter may be
    MAX_ENERGY     \* bound: the energy that is ever delivered

ASSUME CounterAssumption ==
    /\ TOLERANCE \in Nat /\ JITTER \in Nat /\ MAX_ENERGY \in Nat
    /\ JITTER <= TOLERANCE

VARIABLES
    raw,           \* the device's counter
    earlier,       \* what the device delivered before the counter restarted
    counter,       \* CounterMonitor: _last (when known), _offset, is_stale
    savedCounter   \* the monitor as it was last written to the store

counterVars == <<raw, earlier, counter, savedCounter>>

Unread  == [known |-> FALSE, last |-> 0, offset |-> 0, stale |-> FALSE]
Monitors == [known : BOOLEAN, last : Nat, offset : Nat, stale : BOOLEAN]

CounterInit ==
    /\ raw \in 0..MAX_ENERGY /\ earlier = 0
    /\ counter = Unread /\ savedCounter = Unread

(* value: the continuous total.                                             *)
Total(c) == c.last + c.offset

-----------------------------------------------------------------------------
(* feed(None): the previous value is carried forward.                       *)
Missed(c) == [c EXCEPT !.stale = TRUE]

FedAnyRestart(c, reading) ==    \* mutant: every decrease is a restart
    IF c.known /\ reading < c.last
      THEN [c EXCEPT !.offset = @ + c.last, !.last = reading, !.stale = FALSE]
      ELSE [c EXCEPT !.known = TRUE, !.last = reading, !.stale = FALSE]

FedAdvancing(c, reading) ==     \* mutant: a small regression is taken over
    IF c.known /\ reading < c.last - TOLERANCE
      THEN [c EXCEPT !.offset = @ + c.last, !.last = reading, !.stale = FALSE]
      ELSE [c EXCEPT !.known = TRUE, !.last = reading, !.stale = FALSE]

(* feed(raw): a decrease beyond the tolerance is a restart, and the total   *)
(* goes on from where it was; a smaller one is not taken over at all.       *)
Fed(c, reading) ==
    CASE c.known /\ reading < c.last - TOLERANCE ->
           [c EXCEPT !.offset = @ + c.last, !.last = reading, !.stale = FALSE]
      [] c.known /\ reading < c.last /\ reading >= c.last - TOLERANCE ->
           Missed(c)
      [] ~c.known \/ reading >= c.last ->
           [c EXCEPT !.known = TRUE, !.last = reading, !.stale = FALSE]

-----------------------------------------------------------------------------
Deliver ==
    /\ earlier + raw < MAX_ENERGY
    /\ raw' = raw + 1
    /\ UNCHANGED <<earlier, counter, savedCounter>>

CounterRestarts ==
    /\ earlier' = earlier + raw /\ raw' = 0
    /\ UNCHANGED <<counter, savedCounter>>

Readings == {r \in 0..raw : r >= raw - JITTER}

FeedCounter ==
    /\ \/ counter' = Missed(counter)
       \/ \E reading \in Readings : counter' = Fed(counter, reading)
    /\ UNCHANGED <<raw, earlier, savedCounter>>

SaveCounter ==
    /\ savedCounter' = counter
    /\ UNCHANGED <<raw, earlier, counter>>

(* to_dict() and restore(): is_stale is not kept.                           *)
RestoreCounter ==
    /\ counter' = [savedCounter EXCEPT !.stale = FALSE]
    /\ UNCHANGED <<raw, earlier, savedCounter>>

CounterNext ==
    \/ Deliver \/ CounterRestarts
    \/ FeedCounter \/ SaveCounter \/ RestoreCounter

CounterSpec == CounterInit /\ [][CounterNext]_counterVars

-----------------------------------------------------------------------------
(* However often the counter restarts, is misread within its jitter or is   *)
(* restored from an older store, the total that segments and windows are    *)
(* measured with never exceeds the energy that was delivered.               *)
NeverOvercounts == counter.known => Total(counter) <= earlier + raw

(* No reading lets the total fall, so no segment or window is ever of       *)
(* negative energy.                                                         *)
TotalNeverFalls ==
    [][FeedCounter /\ counter.known => Total(counter') >= Total(counter)]_counterVars
=============================================================================
