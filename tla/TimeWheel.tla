------------------------------ MODULE TimeWheel ------------------------------
(***************************************************************************)
(* The hierarchical time wheel behind regDelayEvent (TimeWheel.lua): one   *)
(* wheel per unit of time, a timer sits in a slot of the wheel its delay   *)
(* fits in and moves down when the wheel below has made a full turn.       *)
(*                                                                         *)
(* The wheel has one thread, but it calls scripts in the middle of onTime, *)
(* and they add and remove timers while a slot is being worked off.  So    *)
(* onTime is a sequence of steps, with addTimer and Remove() possible      *)
(* between two ticks and whenever a callback is running.                   *)
(***************************************************************************)
EXTENDS Integers, Sequences, FiniteSetsExt

CONSTANTS
    Timers,             \* TvecBase objects
    NoTimer,            \* none of them
    Count,              \* slots of each wheel: in the code <<60,60,24,30,12>>
    Delays,             \* delays that scripts ask for between two ticks
    CallbackDelays,     \* delays that they ask for in a callback
    MaxTick             \* length of a behaviour

ASSUME NoTimerAssumption == NoTimer \notin Timers
ASSUME CountAssumption == Count \in Seq(Nat \ {0}) /\ Count # << >>
ASSUME MaxTickAssumption == MaxTick \in Nat

VARIABLES
    tick,       \* WheelMgr.Tick
    cur,        \* Wheel.CurWheel, per wheel
    slot,       \* Wheel.Slot, per wheel and slot: a sequence of timers
    reg,        \* TvecBase.RegWheel (0: nil), RegSlot, RegIndex, RegTick
    left,       \* TvecBase.TimeOut
    comp,       \* TvecBase.CompTime
    pos,        \* the wheel and the index onTime is at; wheel 0: outside onTime
    called,     \* the timer whose callback is running
    due,        \* the tick a timer was asked for, 0 when it is not pending
    asked       \* the tick at which it was asked for

vars == <<tick, cur, slot, reg, left, comp, pos, called, due, asked>>

Levels == 1..Len(Count)

Param[l \in Levels] == IF l = 1 THEN 1 ELSE Count[l - 1] * Param[l - 1]

getRange(l) == Count[l] * Param[l]

\* Add asserts that the last wheel's range is not exceeded.
ASSUME DelaysAssumption ==
    Delays \cup CallbackDelays \subseteq 1..getRange(Len(Count))

Idle == [wheel |-> 0, index |-> 0]

NoReg == [wheel |-> 0, slot |-> 0, index |-> 0, tick |-> 0]

Init ==
    /\ tick = 0
    /\ cur = [l \in Levels |-> 0]
    /\ slot = [l \in Levels |-> [s \in 1..Count[l] |-> << >>]]
    /\ reg = [x \in Timers |-> NoReg]
    /\ left = [x \in Timers |-> 0]
    /\ comp = [x \in Timers |-> 0]
    /\ pos = Idle
    /\ called = NoTimer
    /\ due = [x \in Timers |-> 0]
    /\ asked = [x \in Timers |-> 0]

-----------------------------------------------------------------------------
(* Where a timer goes.                                                     *)

\* The wheel, and the slot of it, for a delay.
WheelFor(t) == Min({l \in Levels : t <= getRange(l)})

\* Mutation: the slots are counted from zero.
SlotFor_FromZero(l, t) == ((t \div Param[l] + cur[l]) % Count[l]) + 1

SlotFor(l, t) == ((t \div Param[l] + cur[l] - 1) % Count[l]) + 1

\* Mutation: the distance does not wrap around.
getCurCompTime_NoWrap(l, s) == s - cur[l]

getCurCompTime(l, s) ==
    IF s > cur[l] THEN s - cur[l] ELSE Count[l] - (cur[l] - s)

\* The time that has passed in the current turn of the wheels below l.
Below[l \in Levels] ==
    IF l = 1 THEN 0 ELSE cur[l - 1] * Param[l - 1] + Below[l - 1]

\* The time until slot s of wheel l is worked off.
getCompTime(l, s) == getCurCompTime(l, s) * Param[l] - Below[l]

\* Mutation: a timer that moves keeps its registration tick.
setRegInfo_KeepsTick(x, l, s) ==
    reg' = [reg EXCEPT ![x] = [wheel |-> l, slot |-> s,
                               index |-> Len(slot[l][s]) + 1, tick |-> @.tick]]

setRegInfo(x, l, s) ==
    reg' = [reg EXCEPT ![x] = [wheel |-> l, slot |-> s,
                               index |-> Len(slot[l][s]) + 1, tick |-> tick]]

\* The slots after x has been put where a delay of t belongs.
Added(x, t) ==
    [slot EXCEPT ![WheelFor(t)][SlotFor(WheelFor(t), t)] = Append(@, x)]

\* What Add() does to the timer.
Add(x, t) ==
    LET l == WheelFor(t)
        s == SlotFor(l, t)
    IN  /\ setRegInfo(x, l, s)
        /\ comp' = IF l = 1 THEN comp
                   ELSE [comp EXCEPT ![x] = getCompTime(l, s)]

-----------------------------------------------------------------------------
(* The interface of the scripts.                                           *)

\* The slot that onTime is working off.
Running == slot[pos.wheel][cur[pos.wheel]]

\* A timer nobody needs any more; its name may stand for a new one.
Forget(x) ==
    /\ left' = [left EXCEPT ![x] = 0]
    /\ comp' = [comp EXCEPT ![x] = 0]
    /\ asked' = [asked EXCEPT ![x] = 0]

\* A timer without delay is called at once and never enters a wheel.
addTimer(x, t) ==
    /\ due[x] = 0
    /\ x # called
    /\ \/ pos = Idle /\ t \in Delays
       \/ called # NoTimer /\ t \in CallbackDelays
    /\ slot' = Added(x, t)
    /\ Add(x, t)
    /\ left' = [left EXCEPT ![x] = t]
    /\ due' = [due EXCEPT ![x] = tick + t]
    /\ asked' = [asked EXCEPT ![x] = tick]
    /\ UNCHANGED <<tick, cur, pos, called>>

\* table.remove: a position just behind the end removes nothing.
Without(seq, i) ==
    IF i \in DOMAIN seq THEN SubSeq(seq, 1, i - 1) \o SubSeq(seq, i + 1, Len(seq))
    ELSE seq

\* Mutation: the timers behind the removed one are not renumbered.
Shifted_Not(i, rest) == reg

\* The registrations after position i of a slot was removed and rest is left.
Shifted(i, rest) ==
    [y \in Timers |->
        IF \E j \in i..Len(rest) : rest[j] = y
        THEN [reg[y] EXCEPT !.index = Max({j \in i..Len(rest) : rest[j] = y})]
        ELSE reg[y]]

(***************************************************************************)
(* Remove() of a pending timer, between two ticks or in a callback.  A     *)
(* position further behind the end is an error of table.remove, and        *)
(* nothing happens.  A callback that removes a timer of the slot being     *)
(* worked off moves the positions onTime goes by: that is left out.        *)
(***************************************************************************)
removDelayEvent(x) ==
    LET r    == reg[x]
        rest == Without(slot[r.wheel][r.slot], r.index)
    IN  /\ due[x] # 0
        /\ \/ pos = Idle
           \/ called # NoTimer /\ x \notin Range(Running)
        /\ r.index <= Len(slot[r.wheel][r.slot]) + 1
        /\ slot' = [slot EXCEPT ![r.wheel][r.slot] = rest]
        /\ reg' = [Shifted(r.index, rest) EXCEPT ![x] = NoReg]
        /\ due' = [due EXCEPT ![x] = 0]
        /\ Forget(x)
        /\ UNCHANGED <<tick, cur, pos, called>>

-----------------------------------------------------------------------------
(* onTime.                                                                 *)

\* The next slot of the first wheel becomes the current one.
onTime ==
    /\ pos = Idle
    /\ tick < MaxTick
    /\ tick' = tick + 1
    /\ cur' = [cur EXCEPT ![1] = @ + 1]
    /\ pos' = [wheel |-> 1, index |-> Len(slot[1][cur'[1]])]
    /\ UNCHANGED <<slot, reg, left, comp, called, due, asked>>

\* The callback of x begins.
Call(x) ==
    /\ called' = x
    /\ due' = [due EXCEPT ![x] = 0]

\* The timers of the slot are called from the last to the first.
onTimeCall ==
    /\ pos.wheel = 1
    /\ pos.index \in DOMAIN Running
    /\ called = NoTimer
    /\ Call(Running[pos.index])
    /\ UNCHANGED <<tick, cur, slot, reg, left, comp, pos, asked>>

\* Mutation: a timer that was called stays in its slot.
CallReturns_Keeps ==
    /\ called # NoTimer
    /\ called' = NoTimer
    /\ pos' = [pos EXCEPT !.index = @ - 1]
    /\ reg' = [reg EXCEPT ![called] = NoReg]
    /\ Forget(called)
    /\ UNCHANGED <<tick, cur, slot, due>>

\* The callback has returned and the position it was called from is removed.
CallReturns ==
    /\ called # NoTimer
    /\ called' = NoTimer
    /\ slot' = [slot EXCEPT ![pos.wheel][cur[pos.wheel]] =
                    Without(@, pos.index)]
    /\ pos' = [pos EXCEPT !.index = @ - 1]
    /\ reg' = [reg EXCEPT ![called] = NoReg]
    /\ Forget(called)
    /\ UNCHANGED <<tick, cur, due>>

\* Mutation: the loop ends one timer early.
SlotDone_Early ==
    /\ pos.wheel # 0
    /\ pos.index <= 1
    /\ called = NoTimer

\* The slot is worked off.
SlotDone ==
    /\ pos.wheel # 0
    /\ pos.index = 0
    /\ called = NoTimer

\* The wheel has made a full turn: the next one moves on.
cashAllTurn ==
    /\ SlotDone
    /\ cur[pos.wheel] = Count[pos.wheel]
    /\ pos.wheel < Len(Count)
    /\ LET l == pos.wheel + 1
       IN  /\ cur' = [cur EXCEPT ![l - 1] = 0, ![l] = @ + 1]
           /\ pos' = [wheel |-> l, index |-> Len(slot[l][cur'[l]])]
    /\ UNCHANGED <<tick, slot, reg, left, comp, called, due, asked>>

cashAllDone ==
    /\ SlotDone
    /\ cur[pos.wheel] # Count[pos.wheel] \/ pos.wheel = Len(Count)
    /\ cur' = [cur EXCEPT ![pos.wheel] = IF @ = Count[pos.wheel] THEN 0 ELSE @]
    /\ pos' = Idle
    /\ UNCHANGED <<tick, slot, reg, left, comp, called, due, asked>>

\* The next timer of a slot of an upper wheel, and what is left of its delay.
Moving == Running[pos.index]

TimeLeft == left[Moving] - comp[Moving]

Cashing ==
    /\ pos.wheel > 1
    /\ pos.index \in DOMAIN Running
    /\ called = NoTimer
    /\ left' = [left EXCEPT ![Moving] = TimeLeft]

\* It moves down ...
cashData ==
    /\ Cashing
    /\ TimeLeft > 0
    /\ Add(Moving, TimeLeft)
    /\ slot' = [Added(Moving, TimeLeft) EXCEPT ![pos.wheel][cur[pos.wheel]] =
                    Without(@, pos.index)]
    /\ pos' = [pos EXCEPT !.index = @ - 1]
    /\ UNCHANGED <<tick, cur, called, due, asked>>

\* ... or is due by now.
cashDataCall ==
    /\ Cashing
    /\ TimeLeft <= 0
    /\ Call(Moving)
    /\ UNCHANGED <<tick, cur, slot, reg, comp, pos, asked>>

Next ==
    \/ \E x \in Timers, t \in Delays \cup CallbackDelays : addTimer(x, t)
    \/ \E x \in Timers : removDelayEvent(x)
    \/ onTime \/ onTimeCall \/ CallReturns
    \/ cashAllTurn \/ cashAllDone \/ cashData \/ cashDataCall

Spec == Init /\ [][Next]_vars

-----------------------------------------------------------------------------
(* Properties.                                                             *)

\* Every variable stays in its range.
TypeOK ==
    /\ tick \in 0..MaxTick
    /\ cur \in [Levels -> Nat] /\ \A l \in Levels : cur[l] <= Count[l]
    /\ DOMAIN slot = Levels
    /\ \A l \in Levels : slot[l] \in [1..Count[l] -> Seq(Timers)]
    /\ \A x \in Timers : reg[x].wheel \in {0} \cup Levels /\ reg[x].slot \in Nat
    /\ left \in [Timers -> Int] /\ comp \in [Timers -> Nat]
    /\ pos.wheel \in {0} \cup Levels /\ pos.index \in Nat
    /\ called \in Timers \cup {NoTimer}
    /\ due \in [Timers -> Nat] /\ asked \in [Timers -> Nat]

\* A timer is called at the tick it was asked for, neither earlier nor later
\* and not when it was removed or has been called before: what the delay-event
\* tests of Game/Test.lua check, here through every turn of the wheels.
FiresOnTime ==
    [][called' \notin {called, NoTimer} => due[called'] = tick']_vars

\* No timer is left behind: between two ticks whatever is pending is still to
\* come.
NoneMissed ==
    pos = Idle => \A x \in Timers : due[x] # 0 => due[x] > tick

\* A pending timer is where its registration says, so that Remove takes it out
\* and no other: positions are kept up to date by Add, by Remove, by the moves
\* from wheel to wheel and by onTime's own removals.
RegPointsToSelf ==
    \A x \in Timers : due[x] # 0 =>
        /\ reg[x].wheel \in Levels
        /\ reg[x].index \in DOMAIN slot[reg[x].wheel][reg[x].slot]
        /\ slot[reg[x].wheel][reg[x].slot][reg[x].index] = x

\* TimeOut and RegTick together tell how long a timer still has to wait, however
\* often it has moved (onRemoveDelayEvent of Game/Test.lua computes it so).
RemainingExact ==
    pos = Idle => \A x \in Timers :
        due[x] # 0 => left[x] - (tick - reg[x].tick) = due[x] - tick

\* Remove removes the timer: it is in no slot any more, nor is one that has been
\* called.
RemovedIsGone ==
    pos = Idle => \A x \in Timers : due[x] = 0 =>
        \A l \in Levels : \A s \in 1..Count[l] : x \notin Range(slot[l][s])

\* No callback asks for the full range of a wheel: Add would put the timer into the
\* slot that is being worked off, behind the positions onTime goes by.
NoFullTurn == \A l \in Levels : getRange(l) \notin CallbackDelays

\* RegTick is the tick at which the timer was registered, which is what
\* CompLifeCycle:getInfo subtracts from the present tick. TLC refutes it: a move to
\* a lower wheel sets RegTick again.
RegTickIsRegistration ==
    \A x \in Timers : due[x] # 0 => reg[x].tick = asked[x]
=============================================================================
