-------------------------------- MODULE ChVT --------------------------------
(***************************************************************************)
(* Virtual timers (chvt.c, chVTDoTickI of chvt.h) without a periodic tick: *)
(* the list of armed timers, each with its distance to the one before it,  *)
(* and one alarm of a free running counter (st_lld.h, st_lld.c).           *)
(*                                                                         *)
(* The counter wraps at Wrap.  It also moves while a call is executed:     *)
(* between its reading of the counter and the alarm it programs, Slip      *)
(* ticks at most.  An alarm is a match of the counter; one programmed for  *)
(* a time that has passed is missed.  The handler calls the callbacks with *)
(* the lock released: they, and more urgent handlers, use timers, too.     *)
(***************************************************************************)
EXTENDS Integers, Sequences, FiniteSets, SequencesExt

CONSTANTS
  Timers,      \* virtual timers
  Delays,      \* delays they are set to
  Wrap,        \* 2^CH_CFG_ST_RESOLUTION
  TimeDelta,   \* CH_CFG_ST_TIMEDELTA
  Slip,        \* ticks that may pass between a reading and an alarm
  Latency,     \* ticks that may pass before an interrupt is served
  BaseMayAge   \* nothing keeps vt_lasttime close to the time

Larger(a, b) == IF a < b THEN b ELSE a

\* The latest a callback is called: its alarm may have been put off until
\* TimeDelta ticks after a reading at which one tick was left, and a call
\* that started before the alarm ends Slip - 1 ticks after it.
MaxLate == Latency + (TimeDelta - 1) + (Slip - 1)

\* And the latest the handler looks at a list that was emptied in the
\* meantime: one interrupt was being served, another one was pending.
Margin == MaxLate + 2 * Latency

ASSUME TimeAssumption ==
  /\ Wrap \in Nat \ {0} /\ TimeDelta \in Nat /\ Slip \in Nat \ {0} /\ Latency \in Nat
  /\ Slip < TimeDelta
  /\ BaseMayAge \in BOOLEAN
  /\ Delays \subseteq 1..Wrap - 1
  \* The counter does not wrap while a single timer is armed.
  /\ \A d \in Delays : Larger(d, TimeDelta) + Margin < Wrap - 1

VARIABLES
  time,        \* the counter
  vtlist,      \* ch.vtlist: the timers, vt_delta of each, vt_lasttime, and
               \* the comparator: its value and whether it interrupts
  flag,        \* CC1IF, the match flag of the comparator
  latched,     \* the interrupt is pending in the interrupt controller
  ticking,     \* the handler runs, its lock released
  behind,      \* ticks since the interrupt became pending or was served
  left,        \* history: ticks until each armed timer is due
  late         \* history: how late the last callback was

hw   == <<flag, latched, behind>>
vars == <<time, vtlist, hw, ticking, left, late>>

Sub(a, b) == (a - b) % Wrap
Add(a, b) == (a + b) % Wrap
Armed(t) == t \in ToSet(vtlist.list)

\* Mutation: a short delay is not raised.
RaisedNot(delay) == delay

\* Never an alarm closer than CH_CFG_ST_TIMEDELTA.
Raised(delay) == Larger(delay, TimeDelta)

-----------------------------------------------------------------------------
\* The scan of the delta list: what is left of delta at each timer of it.
Remaining(v, delta) ==
  LET rem[i \in 1..Len(v.list) + 1] ==
        IF i = 1 THEN delta ELSE rem[i - 1] - v.delta[v.list[i - 1]]
  IN rem

\* The insertion of t at distance delta.
Inserted(v, t, delta) ==
  LET rem == Remaining(v, delta)
      at == CHOOSE i \in DOMAIN rem :
              /\ \A j \in 1..i - 1 : v.delta[v.list[j]] < rem[j]
              /\ i <= Len(v.list) => v.delta[v.list[i]] >= rem[i]
  IN [v EXCEPT
        !.list = InsertAt(@, at, t),
        !.delta = [u \in Timers |->
                     IF u = t THEN rem[at]
                     ELSE IF at <= Len(v.list) /\ u = v.list[at] THEN @[u] - rem[at]
                     ELSE @[u]]]

\* chVTDoSetI
DoSetI(v, t, request) ==
  LET delay == Raised(request)
      delta == Sub(Add(time, delay), v.last)
  IN IF v.list = <<>>
       THEN [list |-> <<t>>, delta |-> [v.delta EXCEPT ![t] = delay],
             last |-> time, alarm |-> Add(time, delay), on |-> TRUE]
       ELSE Inserted(
              IF delta < v.delta[Head(v.list)] THEN [v EXCEPT !.alarm = Add(v.last, delta)] ELSE v,
              t, delta)

\* Mutation: the distance of a removed timer is lost.
GapLost(distance, removed) == distance

\* The distance of a removed timer is added to that of the next one.
GapClosed(distance, removed) == Add(distance, removed)

\* chVTDoResetI
DoResetI(v, t) ==
  LET i    == CHOOSE j \in DOMAIN v.list : v.list[j] = t
      rest == RemoveAt(v.list, i)
      u    == [v EXCEPT !.list = rest,
                 !.delta = [x \in Timers |->
                    IF x = t THEN 0
                    ELSE IF i < Len(v.list) /\ x = v.list[i + 1] THEN GapClosed(@[x], @[t])
                    ELSE @[x]]]
      since == Sub(time, v.last)
      first == u.delta[Head(rest)]
  IN IF i # 1 THEN u
     ELSE IF rest = <<>> THEN [u EXCEPT !.on = FALSE]
     ELSE IF since >= first THEN u
     ELSE [u EXCEPT !.alarm = Add(Add(v.last, since), Larger(first - since, TimeDelta))]

\* chVTDoTickI, one timer: it leaves the list and vt_lasttime moves to it.
Popped(v) ==
  [v EXCEPT
     !.list = Tail(@), !.last = Add(@, v.delta[Head(v.list)]),
     !.delta = [@ EXCEPT ![Head(v.list)] = 0],
     !.on = @ /\ Len(v.list) > 1]

\* chVTDoTickI, its end: the alarm for the timer that is first now.
Rearmed(v) ==
  IF v.list = <<>> THEN v
  ELSE [v EXCEPT !.alarm =
          Add(time, Larger(Sub(Add(v.last, v.delta[Head(v.list)]), time), TimeDelta))]

Due == vtlist.list # <<>> /\ vtlist.delta[Head(vtlist.list)] <= Sub(time, vtlist.last)

-----------------------------------------------------------------------------
\* The counter moves d ticks, with the comparator as it was: it matches, and
\* interrupts if it is enabled.
Matched(d) == \E i \in 1..d : Add(time, i) = vtlist.alarm

Moves(d, clears) ==
  /\ (latched \/ ticking) => behind + d <= Latency
  /\ time' = Add(time, d)
  /\ latched' = (latched \/ (Matched(d) /\ vtlist.on))
  /\ flag' = ((flag \/ Matched(d)) /\ ~clears)

Lags(d) == behind' = IF latched \/ ticking THEN behind + d ELSE 0

Ages(d) == [t \in Timers |-> IF Armed(t) THEN left[t] - d ELSE left[t]]

\* Time passes outside the calls.
Tick ==
  /\ Moves(1, FALSE)
  /\ Lags(1)
  /\ left' = Ages(1)
  /\ UNCHANGED <<vtlist, ticking, late>>

\* Mutation: a timer that is armed is not taken out of the list first.
DisarmedNot(t) == vtlist

\* chVTResetI under the lock.
Disarmed(t) == IF Armed(t) THEN DoResetI(vtlist, t) ELSE vtlist

\* vt_lasttime moves when a timer expires or is set on an empty list, but not
\* when timers are reset: timers that are always reset before they expire
\* leave it behind.  This is the case that does not go that far.
BaseFresh(v, delay) ==
  v.list = <<>> \/ Sub(time, v.last) + Raised(delay) + Margin < Wrap - 1

\* chVTSetI and chVTSet: chVTResetI, then chVTDoSetI, which on an empty list
\* starts the alarm and clears the match flag.
SetI(t, delay, d) ==
  /\ BaseMayAge \/ BaseFresh(Disarmed(t), delay)
  /\ Moves(d, Disarmed(t).list = <<>>)
  /\ Lags(d)
  /\ vtlist' = DoSetI(Disarmed(t), t, delay)
  /\ left' = [Ages(d) EXCEPT ![t] = Raised(delay) - d]
  /\ UNCHANGED <<ticking, late>>

\* chVTResetI and chVTReset
ResetI(t, d) ==
  /\ Armed(t)
  /\ Moves(d, FALSE)
  /\ Lags(d)
  /\ vtlist' = Disarmed(t)
  /\ left' = [Ages(d) EXCEPT ![t] = 0]
  /\ UNCHANGED <<ticking, late>>

-----------------------------------------------------------------------------
\* The interrupt is served; without a match it is ignored.
Serve ==
  /\ latched /\ ~ticking
  /\ latched' = FALSE
  /\ flag' = FALSE
  /\ ticking' = flag
  /\ UNCHANGED <<time, vtlist, behind, left, late>>

\* The loop of chVTDoTickI finds a timer due and calls its callback.
TickCallback ==
  /\ ticking
  /\ Due
  /\ vtlist' = Popped(vtlist)
  /\ late' = 0 - left[Head(vtlist.list)]
  /\ left' = [left EXCEPT ![Head(vtlist.list)] = 0]
  /\ UNCHANGED <<time, hw, ticking>>

\* The loop ends: the next alarm is programmed.
TickEnd(d) ==
  /\ ticking
  /\ ~Due
  /\ Moves(d, FALSE)
  /\ behind' = 0
  /\ vtlist' = Rearmed(vtlist)
  /\ left' = Ages(d)
  /\ ticking' = FALSE
  /\ UNCHANGED late

-----------------------------------------------------------------------------
\* _vt_init, st_lld_init
Init ==
  /\ time = 0
  /\ vtlist = [list |-> <<>>, delta |-> [t \in Timers |-> 0], last |-> 0,
               alarm |-> 0, on |-> FALSE]
  /\ flag = FALSE /\ latched = FALSE /\ behind = 0
  /\ ticking = FALSE
  /\ left = [t \in Timers |-> 0]
  /\ late = 0

Next ==
  \/ Tick
  \/ \E t \in Timers, d \in 0..Slip : ResetI(t, d) \/ \E delay \in Delays : SetI(t, delay, d)
  \/ Serve
  \/ TickCallback
  \/ \E d \in 0..Slip : TickEnd(d)

Spec == Init /\ [][Next]_vars

-----------------------------------------------------------------------------
\* Types; a timer is in the list once; distances and times fit the counter.
TypeOK ==
  /\ time \in 0..Wrap - 1
  /\ vtlist \in [list : Seq(Timers), delta : [Timers -> 0..Wrap - 1],
                 last : 0..Wrap - 1, alarm : 0..Wrap - 1, on : BOOLEAN]
  /\ IsInjective(vtlist.list)
  /\ flag \in BOOLEAN /\ latched \in BOOLEAN /\ ticking \in BOOLEAN
  /\ behind \in 0..Latency
  /\ left \in [Timers -> Int]
  /\ late \in Int

\* The list is exact: whatever was inserted and removed, before and after the
\* wrap of the counter, vt_lasttime and the distances up to a timer add up to
\* the time it is due at.
DeltaListExact ==
  LET at[i \in DOMAIN vtlist.list] ==
        (IF i = 1 THEN vtlist.last ELSE at[i - 1]) + vtlist.delta[vtlist.list[i]]
  IN \A i \in DOMAIN vtlist.list : at[i] % Wrap = Add(time, left[vtlist.list[i]])

\* "The timer is enabled and programmed to trigger after the delay specified"
\* (chVTDoSetI): no callback before that.
NeverEarly == late >= 0

\* A callback is never early, and never later than the interrupt latency
\* explains; nor does an armed timer wait for an alarm that will not come, nor
\* is the header, with its distance of (systime_t)-1, taken for a timer.
FiresInWindow ==
  /\ late \in 0..MaxLate
  /\ \A t \in Timers : Armed(t) => left[t] >= 0 - MaxLate
  /\ ticking /\ vtlist.list = <<>> => Sub(time, vtlist.last) < Wrap - 1

=============================================================================
