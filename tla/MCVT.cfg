\* Timers on a counter of a few bits, which wraps again and again;
\* vt_lasttime is kept close to the time.
SPECIFICATION Spec
CONSTANTS
  Timers = {v1, v2, v3}
  Delays = {1, 3}
  Wrap = 16
  TimeDelta = 2
  Slip = 1
  Latency = 1
  BaseMayAge = FALSE
SYMMETRY TimerSymmetry
INVARIANTS
  TypeOK
  DeltaListExact
  FiresInWindow
