\* Timers that are always reset before they expire: vt_lasttime stays behind.
SPECIFICATION Spec
CONSTANTS
  Timers = {v1, v2}
  Delays = {3}
  Wrap = 16
  TimeDelta = 2
  Slip = 1
  Latency = 1
  BaseMayAge = TRUE
SYMMETRY TimerSymmetry
INVARIANT
  NeverEarly
