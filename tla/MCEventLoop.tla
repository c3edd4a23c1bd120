----------------------------- MODULE MCEventLoop -----------------------------
(* Instances of EventLoop.  Two ticks make a millisecond. *)
EXTENDS EventLoop

\* Below MIN_DELAY, no whole number of milliseconds, beyond MAX_WAIT.
MCDelays == {0, 5}
MCDelaysNaN == {0, 3, NaN}
=============================================================================
