---------------------------- MODULE RequestClock ----------------------------
(* The HTTP requests of one server process and its clock, time.Now.         *)
EXTENDS Naturals

CONSTANTS Requests,
          MaxTime   \* bound on the clock

ASSUME ClockAssumption == MaxTime \in Nat

VARIABLE now

Tick == now < MaxTime /\ now' = now + 1
=============================================================================
