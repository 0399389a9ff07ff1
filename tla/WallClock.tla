----------------------------- MODULE WallClock -----------------------------
(* The clock the scheduler's workers read (time.Now, and NOW() in Postgres,   *)
(* which the code treats as one clock).  A unit is whatever the smallest      *)
(* grace period, interval or window of an instance is.                        *)
EXTENDS Naturals

CONSTANT Horizon        \* bound: the last instant of a behaviour
ASSUME HorizonIsTime == Horizon \in Nat

VARIABLE now

Tick == now < Horizon /\ now' = now + 1
=============================================================================
