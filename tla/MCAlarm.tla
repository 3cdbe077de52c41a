------------------------------- MODULE MCAlarm -------------------------------
(* Model checking of the alarm with both of its clients.                    *)
EXTENDS Alarm
=============================================================================
