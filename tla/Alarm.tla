-------------------------------- MODULE Alarm --------------------------------
(***************************************************************************)
(* The time alarm, class ConditionVariableTimeAlarm, with the thread that  *)
(* counts its rounds with it: the rexmiter of the sender, or the rexmit    *)
(* requester of the receiver.  Each round starts the alarm anew, and the   *)
(* next one comes when the alarm has slept for RTIME and notifies.         *)
(*                                                                         *)
(* Nobody but the alarm notifies the rexmiter.  The requester is notified  *)
(* by main, the barrier and the audio receiver too, and a notify that      *)
(* comes after the condition it belongs to was seen stays behind in        *)
(* notified: Strays bounds how many of these there are.                    *)
(*                                                                         *)
(* Time passes in units of the interval in which a sleeping thread looks   *)
(* at its flags; a thread may take any time for any step.                  *)
(*                                                                         *)
(* A definition that stands directly before another one and has its name   *)
(* with a word more is a mutant of it, a plausible slip in the code.       *)
(***************************************************************************)
EXTENDS Integers

CONSTANTS
  duration,   \* RTIME
  Strays

ASSUME AlarmAssumption == duration \in Nat \ {0} /\ Strays \in Nat

VARIABLES
  client,   \* where it is in its loop, and its flag notified
  alarm,    \* where the alarm is, and its flags
  left,     \* the time until the end point of sleep_for
  strays,   \* notifies of others that are still to come
  since     \* the time since the last start_counting, up to duration

alarmVars == <<client, alarm, left, strays, since>>

AlarmTypeOK ==
  /\ client \in [pc : {"count", "work", "wait", "asleep"}, notified : BOOLEAN]
  /\ alarm \in [pc : {"wait", "asleep", "begin", "sleep", "ring"},
                notified : BOOLEAN, is_new_request : BOOLEAN,
                sleeping : BOOLEAN]
  /\ left \in 0 .. duration
  /\ since \in 0 .. duration
  /\ strays \in 0 .. Strays

AlarmInit ==
  /\ client = [pc |-> "count", notified |-> FALSE]
  /\ alarm = [pc |-> "wait", notified |-> FALSE, is_new_request |-> FALSE,
              sleeping |-> FALSE]
  /\ left = 0
  /\ since = duration
  /\ strays = Strays

-----------------------------------------------------------------------------
\* What notify() does to a thread: it is not asleep in its wait any longer.
Woken(thread) == IF thread.pc = "asleep" THEN "wait" ELSE thread.pc

-----------------------------------------------------------------------------
(* The client.                                                             *)

\* start_counting(): the request, and a notify that also ends a sleep_for.
StartCountingSilently ==
  /\ client.pc = "count"
  /\ alarm' = [alarm EXCEPT !.is_new_request = TRUE]
  /\ client' = [client EXCEPT !.pc = "work"]
  /\ since' = 0
  /\ UNCHANGED <<left, strays>>
StartCounting ==
  /\ client.pc = "count"
  /\ alarm' = [alarm EXCEPT !.is_new_request = TRUE, !.notified = TRUE,
                            !.sleeping = FALSE, !.pc = Woken(alarm)]
  /\ client' = [client EXCEPT !.pc = "work"]
  /\ since' = 0
  /\ UNCHANGED <<left, strays>>

\* The report of missing packets, or the series of retransmissions.
Work ==
  /\ client.pc = "work"
  /\ client' = [client EXCEPT !.pc = "wait"]
  /\ UNCHANGED <<alarm, left, strays, since>>

\* wait_until_notifying(): any notify since the last wait will do.
WaitForAlarmKeepingFlag ==
  /\ client.pc = "wait"
  /\ client' = [client EXCEPT !.pc = IF client.notified THEN "count"
                                     ELSE "asleep"]
  /\ UNCHANGED <<alarm, left, strays, since>>
WaitForAlarm ==
  /\ client.pc = "wait"
  /\ client' = IF client.notified
               THEN [pc |-> "count", notified |-> FALSE]
               ELSE [client EXCEPT !.pc = "asleep"]
  /\ UNCHANGED <<alarm, left, strays, since>>

ClientStep == StartCounting \/ Work \/ WaitForAlarm

\* A notify of the requester that is not meant for this wait.
StrayNotify ==
  /\ strays > 0
  /\ strays' = strays - 1
  /\ client' = [pc |-> Woken(client), notified |-> TRUE]
  /\ UNCHANGED <<alarm, left, since>>

-----------------------------------------------------------------------------
(* The alarm.                                                              *)

Requested == alarm.notified /\ alarm.is_new_request

TakeRequest ==
  /\ alarm.pc = "wait"
  /\ alarm' = IF Requested
              THEN [alarm EXCEPT !.pc = "begin", !.notified = FALSE,
                                 !.is_new_request = FALSE]
              ELSE [alarm EXCEPT !.pc = "asleep"]
  /\ UNCHANGED <<client, left, strays, since>>

\* sleep_for(): asleep until the end point or until sleeping is reset.
BeginSleepUnmarked ==
  /\ alarm.pc = "begin"
  /\ alarm' = [alarm EXCEPT !.pc = "sleep"]
  /\ left' = duration
  /\ UNCHANGED <<client, strays, since>>
BeginSleep ==
  /\ alarm.pc = "begin"
  /\ alarm' = [alarm EXCEPT !.pc = "sleep", !.sleeping = TRUE]
  /\ left' = duration
  /\ UNCHANGED <<client, strays, since>>

EndSleep ==
  /\ alarm.pc = "sleep"
  /\ left = 0 \/ ~alarm.sleeping
  /\ alarm' = [alarm EXCEPT !.pc = "ring", !.sleeping = FALSE]
  /\ left' = 0
  /\ UNCHANGED <<client, strays, since>>

\* notify_client()
Ring ==
  /\ alarm.pc = "ring"
  /\ client' = [pc |-> Woken(client), notified |-> TRUE]
  /\ alarm' = [alarm EXCEPT !.pc = "wait"]
  /\ UNCHANGED <<left, strays, since>>

AlarmStep == TakeRequest \/ BeginSleep \/ EndSleep \/ Ring

-----------------------------------------------------------------------------
\* system_clock::now() moves on.
RemainingUnclamped == left - 1
Remaining == IF left > 0 THEN left - 1 ELSE 0

Tick ==
  /\ left' = Remaining
  /\ since' = IF since < duration THEN since + 1 ELSE since
  /\ UNCHANGED <<client, alarm, strays>>

AlarmNext == ClientStep \/ StrayNotify \/ AlarmStep \/ Tick

AlarmSpec == AlarmInit /\ [][AlarmNext]_alarmVars

FairAlarmSpec ==
  AlarmSpec /\ WF_alarmVars(ClientStep) /\ WF_alarmVars(AlarmStep) /\ WF_alarmVars(Tick)

-----------------------------------------------------------------------------
\* Rounds under way: the client begins one or was told to, or the alarm was
\* asked for one, sleeps for it or rings.
One(condition) == IF condition THEN 1 ELSE 0

Rounds ==
  One(client.pc = "count") + One(client.notified) + One(alarm.is_new_request)
    + One(alarm.pc \in {"begin", "sleep", "ring"})

\* Of client and alarm one always has the turn, so that none waits for a
\* notify that was given already, and but for stray notifies only one: each
\* of these may leave one round more under way, for ever.
OneRoundIsUnderWay == 1 <= Rounds /\ Rounds <= 1 + Strays - strays

\* Two rounds begin at least RTIME apart, however the steps are timed: always
\* for the rexmiter, for the requester until a stray notify breaks it, since
\* the next start_counting then ends the sleep of the alarm.
QuietRoundsAreApart ==
  [][strays = Strays /\ client.pc = "count" /\ client'.pc = "work"
       => since >= duration]_alarmVars

\* The rounds never stop.
KeepsReporting == []<>(client.pc = "count")
=============================================================================
