------------------------------ MODULE Stations ------------------------------
(***************************************************************************)
(* The list of radio stations of the receiver and the choice of the one to *)
(* play: RepliesReceiver fills the list, an alarm asks the main thread to  *)
(* drop the silent stations, TCP clients move the choice up or down, and   *)
(* one iteration of MainThread::run looks at all of it.                    *)
(*                                                                         *)
(* The list is sorted, so a station is a number.  channels_mutex is held   *)
(* by main from the start of an iteration to its end (mpc # "wait"); the   *)
(* alarm and the TCP clients do not take it.  Time is not measured: a      *)
(* station becomes silent at any moment and the alarm rings at any moment. *)
(***************************************************************************)
EXTENDS Integers, FiniteSets

CONSTANTS
  Radios,     \* the stations that may answer a LOOKUP, in the list's order
  Expected,   \* those whose name is the one given with the option -n
  Unsteady,   \* those that may stop answering
  Moves,      \* what an arrow key adds to curr_channel_change: 1, -1
  None        \* channels.end()

ASSUME StationsAssumption ==
  /\ Radios \subseteq Nat /\ IsFiniteSet(Radios)
  /\ Expected \subseteq Radios /\ Unsteady \subseteq Radios
  /\ Moves \subseteq {1, -1} /\ None \notin Radios

VARIABLES
  channels,            \* the listed stations
  silent,              \* those that sent no reply for channel_expiration
  fresh,               \* those of Expected with is_new (of no use in others)
  chosen_channel,
  curr_channel_change,
  is_new_channel,
  was_alarm,
  alarm_counts,        \* the alarm of the main thread is counting down
  mpc,                 \* where main is in its loop
  main_signal          \* "none": not notified since the last iteration;
                       \* "notified": to evaluate its predicate; "slept": was
                       \* notified, found it false, waits for another notify

listVars == <<channels, silent, fresh, chosen_channel>>
signalVars == <<is_new_channel, was_alarm, alarm_counts>>
mainVars == <<mpc, main_signal>>
stationsVars == <<listVars, curr_channel_change, signalVars, mainVars>>

StationsTypeOK ==
  /\ channels \subseteq Radios
  /\ silent \subseteq channels
  /\ fresh \subseteq channels \cap Expected
  /\ chosen_channel \in Radios \cup {None}
  /\ curr_channel_change \in {-1, 0, 1}
  /\ {is_new_channel, was_alarm, alarm_counts} \subseteq BOOLEAN
  /\ main_signal \in {"none", "notified", "slept"}
  /\ mpc \in {"wait", "stop", "request", "init", "finish", "crashed"}

StationsInit ==
  /\ channels = {} /\ silent = {} /\ fresh = {}
  /\ chosen_channel = None
  /\ curr_channel_change = 0
  /\ is_new_channel = FALSE
  /\ was_alarm = TRUE /\ alarm_counts = FALSE
  /\ mpc = "wait" /\ main_signal = "none"

-----------------------------------------------------------------------------
\* A definition that stands directly before another one and has its name with
\* a word more is a mutant of it, a plausible slip in the code.

ChannelsMutexFree == mpc = "wait"

NotifyMain == main_signal' = "notified"

First(S) == CHOOSE s \in S : \A r \in S : s <= r
Last(S) == CHOOSE s \in S : \A r \in S : r <= s
Begin(S) == IF S = {} THEN None ELSE First(S)

\* The neighbour of s in the list, s itself at the end of the list.
Neighbour(S, s, move) ==
  LET beyond == {r \in S : (r - s) * move > 0}
  IN  IF beyond = {} THEN s
      ELSE IF move > 0 THEN First(beyond) ELSE Last(beyond)

-----------------------------------------------------------------------------
\* Another part of the program has a REPLY of s for the list.
Reply(s) ==
  /\ ChannelsMutexFree
  /\ IF s \in channels
     THEN /\ silent' = silent \ {s}
          /\ UNCHANGED <<channels, fresh, is_new_channel, mainVars>>
     ELSE /\ channels' = channels \cup {s}
          /\ fresh' = fresh \cup ({s} \cap Expected)
          /\ is_new_channel' = TRUE
          /\ NotifyMain
          /\ UNCHANGED <<silent, mpc>>
  /\ UNCHANGED <<chosen_channel, curr_channel_change, was_alarm, alarm_counts>>

\* channel_expiration has passed since the last reply of s.
FallSilent(s) ==
  /\ s \in Unsteady \cap (channels \ silent)
  /\ silent' = silent \cup {s}
  /\ UNCHANGED <<channels, fresh, chosen_channel, curr_channel_change,
                 signalVars, mainVars>>

\* An arrow key of a TCP client; a key not yet served is overwritten.
ChangeChannelAdding(move) ==
  /\ curr_channel_change' = curr_channel_change + move
  /\ NotifyMain
  /\ UNCHANGED <<listVars, signalVars, mpc>>
ChangeChannel(move) ==
  /\ curr_channel_change' = move
  /\ NotifyMain
  /\ UNCHANGED <<listVars, signalVars, mpc>>

AlarmRings ==
  /\ alarm_counts
  /\ alarm_counts' = FALSE
  /\ was_alarm' = TRUE
  /\ NotifyMain
  /\ UNCHANGED <<listVars, curr_channel_change, is_new_channel, mpc>>

-----------------------------------------------------------------------------
\* The wakeup predicate; a recent set_alarm makes it hold as well, and so
\* does what the audio threads tell main (other).
Wakeup(recent, other) ==
  /\ channels # {}
  /\ \/ is_new_channel \/ was_alarm \/ curr_channel_change # 0
     \/ recent \/ other

PassesOverList == is_new_channel \/ was_alarm

\* The list that check_channels_expiration_times leaves.
Kept == IF PassesOverList THEN channels \ silent ELSE channels

\* Nothing is chosen, or what was chosen has been dropped.
NeededForAnyDrop == chosen_channel = None \/ Kept # channels
NeededOnlyAtStart == chosen_channel = None
AnyNeeded == chosen_channel \notin Kept

\* The stations named by -n that came to the list since the last look.
Noticed == IF is_new_channel THEN Kept \cap fresh ELSE {}

\* check_new_presence_of_exepected_channel: stop at the one that is chosen
\* already, otherwise go through all and stay at the last.
ExpectedIsChosen == Noticed # {} /\ chosen_channel = First(Noticed)
LookedAt == IF ExpectedIsChosen THEN {chosen_channel} ELSE Noticed
AfterExpected ==
  IF Noticed = {} \/ ExpectedIsChosen THEN chosen_channel ELSE Last(Noticed)

AfterAny == IF AnyNeeded THEN Begin(Kept) ELSE AfterExpected

AfterUser ==
  IF AfterAny = None \/ curr_channel_change = 0 THEN AfterAny
  ELSE Neighbour(Kept, AfterAny, curr_channel_change)

\* channel_was_changed
Changed ==
  \/ AnyNeeded
  \/ AfterExpected # chosen_channel
  \/ AfterUser # AfterAny

\* wait_until_notifying: notified, but there is nothing to do yet.
MainSleeps(recent, other) ==
  /\ mpc = "wait" /\ main_signal = "notified"
  /\ ~Wakeup(recent, other)
  /\ main_signal' = "slept"
  /\ UNCHANGED <<listVars, curr_channel_change, signalVars, mpc>>

\* An iteration up to the question whether to stop the audio threads.
MainChecks(recent, other, next) ==
  /\ mpc = "wait" /\ main_signal = "notified"
  /\ Wakeup(recent, other)
  /\ main_signal' = "none"
  /\ mpc' = next
  /\ channels' = Kept
  /\ silent' = silent \cap Kept
  /\ fresh' = (fresh \cap Kept) \ LookedAt
  /\ chosen_channel' = AfterUser
  /\ curr_channel_change' = IF AfterAny = None THEN curr_channel_change ELSE 0
  /\ UNCHANGED signalVars

\* The pass over the list erases an element and then steps the iterator to it:
\* where the memory of the element is not left as it was, main crashes.
MainFaults(recent, other) ==
  /\ mpc = "wait" /\ main_signal = "notified"
  /\ Wakeup(recent, other)
  /\ Kept # channels
  /\ mpc' = "crashed" /\ main_signal' = "none"
  /\ UNCHANGED <<listVars, curr_channel_change, signalVars>>

\* The end of an iteration: set_alarm, and nothing is new any more.
MainFinishesKeepingAlarm ==
  /\ mpc = "finish"
  /\ mpc' = "wait"
  /\ is_new_channel' = FALSE
  /\ was_alarm' = FALSE
  /\ UNCHANGED <<listVars, curr_channel_change, alarm_counts, main_signal>>
MainFinishes ==
  /\ mpc = "finish"
  /\ mpc' = "wait"
  /\ is_new_channel' = FALSE
  /\ was_alarm' = FALSE
  /\ alarm_counts' = (alarm_counts \/ was_alarm)
  /\ UNCHANGED <<listVars, curr_channel_change, main_signal>>

\* What happens around the main thread at any time.
Surroundings ==
  \/ \E s \in Radios : Reply(s) \/ FallSilent(s)
  \/ \E move \in Moves : ChangeChannel(move)
  \/ AlarmRings

StationsNext ==
  \/ Surroundings
  \/ \E recent \in BOOLEAN :
       \/ MainSleeps(recent, FALSE)
       \/ MainChecks(recent, FALSE, "finish")
       \/ MainFaults(recent, FALSE)
  \/ MainFinishes

StationsSpec == StationsInit /\ [][StationsNext]_stationsVars

\* An alarm that counts rings in the end, and not within a running iteration
\* every time (that ring is lost: the flag is reset after it was looked at);
\* a main thread that is woken runs.  Nothing is assumed of the clause of the
\* predicate that depends on the time.
StationsFairness ==
  /\ SF_stationsVars(ChannelsMutexFree /\ AlarmRings)
  /\ WF_stationsVars(MainChecks(FALSE, FALSE, "finish"))
  /\ WF_stationsVars(MainFinishes)

FairStationsSpec == StationsSpec /\ StationsFairness

-----------------------------------------------------------------------------
\* The station that plays is on the list: when it is dropped another one is
\* chosen, or none while the list is empty.
ChosenIsListed == chosen_channel # None => chosen_channel \in channels

\* A station that plays goes on playing while it is listed: neither another
\* station's arrival or silence nor the alarm takes it away, only the user
\* or a new station with the name given by -n does.
PlayingIsNotDisturbed ==
  [][chosen_channel # chosen_channel' =>
       \/ chosen_channel \notin channels'
       \/ curr_channel_change # 0
       \/ fresh # {}]_stationsVars

\* A station that stays silent is dropped from the list, where main survives
\* the pass over it.
SilentIsDropped ==
  \A s \in Radios : s \in silent ~> s \notin silent \/ mpc = "crashed"

\* Unless the user chose otherwise, a station with the name given by -n plays
\* as soon as main has noticed it.
ExpectedPlays ==
  mpc = "wait" /\ Expected \cap channels # {}
                  => \/ chosen_channel \in Expected
                     \/ fresh # {}
=============================================================================
