------------------------------- MODULE Alarms -------------------------------
(***************************************************************************)
(* What the users of src/common/timer.c rely on, told without timer ids:   *)
(* each alarm is off or due at some time, which may be past; it rings when *)
(* it is due, the earliest first, one at a time and only while it is on;   *)
(* no call changes more than one alarm.                                    *)
(***************************************************************************)
EXTENDS Naturals

CONSTANTS Alarms, NoAlarm, LateLimit

VARIABLES alarms,   \* alarm -> when it is due, and how often
          ringing,  \* the alarm whose function runs
          now

alarm_vars == <<alarms, ringing, now>>

Off     == [on |-> FALSE, due |-> 0, every |-> 0]   \* every 0: rings once
Only(x) == \A y \in Alarms \ {x} : alarms'[y] = alarms[y]

Set(x) ==
  /\ ~alarms[x].on
  /\ alarms'[x].on
  /\ Only(x) /\ UNCHANGED <<ringing, now>>
Cancel(x) ==
  /\ alarms[x].on
  /\ alarms'[x] = Off
  /\ Only(x) /\ UNCHANGED <<ringing, now>>
Move(x) ==
  /\ alarms[x].on
  /\ alarms'[x].on
  /\ alarms'[x].every = alarms[x].every
  /\ Only(x) /\ UNCHANGED <<ringing, now>>

\* Beats that were missed are made up for, unless it rings too late.
NextBeat(x, t) ==
  alarms[x].every + (IF t > alarms[x].due + LateLimit THEN t ELSE alarms[x].due)

Ring(x) ==
  /\ ringing = NoAlarm /\ ringing' = x
  /\ alarms[x].on /\ alarms[x].due <= now
  /\ \A y \in Alarms : alarms[y].on => alarms[x].due <= alarms[y].due
  /\ IF alarms[x].every = 0
     THEN alarms'[x] = Off
     ELSE \E t \in alarms[x].due..now :
            alarms'[x] = [alarms[x] EXCEPT !.due = NextBeat(x, t)]
  /\ Only(x) /\ UNCHANGED now
Done ==
  /\ ringing # NoAlarm /\ ringing' = NoAlarm
  /\ UNCHANGED <<alarms, now>>

TimePasses ==
  /\ now' > now
  /\ UNCHANGED <<alarms, ringing>>

AlarmsInit ==
  /\ alarms = [x \in Alarms |-> Off]
  /\ ringing = NoAlarm
  /\ now = 0
AlarmsNext ==
  \/ \E x \in Alarms : Set(x) \/ Cancel(x) \/ Move(x) \/ Ring(x)
  \/ Done \/ TimePasses
AlarmsSpec == AlarmsInit /\ [][AlarmsNext]_alarm_vars
=============================================================================
