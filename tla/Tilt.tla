-------------------------------- MODULE Tilt --------------------------------
(***************************************************************************)
(* Tilt mode (flysentinel/FlySentinel.cpp): when the time between two      *)
(* calls of timer() is negative or long, the clock was set or the process  *)
(* was stopped, and for a while no instance is judged.  The elapsed times  *)
(* are unsigned.  timer() runs the check, ScriptQueue has its scripts;     *)
(* handleFlyInstance has no caller yet and is called from outside.  The    *)
(* clock runs, and at any time it is set.                                  *)
(***************************************************************************)
EXTENDS Integers

CONSTANTS
  TiltTrigger,  \* SENTINEL_TILT_TRIGGER
  TiltPeriod,   \* SENTINEL_TILT_PERIOD
  LastTime      \* bound: the clock

ASSUME TiltAssumption == TiltTrigger \in Nat /\ TiltPeriod \in Nat /\ LastTime \in Nat

VARIABLES
  time,           \* mstime()
  previousTime,
  tilt,
  tiltStartTime,
  judged,         \* history: an instance was judged in this step
  calm,           \* history: time that checks found regular since they last
                  \* did not, no more than TiltPeriod
  setSince        \* history: the clock was set after the last check

tiltVars == <<time, previousTime, tilt, tiltStartTime, judged, calm, setSince>>

TiltInit ==
  /\ time \in 0..LastTime /\ previousTime = time
  /\ tilt = FALSE /\ tiltStartTime = 0
  /\ judged = FALSE
  /\ calm = TiltPeriod /\ setSince = FALSE

(* The difference of two times as a uint64_t exceeds the bound.            *)
Exceeds(later, earlier, bound) == later < earlier \/ later - earlier > bound

(* Mutant: tilt mode that goes on keeps its start.                         *)
KeptStart == tiltStartTime' = IF tilt THEN tiltStartTime ELSE time
NewStart  == tiltStartTime' = time

AtMost(n) == IF n > TiltPeriod THEN TiltPeriod ELSE n

(* checkTiltCondition. Its event has no instance and is dropped.           *)
checkTiltCondition ==
  /\ IF Exceeds(time, previousTime, TiltTrigger)
     THEN tilt' = TRUE /\ NewStart /\ calm' = 0
     ELSE calm' = AtMost(calm + time - previousTime) /\ UNCHANGED <<tilt, tiltStartTime>>
  /\ previousTime' = time
  /\ judged' = FALSE /\ setSince' = FALSE
  /\ UNCHANGED time

(* handleFlyInstance after sendPeriodicCommands, for which see             *)
(* InstanceLink: it leaves tilt mode when the period is over.              *)
StillTilted == tilt /\ ~Exceeds(time, tiltStartTime, TiltPeriod - 1)

handleFlyInstance ==
  /\ judged' = ~StillTilted
  /\ tilt' = StillTilted
  /\ UNCHANGED <<time, previousTime, tiltStartTime, calm, setSince>>

TimeGoesOn ==
  /\ time < LastTime /\ time' = time + 1
  /\ judged' = FALSE
  /\ UNCHANGED <<previousTime, tilt, tiltStartTime, calm, setSince>>

ClockIsSet ==
  /\ time' \in 0..LastTime
  /\ judged' = FALSE /\ setSince' = TRUE
  /\ UNCHANGED <<previousTime, tilt, tiltStartTime, calm>>

TiltNext == checkTiltCondition \/ handleFlyInstance \/ TimeGoesOn \/ ClockIsSet

TiltSpec == TiltInit /\ [][TiltNext]_tiltVars
-----------------------------------------------------------------------------
TiltTypeOK ==
  /\ time \in Nat /\ previousTime \in Nat /\ tiltStartTime \in Nat
  /\ tilt \in BOOLEAN /\ judged \in BOOLEAN /\ setSince \in BOOLEAN
  /\ calm \in 0..TiltPeriod

(* Tilt mode holds until the clock has been regular for the whole period   *)
(* after the last check that found it irregular, however often it is set   *)
(* meanwhile, and nothing is judged in it; only what happens to the clock  *)
(* between the last check and the judgement may end it early.              *)
JudgedInCalm ==
  [][/\ tilt /\ ~tilt' /\ ~setSince => calm + (time - previousTime) >= TiltPeriod
     /\ judged' => ~tilt']_tiltVars
=============================================================================
