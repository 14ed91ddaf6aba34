----------------------------- MODULE MotionGate ------------------------------
(***************************************************************************)
(* MotionDetector and MotionDetectorProcessor of the frame extractor: which *)
(* frames of a camera go to the AI service.  A frame is a scene, and has raw *)
(* motion when that is another than the background: what the thresholds on  *)
(* areas and solidity let pass is told apart, the rest is not in a scene.   *)
(***************************************************************************)
EXTENDS Integers

CONSTANTS
    MinFrames,    \* MotionConfig.min_consecutive_frames
    Cooldown,     \* MotionConfig.cooldown_seconds
    None          \* there is no background yet

\* What MotionConfig lets pass.
Config == MinFrames \in 1..10 /\ Cooldown \in Nat

VARIABLES
    enabled,       \* MotionConfig.enabled
    background,    \* _background: a scene, or None
    consecutive,   \* MotionState.consecutive_frames, up to MinFrames
    lastConfirmed  \* MotionState.last_confirmed_time, 0 at first

vars == <<enabled, background, consecutive, lastConfirmed>>

Init == enabled \in BOOLEAN /\ background = None /\ consecutive = 0 /\ lastConfirmed = 0

TypeOK(scenes) ==
    /\ enabled \in BOOLEAN
    /\ background \in scenes \cup {None}
    /\ consecutive \in 0..MinFrames
    /\ lastConfirmed \in Nat

----------------------------------------------------------------------------

\* _compute_raw_motion: the first frame only becomes the background.
RawMotion(scene) == background # None /\ scene # background

\* MotionState.consecutive_frames after the frame
Streak(scene) == IF ~RawMotion(scene) THEN 0
                 ELSE IF consecutive < MinFrames THEN consecutive + 1 ELSE consecutive

Confirmed(scene) == Streak(scene) >= MinFrames

\* Mutant: the first frame with motion counts as one too few.
SendsLate(scene, t) ==
    enabled => \/ Confirmed(scene) /\ consecutive >= MinFrames
               \/ lastConfirmed > 0 /\ t - lastConfirmed < Cooldown

\* What detect returns at time t: motion is confirmed, or was within the cooldown.
\* With the detector switched off every frame is sent.
Sends(scene, t) ==
    enabled => \/ Confirmed(scene)
               \/ lastConfirmed > 0 /\ t - lastConfirmed < Cooldown

\* detect: a quiet frame shows the background, and blending it in changes nothing.
Detect(scene, t) ==
    IF enabled
    THEN /\ background' = IF background = None THEN scene ELSE background
         /\ consecutive' = Streak(scene)
         /\ lastConfirmed' = IF Confirmed(scene) THEN t ELSE lastConfirmed
         /\ UNCHANGED enabled
    ELSE UNCHANGED vars

\* update_config: the state of the detector stays what it was.
SetEnabled(e) == enabled' = e /\ UNCHANGED <<background, consecutive, lastConfirmed>>
=============================================================================
