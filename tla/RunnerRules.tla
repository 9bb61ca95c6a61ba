---------------------------- MODULE RunnerRules ----------------------------
(***************************************************************************)
(* What robo-runner promises its player, without its RAM layout.  Hurdles  *)
(* are a first-in first-out queue of columns; a jump is a budget of frames *)
(* in the air; a frame lays the course, moves the robot one column, and    *)
(* judges it against the hurdle at the head of the queue.  RoboGame's list *)
(* of bytes, shifted in place under an interrupt, implements this.         *)
(***************************************************************************)
EXTENDS Integers, Sequences

CONSTANTS COLS, ROBO_JUMP_UP_TIME, MAX_HURDLES, SCORE_BYTE

VARIABLES
  phase,     \* "off", or what the frame does next: "course", "move", "judge"
  hurdles,   \* columns of the hurdles ahead, the next one to judge first
  robo,      \* the robot's column
  left,      \* frames the jump in progress still lasts
  airborne,  \* the frame's robot is in the top row
  score

vars == << phase, hurdles, robo, left, airborne, score >>

Blank == /\ hurdles = << >> /\ robo = 1 /\ left = 0 /\ airborne = FALSE /\ score = 0

Init == phase = "off" /\ Blank

\* Switching on, and a reset at any time, begin the one initial game.
Start == phase = "off" /\ phase' = "course" /\ Blank /\ Blank'
Reset == phase' = "off" /\ Blank'

\* The button starts a jump unless one is in progress.
Jump ==
  /\ phase # "off"
  /\ left = 0 /\ left' = ROBO_JUMP_UP_TIME
  /\ UNCHANGED << phase, hurdles, robo, airborne, score >>

Course ==
  /\ phase = "course" /\ phase' = "move"
  /\ \/ /\ Len(hurdles) < MAX_HURDLES
        /\ \E c \in 0 .. (COLS - 1) : hurdles' = Append(hurdles, c)
     \/ UNCHANGED hurdles
  /\ UNCHANGED << robo, left, airborne, score >>

\* A frame in the air uses up one frame of the jump.
Move ==
  /\ phase = "move" /\ phase' = "judge"
  /\ robo' = (robo + 1) % COLS
  /\ airborne' = (left > 0)
  /\ left' = IF left > 0 THEN left - 1 ELSE 0
  /\ UNCHANGED << hurdles, score >>

AtHurdle == hurdles # << >> /\ Head(hurdles) = robo

Run ==
  /\ phase = "judge" /\ ~AtHurdle
  /\ phase' = "course"
  /\ UNCHANGED << hurdles, robo, left, airborne, score >>

Clear ==
  /\ phase = "judge" /\ AtHurdle /\ left > 0
  /\ phase' = "course"
  /\ hurdles' = Tail(hurdles)
  /\ score' = (score + 1) % SCORE_BYTE
  /\ UNCHANGED << robo, left, airborne >>

Crash ==
  /\ phase = "judge" /\ AtHurdle /\ left = 0
  /\ phase' = "over"
  /\ UNCHANGED << hurdles, robo, left, airborne, score >>

Next == Start \/ Reset \/ Jump \/ Course \/ Move \/ Run \/ Clear \/ Crash

Spec == Init /\ [][Next]_vars
=============================================================================
