CONSTANTS
  COLS = 40
  ROBO_JUMP_UP_TIME = 3
  HURDLE_SPACING = 7
  HURDLE_POSITION_BYTES = 4
  BYTE = 256
  SCORE_BYTE = 256
  MaxScore = 60
  MESSAGE_CHARS = 9
  PowerOnBytes = {0, 3, 255}
  Lines = {"nmi", "reset"}
SPECIFICATION FairScreenSpec
INVARIANTS
  TypeOK JumpTimeInRange ListInBounds HurdleListSound SameGameEveryTime ScoreInStep
  OneRobot HurdlesShown ScoreShown MessageShown
PROPERTIES ImplementsRules FramesGoOn PressIsHonoured
CHECK_DEADLOCK FALSE
