CONSTANTS
  COLS = 40
  ROBO_JUMP_UP_TIME = 3
  HURDLE_SPACING = 7
  HURDLE_POSITION_BYTES = 4
  BYTE = 256
  SCORE_BYTE = 1
  MaxScore = 1
  MESSAGE_CHARS = 9
  PowerOnBytes = {0}
  Lines = {}
SPECIFICATION OneGameSpec
INVARIANT NoPhantomHurdle
CHECK_DEADLOCK FALSE
