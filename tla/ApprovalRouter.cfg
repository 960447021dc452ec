SPECIFICATION FairSpec
CONSTANTS
  safe = safe  risky = risky  confirm = confirm  choice = choice
  NoTool = NoTool
  Tools <- TwoTools
  Dialogs <- TwoDialogs
  Blessed <- OneBlessed
  Confirms <- OneConfirm
  Timed <- OneConfirm
  MaxRuns = 2
INVARIANTS TypeOK NoDialogStranded AnsweredOnce TrailIsALife JudgedByItsTool ConfirmedByOneSide
PROPERTIES PolicyAnswers
CHECK_DEADLOCK FALSE
