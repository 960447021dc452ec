SPECIFICATION Spec
CONSTANTS
  safe = safe  risky = risky  confirm = confirm  choice = choice
  NoTool = NoTool
  Tools <- TwoTools
  Dialogs <- TwoDialogs
  Blessed <- OneBlessed
  Confirms <- OneConfirm
  Timed <- OneConfirm
  MaxRuns = 2
INVARIANT FreeStandingIsAsked
CHECK_DEADLOCK FALSE
