SPECIFICATION Spec
CONSTANTS
  Config <- MCConfig
  Own <- MCOwn
  Recipe <- MCRecipe
  Edits <- MCEdits
  Ladder <- MCLadder
  Rules <- MCRules
  Declared = {"ssl"}
  Outcome <- MCOutcome
  MaxEdits = 2
  MaxRuns = 2
  MaxKills = 1
CHECK_DEADLOCK FALSE
INVARIANT NotesHonest
PROPERTY Settled
