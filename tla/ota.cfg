SPECIFICATION FairSpec
CONSTANTS
  Images = {"A", "B"}
  Sectors = 3
  Checkpoint = 1
  MaxEvents = 3
INVARIANTS ResumeIsExact StagedIsDeclared SomethingBoots
PROPERTY UpdateSettles
