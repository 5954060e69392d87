SPECIFICATION Spec
CONSTANTS
  Sessions = {s1, s2, s3}
  s1 = s1
  s2 = s2
  s3 = s3
  MaxReacts = 1
  Evaluations <- SmallEvaluations
  MaxFrequency = 2
  MaxAdds = 1
  Analyzer = TRUE
  SkillNames = {k1}
  k1 = k1
  MaxTools = 1
  MaxThreshold = 2
SYMMETRY Symmetry
INVARIANTS
  AceIdsIdentify
  AceAloneLosesNothing
  HarnessLibraryStands
  AmemStoreAgrees
  AutoskillBankExplained
  
