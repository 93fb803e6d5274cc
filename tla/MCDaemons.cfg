SPECIFICATION MCSpec
CONSTANTS
  Messages = {m1}
  Tasks = {t1}
  Proposals = {1, 2}
  ProposalLimit = 1
  MaxSpawns = 1
  Hour = 1
  HandledCap = 1
  MaxTroubles = 1
  Reviews = {1, 2}
  Notes = {3, 4}
  ListLimit = 2
  MaxMishaps = 1
  Jobs = {j1, j2}
  Workers = {w1, w2}
  NoJob = nojob
  MaxLost = 2
INVARIANTS DaemonsTypeOK SpawnDiscipline RepliesAndMarks RunsAccountedFor
PROPERTIES ApprovalsRun EveryReviewReplied EveryTaskEnds
CHECK_DEADLOCK FALSE
