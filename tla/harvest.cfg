SPECIFICATION FairSpec
CONSTANTS
  Jobs = {j1, j2}
  i1 = i1
  i2 = i2
  Ideas = {i1, i2}
  Registered = {i1}
  Tasks = {t1}
  NoTask = NoTask
  TaskIdea <- TaskIdeas
  Priced = {i1, i2}
  d1 = d1
  d2 = d2
  h1 = h1
  Drafts = {d1, d2}
  DraftId <- OneId
  Cited = {d1, d2}
  Batches <- OneBatch
  DraftFiles <- OneDraftFile
  Deliveries = 1
  Overlaps = 1
  Reboots = 1
INVARIANTS IntegratedIsBuilt AnnouncedIsAdmitted
 
