SPECIFICATION FairSpec
CONSTANTS
  MaxProc = 4
  ForkPrios = {2, 3}
  Tags = {0}
INVARIANTS TypeOK QueueExact CidIsPid HeadBest FamilyTree ListsExact JoinNotMissed
PROPERTIES QuitIsFinal PreemptedGoesLast RoundRobin
