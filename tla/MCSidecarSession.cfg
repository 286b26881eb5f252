\* Two turns, a branch change, and a steering message or a memory tool call.
SPECIFICATION Sides
CHECK_DEADLOCK FALSE
CONSTANTS
  trunk = trunk
  side = side
  work = work
  chore = chore
  NoBranch = NoBranch
  NoTask = NoTask
  Branch = {trunk, side}
  RootBranch = trunk
  ParentOf <- MCParents
  Task = {work, chore}
  TaskOf <- MCTasks
  MaxTurns = 2
  MaxGen = 1
  MaxInputs = 1
INVARIANTS ContextIsRight LearningIsSound
PROPERTIES EveryTurnRecorded SessionConverges
