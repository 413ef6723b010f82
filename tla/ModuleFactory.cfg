CONSTANTS
  ObjectTypes <- MCObjectTypes
  ModuleTypes <- MCModuleTypes
  PluginTypes <- MCPluginTypes
  EagerClasses <- MCEagerClasses
  Files <- MCFiles
  Args <- MCArgs
  NoPort = NoPort
  Absent = Absent
  MaxCalls = 2
SPECIFICATION FairSpec
INVARIANTS TypeOK  GroupsOfOwnFile ModuleIsObject CrashCause BoundTogether
PROPERTY Terminates
CHECK_DEADLOCK FALSE
