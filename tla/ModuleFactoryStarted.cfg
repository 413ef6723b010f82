CONSTANTS
  ObjectTypes <- MCObjectTypes
  ModuleTypes <- MCModuleTypes
  PluginTypes <- MCPluginTypes
  EagerClasses <- MCEagerClasses
  Files <- MCFiles
  Args <- MCArgs
  NoPort = NoPort
  Absent = Absent
  MaxCalls = 1
SPECIFICATION Spec
INVARIANT AllStarted
CHECK_DEADLOCK FALSE
