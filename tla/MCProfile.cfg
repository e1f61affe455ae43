CONSTANTS
  EnvNames <- MCEnvNames
  Hinted = {"prod"}
  Process = {p, q}
  Home = "home"
  Dir = {"home", "repo"}
  Where <- MCWhere
  Discoveries <- MCDiscoveries
  Presets <- MCPresets
  ModelTiers = {"most_capable", "standard"}
  Entries <- MCEntries
  DispatchClasses <- MCDispatchClasses
  HandEdits <- MCHandEdits
  Places <- MCPlaces
  Projects <- MCProjects
  InitialDisks <- MCInitialDisks
  MaxCalls = 2
SPECIFICATION Spec
INVARIANTS OrderMattersOnlyWhenReported LevelsAreNested
PROPERTIES AnswersAreReadBack OnlyLoadableProfilesAreWritten HandWrittenSurvives InstallSatisfiesDoctor
CHECK_DEADLOCK FALSE
