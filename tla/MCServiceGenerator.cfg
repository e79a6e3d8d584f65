CONSTANTS
  Files <- MCFiles
  Packages <- MCPackages
  SettingsChoices <- MCSettings
SPECIFICATION Spec
PROPERTY PassRefinement
\* A pass ends after the last file, or at a panic.
CHECK_DEADLOCK FALSE
