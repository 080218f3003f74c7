\* Two accounts with two values of their statistics each; any number of
\* reports, failing writes and renames, stops, crashes and restarts.
SPECIFICATION Spec
CONSTANTS
  N = 2
  IdOf <- MCIdOf
  MaxStats = 1
  NoFile = NoFile
  Torn = Torn
PROPERTY FinalStateIsSaved
