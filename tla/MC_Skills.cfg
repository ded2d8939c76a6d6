SPECIFICATION SkillsFairSpec
CONSTANTS
  Names = {s1}
  NoName = NoName
  Authors = {main}
  Runners = {job}
  Syncers = {beat}
  Heartbeat = beat
  MaxWrites = 3
  MaxEmbeds = 2
INVARIANTS ListsCurrent RowsOwned
PROPERTIES RegistrySettles
