SPECIFICATION FairSpec
CONSTANTS
  Calls = {1, 2}
  Providers = {"openai", "anthropic"}
  Chain <- TwoProviders
  Threshold = 3
  Cooldown = 2
  Focus = "anthropic"
INVARIANTS
  TypeOK
  CircuitsAgree
  RaisedInNeed
PROPERTIES
  ImplementsBreaker
  CallsEnd
  PrimaryRecovers
