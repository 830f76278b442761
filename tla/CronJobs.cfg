SPECIFICATION MCSpec
CONSTANTS
  Prompts = {"p"}
  Agents = {"a"}
  Requests = {r1, r2}
  Crons = {"daily", "hourly"}
  BadCrons = {"oops", ""}
  MaxScripts = 2
  Runs = {"e"}
INVARIANTS
  AgentJobMatches
  PromptJobMatches
  VersionsGrow
  OutcomeIsTrue
