CONSTANTS
    Patterns = {"llm_compiler", "openai_tool"}
    Plans <- MCPlans
    Toolkits <- MCToolkits
    MaxAttempts = 1
    MaxPlans = 1
    MaxBlanks = 0
SPECIFICATION AgentSpec
INVARIANT UserToolsPause
CHECK_DEADLOCK FALSE
