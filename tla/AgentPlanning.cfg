CONSTANTS
    Patterns = {"llm_compiler", "openai_tool", "react"}
    Plans <- MCPlans
    Toolkits <- MCToolkits
    MaxAttempts = 2
    MaxPlans = 3
    MaxBlanks = 1
SPECIFICATION AgentSpec
INVARIANT PlanIsFollowed
PROPERTY AgentEnds
CHECK_DEADLOCK FALSE
