---------------------------- MODULE MCAgentPlanning ----------------------------
EXTENDS AgentPlanning

Action(index, name, refs) == [index |-> index, name |-> name, refs |-> refs]

\* A chain with a fan-in, a plan of a user's tool, a mixed one, a lone join, a
\* forgotten join, numbers of two digits, a reference to a later task, a join
\* that is added under a used number (as when a replan goes on counting), and a
\* number that is used twice.
MCPlans == {
    <<Action(1, "search", <<>>), Action(2, "search", <<>>), Action(3, "math", <<1, 2>>),
      Action(4, "join", <<>>)>>,
    <<Action(1, "user", <<>>), Action(2, "lambda", <<1>>)>>,
    <<Action(1, "search", <<>>), Action(2, "user", <<>>), Action(3, "join", <<>>)>>,
    <<Action(1, "join", <<>>)>>,
    <<Action(1, "search", <<>>), Action(10, "math", <<>>), Action(11, "search", <<10>>)>>,
    <<Action(5, "search", <<>>), Action(6, "math", <<5, 2>>), Action(7, "math", <<6>>)>>,
    <<Action(1, "search", <<2>>)>>,
    <<Action(3, "search", <<>>), Action(4, "lambda", <<3>>)>>,
    <<Action(1, "lambda", <<>>), Action(1, "search", <<>>), Action(2, "math", <<1>>)>>,
    <<>> }
MCToolkits == << {"search"}, {"math", "lambda"} >>
================================================================================
