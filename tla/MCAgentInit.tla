---------------------------- MODULE MCAgentInit ----------------------------
EXTENDS AgentInit

\* A rate with and without a precise level, no rate, and no client with a rate that the
\* word does not hold.
MCSpecs == {[client |-> "Generic", rated |-> TRUE, rate |-> 1, digit |-> TRUE],
            [client |-> "Generic", rated |-> TRUE, rate |-> 2, digit |-> FALSE],
            [client |-> "Heap", rated |-> FALSE, rate |-> 0, digit |-> FALSE],
            [client |-> "none", rated |-> TRUE, rate |-> 6, digit |-> TRUE]}

=============================================================================
