--------------------------- MODULE MCEntryPipeline ---------------------------
EXTENDS EntryPipeline

Good(q) == [kind |-> "good", quantity |-> q]

\* A plan in which only the sum exceeds the order, and one with a slice of the other side.
MCOwnPlans == {<<Good(1), Good(2), Good(1)>>,
               <<Good(1), [kind |-> "other_side", quantity |-> 1], Good(1)>>}

MCSetups == {[filter |-> TRUE, planner |-> "native", items |-> 2],
             [filter |-> FALSE, planner |-> "sliced", items |-> 1],
             [filter |-> FALSE, planner |-> "sliced_alone", items |-> 1]}
MCFilterOnly == {[filter |-> TRUE, planner |-> "native", items |-> 2]}

MCThreads == {"sentiment", "vision"}
MCModels == {"flash", "pro"}
MCDailyLimit == [m \in MCModels |-> 1]
MCAmpleLimit == [m \in MCModels |-> 4]
MCSentimentModels == <<"flash">>
MCVisionModels == <<"flash", "pro">>
MCProModels == {"pro"}
MCProRoute == <<"pro">>
=============================================================================
