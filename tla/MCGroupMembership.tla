-------------------------- MODULE MCGroupMembership --------------------------
EXTENDS GroupMembership, TLC

Interchangeable == Permutations(Users) \union Permutations(Groups) \union Permutations(Requests)

Started == {g \in Groups: groupStatus[g] # "NONE"}
Involved == {u \in Users: \E g \in Groups: member[g][u] # NoRow}
               \union ({task[r].user: r \in Requests} \ {None})
Pending == {r \in Requests: task[r] # NoTask}

\* Of a group that has been DAILY the other amounts are left alone.
Amounts(g) == {required[g]} \union {member[g][u].depositAmount: u \in Users}
                 \union {task[r].deposit: r \in {q \in Requests: task[q].group = g}}

\* One group with everybody in it and requests that overlap, or two groups that
\* share their members, served one request at a time.
Scope ==
    \/ Cardinality(Started) <= 1 /\ \A g \in wasDaily: Amounts(g) \subseteq {0, 1}
    \/ wasDaily = {} /\ Cardinality(Involved) <= 2 /\ Cardinality(Pending) <= 1

=============================================================================
