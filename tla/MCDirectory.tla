------------------------------ MODULE MCDirectory ------------------------------
(* The directory with small sets of model values. *)
EXTENDS Directory, TLC

\* Workers and users are interchangeable (for safety only).
Symmetry == Permutations(Workers) \cup Permutations(Users)

\* The consistent databases in which a role has all the views and the users have the
\* same groups and roles: users, group and role are there or not.
AlikeUsers ==
    /\ Init
    /\ \A r \in Roles : db[r] # NoRow => db[r] = [views |-> Views]
    /\ \A u, v \in Users : db[u] # NoRow /\ db[v] # NoRow => db[u] = db[v]

AlikeUsersSpec == AlikeUsers /\ [][Next]_vars

\* The database of a small site: every user exists, in no group and with no role,
\* the groups have no roles and each role has all the views.
SmallSite ==
    /\ Init
    /\ \A u \in Users : db[u] = [groups |-> {}, roles |-> {}]
    /\ \A g \in Groups : db[g] = [roles |-> {}]
    /\ \A r \in Roles : db[r] = [views |-> Views]

SmallSiteSpec == SmallSite /\ [][Next]_vars /\ Fairness
================================================================================
