----------------------------- MODULE Membership -----------------------------
(***************************************************************************)
(* What an organization promises about its members: each change is one      *)
(* step, as if the requests were served one at a time.  Who is founder is   *)
(* owner, nobody joins as owner or joins twice, a role is given to members  *)
(* only, who leaves is not the last owner, and an account takes its         *)
(* membership with it.  An owner may lower the own role: that is allowed    *)
(* to the last one, too.                                                    *)
(***************************************************************************)
CONSTANTS Users, Roles, None

VARIABLES
    accounts,   \* the accounts there are
    founded,    \* whether the organization exists
    role,       \* the role of each user, None for those who are no member
    overlapped  \* those whose removal was decided before another change
members == <<accounts, founded, role>>

Gives(u, r) == role' = [role EXCEPT ![u] = r]

Init ==
    /\ accounts = Users
    /\ founded = FALSE
    /\ role = [u \in Users |-> None]

Found(u) ==
    /\ ~founded
    /\ u \in accounts
    /\ founded' = TRUE
    /\ Gives(u, "owner")
    /\ UNCHANGED accounts

Join(u, r) ==
    /\ founded
    /\ u \in accounts
    /\ role[u] = None
    /\ r \in Roles \ {"owner"}
    /\ Gives(u, r)
    /\ UNCHANGED <<accounts, founded>>

Appoint(u, r) ==
    /\ role[u] # None
    /\ r \in Roles
    /\ Gives(u, r)
    /\ UNCHANGED <<accounts, founded>>

Leave(u) ==
    /\ role[u] # None
    /\ \/ role[u] # "owner"
       \/ \E w \in Users \ {u} : role[w] = "owner"
       \/ u \in overlapped
    /\ Gives(u, None)
    /\ UNCHANGED <<accounts, founded>>

Close(u) ==
    /\ u \in accounts
    /\ accounts' = accounts \ {u}
    /\ Gives(u, None)
    /\ UNCHANGED founded

Next ==
    \E u \in Users :
       \/ Found(u) \/ Leave(u) \/ Close(u)
       \/ \E r \in Roles : Join(u, r) \/ Appoint(u, r)

Spec == Init /\ [][Next]_members

-----------------------------------------------------------------------------
(* What follows                                                            *)

ChangesOne == \E u \in Users : \A w \in Users \ {u} : role'[w] = role[w]

\* Who joins has an account, and is owner only as the founder.
JoinsProperly ==
    \A u \in Users : role[u] = None /\ role'[u] # None =>
        u \in accounts /\ (role'[u] = "owner" => ~founded)

\* However requests overlap, the members change one at a time.
ChangesAreSingle == [][ChangesOne /\ JoinsProperly]_members

=============================================================================
