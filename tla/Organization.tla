---------------------------- MODULE Organization ----------------------------
(***************************************************************************)
(* The members of an organization and the concurrent requests that invite,  *)
(* re-role and remove them.                                                *)
(*                                                                         *)
(* A request is authorized from the caller's membership, then reads the     *)
(* membership it is about, and for the removal of an owner counts the       *)
(* owners; only then does it write.  Each read sees what is committed at    *)
(* that moment (READ COMMITTED, no row locks), each write is one statement  *)
(* by primary key, committed at once.  A session returns the object it has  *)
(* already loaded for a row, so a request about the caller's own membership *)
(* works with the role the authorization read.                             *)
(***************************************************************************)
EXTENDS Integers, FiniteSets

CONSTANTS
    Users,     \* accounts
    Handlers,  \* requests served at the same time
    Roles,     \* the roles in use
    None       \* Python's None: no membership, no target

Operations == {"invite", "update", "remove"}

ASSUME ConstantsAssumption ==
    /\ Roles \subseteq {"viewer", "editor", "admin", "owner"}
    /\ "owner" \in Roles
    /\ None \notin Users \cup Roles \cup Operations

VARIABLES
    accounts,  \* the rows of users
    founded,   \* whether the organization exists
    role,      \* memberships.role of each user, None without a membership
    handler,   \* what each request is doing
    alive,     \* requests whose loaded membership (at first: the caller's) exists
    stale      \* requests whose reads are older than a change of the memberships
vars == <<accounts, founded, role, handler, alive, stale>>

Rank == [viewer |-> 0, editor |-> 1, admin |-> 2, owner |-> 3]
HasRole(r, minimum) == r # None /\ Rank[r] >= Rank[minimum]

Minimum(op) == IF op = "invite" THEN "admin" ELSE "owner"

\* The request schemas.  Mutated: an invitation may name any role.
InvitableRoles_Any == Roles
InvitableRoles == Roles \ {"owner"}

\* A request: the user it is about, whether that is the caller, the role it
\* assigns and the role it loaded.
HandlerState ==
    [pc: {"idle", "authorized", "counting", "ready"},
     op: Operations \cup {None}, target: Users \cup {None}, own: BOOLEAN,
     new: Roles \cup {None}, loaded: Roles \cup {None}]
Idle == [pc |-> "idle", op |-> None, target |-> None, own |-> FALSE, new |-> None,
         loaded |-> None]

-----------------------------------------------------------------------------
(* Helpers                                                                 *)

Owners   == {u \in Users : role[u] = "owner"}
HasOwner == Owners # {}

\* The check before an owner is removed.  Mutated: one owner is enough.
EnoughOwners_OffByOne == Cardinality(Owners) > 0
EnoughOwners == Cardinality(Owners) > 1

\* ON DELETE CASCADE of memberships.user_id.
WithoutMember(u) == [role EXCEPT ![u] = None]

At(h, pc) == handler[h].pc = pc
Busy  == {g \in Handlers : ~At(g, "idle")}
\* The requests about u.  Mutated: a write brings a deleted row back.
About_Merge(u) == {}
About(u) == {g \in Handlers : handler[g].target = u}

Request(op, target, own, new) ==
    [pc |-> "authorized", op |-> op, target |-> target, own |-> own, new |-> new,
     loaded |-> None]

\* The request ends and its session is closed.
Return(h) ==
    /\ handler' = [handler EXCEPT ![h] = Idle]
    /\ alive' = alive \ {h}
    /\ stale' = stale \ {h}

\* The request writes u's membership and ends; what the others read is now old.
Write(h, u, r) ==
    /\ role' = [role EXCEPT ![u] = r]
    /\ handler' = [handler EXCEPT ![h] = Idle]
    /\ alive' = alive \ ({h} \cup (IF r = None THEN About(u) ELSE {}))
    /\ stale' = Busy \ {h}

-----------------------------------------------------------------------------
Init ==
    /\ accounts = Users
    /\ founded = FALSE
    /\ role = [u \in Users |-> None]
    /\ handler = [h \in Handlers |-> Idle]
    /\ alive = {}
    /\ stale = {}

CreateOrganization(u) ==
    /\ ~founded
    /\ u \in accounts
    /\ founded' = TRUE
    /\ role' = [role EXCEPT ![u] = "owner"]
    /\ UNCHANGED <<accounts, handler, alive, stale>>

\* require_role; the roles a request may assign are those of its schema.
Authorize(h, op, actor, target, new) ==
    /\ At(h, "idle")
    /\ HasRole(role[actor], Minimum(op))
    /\ op = "invite" => new \in InvitableRoles
    /\ op = "update" => new \in Roles
    /\ op = "remove" => new = None
    /\ handler' = [handler EXCEPT ![h] = Request(op, target, actor = target, new)]
    /\ alive' = IF actor = target THEN alive \cup {h} ELSE alive
    /\ stale' = stale \ {h}
    /\ UNCHANGED <<accounts, founded, role>>

\* The invitee must exist and not be a member yet.
CheckInvitee(h) ==
    LET target == handler[h].target
    IN  /\ At(h, "authorized")
        /\ handler[h].op = "invite"
        /\ IF target \in accounts /\ role[target] = None
             THEN /\ handler' = [handler EXCEPT ![h].pc = "ready"]
                  /\ stale' = stale \ {h}
                  /\ UNCHANGED alive
             ELSE Return(h)
        /\ UNCHANGED <<accounts, founded, role>>

\* Loads the membership; the caller's own was loaded by require_role.
LoadMember(h) ==
    LET target == handler[h].target
        loaded == IF handler[h].own /\ h \in alive THEN "owner" ELSE role[target]
        counts == handler[h].op = "remove" /\ loaded = "owner"
    IN  /\ At(h, "authorized")
        /\ handler[h].op # "invite"
        /\ IF role[target] = None
             THEN Return(h)
             ELSE /\ handler' = [handler EXCEPT
                       ![h].pc = IF counts THEN "counting" ELSE "ready",
                       ![h].loaded = loaded]
                  /\ alive' = alive \cup {h}
                  /\ stale' = stale \ {h}
        /\ UNCHANGED <<accounts, founded, role>>

CountOwners(h) ==
    /\ At(h, "counting")
    /\ IF EnoughOwners
         THEN handler' = [handler EXCEPT ![h].pc = "ready"] /\ UNCHANGED <<alive, stale>>
         ELSE Return(h)
    /\ UNCHANGED <<accounts, founded, role>>

\* The unique constraint on (organization, user), or the foreign key on the
\* user, refuses the row if somebody was faster.
CommitInvite(h) ==
    LET target == handler[h].target
    IN  /\ At(h, "ready")
        /\ handler[h].op = "invite"
        /\ IF target \in accounts /\ role[target] = None
             THEN Write(h, target, handler[h].new)
             ELSE Return(h) /\ UNCHANGED role
        /\ UNCHANGED <<accounts, founded>>

\* The UPDATE is issued only for a role that differs from the loaded one, and
\* raises StaleDataError when the row is gone.
CommitRole(h) ==
    /\ At(h, "ready")
    /\ handler[h].op = "update"
    /\ IF h \in alive /\ handler[h].new # handler[h].loaded
         THEN Write(h, handler[h].target, handler[h].new)
         ELSE Return(h) /\ UNCHANGED role
    /\ UNCHANGED <<accounts, founded>>

\* A DELETE that finds no row is only a warning.
CommitRemoval(h) ==
    /\ At(h, "ready")
    /\ handler[h].op = "remove"
    /\ IF h \in alive THEN Write(h, handler[h].target, None)
       ELSE Return(h) /\ UNCHANGED role
    /\ UNCHANGED <<accounts, founded>>

\* DELETE /compliance/me, or Clerk's user.deleted.
DeleteAccount(u) ==
    /\ u \in accounts
    /\ accounts' = accounts \ {u}
    /\ role' = WithoutMember(u)
    /\ alive' = alive \ About(u)
    /\ stale' = IF role[u] = None THEN stale ELSE Busy
    /\ UNCHANGED <<founded, handler>>

-----------------------------------------------------------------------------
Next ==
    \/ \E u \in Users : CreateOrganization(u) \/ DeleteAccount(u)
    \/ \E h \in Handlers, op \in Operations, actor \in accounts, target \in Users,
          new \in Roles \cup {None} : Authorize(h, op, actor, target, new)
    \/ \E h \in Handlers :
         \/ CheckInvitee(h) \/ LoadMember(h) \/ CountOwners(h)
         \/ CommitInvite(h) \/ CommitRole(h) \/ CommitRemoval(h)

Spec == Init /\ [][Next]_vars

-----------------------------------------------------------------------------
(* Properties                                                              *)

\* The type invariant; a membership belongs to an account.
TypeOK ==
    /\ accounts \subseteq Users
    /\ founded \in BOOLEAN
    /\ role \in [Users -> Roles \cup {None}]
    /\ handler \in [Handlers -> HandlerState]
    /\ alive \subseteq Busy
    /\ stale \subseteq Busy
    /\ \A u \in Users : role[u] # None => founded /\ u \in accounts

\* An organization loses its last owner only when an owner lowers that owner's
\* role (which update_role does not check), when the owner's account is deleted,
\* or when a removal overlaps with another change of the memberships: the check
\* in remove_member is enough for requests served one at a time, also for the
\* owner who leaves.
LastOwnerIsKept ==
    [][HasOwner /\ ~HasOwner' =>
         \/ accounts' # accounts
         \/ \E h \in Handlers :
              /\ At(h, "ready")
              /\ handler'[h] = Idle
              /\ \/ handler[h].op = "update"
                 \/ handler[h].op = "remove" /\ h \in stale]_vars

\* Without an owner, and without a request that an owner was authorized for,
\* nobody becomes owner again: no role below owner can be turned into one.
OwnerlessIsFinal ==
    [][/\ founded
       /\ ~HasOwner
       /\ \A h \in Handlers : handler[h].op \in {"invite", None}
       => ~HasOwner']_vars

\* The requests, with their reads and writes apart, act on the members as single
\* steps: none brings a removed member back, makes a member of a deleted account,
\* or removes an owner that is the last one, unless its reads were out of date.
Atomic == INSTANCE Membership
            WITH overlapped <- {handler[h].target :
                                  h \in {g \in stale : handler[g].op = "remove"}}
ImplementsMembership == Atomic!Spec

=============================================================================
