------------------------- MODULE Organization_proofs -------------------------
(***************************************************************************)
(* Proofs about Organization, for any number of users, any roles in use    *)
(* and any number of overlapping requests, and, from BillInv on, about     *)
(* Billing, which keeps the plan of a user and of the user's organization. *)
(***************************************************************************)
EXTENDS Organization, Sequences, FiniteSetTheorems, WellFoundedInduction, TLAPS

-----------------------------------------------------------------------------
(* Type correctness                                                        *)

\* The end of a request leaves the other requests alone.
LEMMA ReturnFrame ==
  ASSUME TypeOK, NEW h \in Handlers, Return(h)
  PROVE  /\ handler' \in [Handlers -> HandlerState]
         /\ handler'[h] = Idle
         /\ \A g \in Handlers \ {h} : handler'[g] = handler[g]
         /\ alive' \subseteq Busy' /\ stale' \subseteq Busy'
         /\ stale \subseteq stale' \cup {h}
<1>1. Idle \in HandlerState
  BY DEF Idle, HandlerState
<1>2. /\ handler' \in [Handlers -> HandlerState]
      /\ handler'[h] = Idle
      /\ \A g \in Handlers \ {h} : handler'[g] = handler[g]
  BY <1>1 DEF Return, TypeOK
<1>3. Busy \ {h} \subseteq Busy'
  BY <1>2 DEF Busy, At
<1> QED
  BY <1>2, <1>3 DEF Return, TypeOK

\* A write changes one membership and makes all other requests stale.
LEMMA WriteFrame ==
  ASSUME TypeOK, NEW h \in Handlers, NEW u \in Users,
         NEW r \in Roles \cup {None}, Write(h, u, r)
  PROVE  /\ role' \in [Users -> Roles \cup {None}]
         /\ role'[u] = r
         /\ \A x \in Users \ {u} : role'[x] = role[x]
         /\ handler' \in [Handlers -> HandlerState]
         /\ handler'[h] = Idle
         /\ \A g \in Handlers \ {h} : handler'[g] = handler[g]
         /\ alive' \subseteq Busy' /\ stale' = Busy'
<1>1. Idle \in HandlerState
  BY DEF Idle, HandlerState
<1>2. /\ handler' \in [Handlers -> HandlerState]
      /\ handler'[h] = Idle
      /\ \A g \in Handlers \ {h} : handler'[g] = handler[g]
  BY <1>1 DEF Write, TypeOK
<1>3. Busy' = Busy \ {h}
  BY <1>2 DEF Busy, At, Idle
<1>4. /\ role' \in [Users -> Roles \cup {None}]
      /\ role'[u] = r
      /\ \A x \in Users \ {u} : role'[x] = role[x]
  BY DEF Write, TypeOK
<1> QED
  BY <1>2, <1>3, <1>4 DEF Write, TypeOK

\* A request that goes on changes its own state only.
LEMMA StepFrame ==
  ASSUME TypeOK, NEW h \in Handlers, NEW s \in HandlerState, s.pc # "idle",
         handler' = [handler EXCEPT ![h] = s]
  PROVE  /\ handler' \in [Handlers -> HandlerState]
         /\ handler'[h] = s
         /\ \A g \in Handlers \ {h} : handler'[g] = handler[g]
         /\ Busy' = Busy \cup {h}
<1>1. /\ handler' \in [Handlers -> HandlerState]
      /\ handler'[h] = s
      /\ \A g \in Handlers \ {h} : handler'[g] = handler[g]
  BY DEF TypeOK
<1>2. Busy' = Busy \cup {h}
  BY <1>1 DEF Busy, At
<1> QED
  BY <1>1, <1>2

-----------------------------------------------------------------------------
(* The inductive invariant                                                 *)

\* A request under way is complete, and a row it may still write exists.
RequestOK(h) ==
    /\ ~At(h, "idle") => /\ founded
                         /\ handler[h].target \in Users
                         /\ handler[h].op \in Operations
    /\ handler[h].op = "invite" => handler[h].new \in InvitableRoles
    /\ handler[h].op = "update" => handler[h].new \in Roles
    /\ At(h, "counting") => handler[h].op = "remove" /\ handler[h].loaded = "owner"
    /\ h \in alive => role[handler[h].target] # None

\* What a removal has read still holds while the memberships have not changed.
ReadsOK(h) ==
    At(h, "ready") /\ handler[h].op = "remove" /\ h \notin stale =>
        IF handler[h].loaded = "owner" THEN EnoughOwners
        ELSE role[handler[h].target] # "owner"

OrgInv == TypeOK /\ \A h \in Handlers : RequestOK(h) /\ ReadsOK(h)

\* The requests a step neither touches nor makes wrong.
LEMMA OthersKeep ==
  ASSUME OrgInv, NEW g \in Handlers, UNCHANGED <<role, founded>>,
         handler'[g] = handler[g], g \in alive' => g \in alive,
         g \notin stale' => g \notin stale
  PROVE  RequestOK(g)' /\ ReadsOK(g)'
<1>1. RequestOK(g) /\ ReadsOK(g)
  BY DEF OrgInv
<1>2. RequestOK(g)'
  BY <1>1 DEF RequestOK, At, InvitableRoles
<1>3. EnoughOwners' = EnoughOwners
  BY DEF EnoughOwners, Owners
<1>4. ReadsOK(g)'
  BY <1>1, <1>3 DEF ReadsOK, At
<1> QED
  BY <1>2, <1>4

\* An idle request satisfies the invariant.
LEMMA IdleOK ==
  ASSUME NEW h, handler'[h] = Idle, h \notin alive'
  PROVE  RequestOK(h)' /\ ReadsOK(h)'
<1>1. /\ handler'[h].pc = "idle" /\ handler'[h].op = None
  BY DEF Idle
<1>2. None # "invite" /\ None # "update" /\ None # "remove"
  BY ConstantsAssumption DEF Operations
<1> QED
  BY <1>1, <1>2 DEF RequestOK, ReadsOK, At

-----------------------------------------------------------------------------
(* Every step preserves it                                                 *)

\* A step of a request that goes on: the invariant holds if it holds of h.
LEMMA GoingOn ==
  ASSUME OrgInv, NEW h \in Handlers, NEW s \in HandlerState, s.pc # "idle",
         handler' = [handler EXCEPT ![h] = s],
         alive' \subseteq alive \cup {h}, stale \subseteq stale' \cup {h},
         stale' \subseteq stale \cup {h},
         UNCHANGED <<accounts, founded, role>>,
         RequestOK(h)' /\ ReadsOK(h)'
  PROVE  OrgInv'
<1>1. TypeOK
  BY DEF OrgInv
<1>2. /\ handler' \in [Handlers -> HandlerState]
      /\ \A g \in Handlers \ {h} : handler'[g] = handler[g]
      /\ Busy' = Busy \cup {h}
  BY <1>1, StepFrame
<1>3. TypeOK'
  BY <1>1, <1>2 DEF TypeOK
<1>4. ASSUME NEW g \in Handlers \ {h}
      PROVE  RequestOK(g)' /\ ReadsOK(g)'
  BY <1>2, OthersKeep
<1> QED
  BY <1>3, <1>4 DEF OrgInv

\* A request that ends without a write.
LEMMA Ending ==
  ASSUME OrgInv, NEW h \in Handlers, Return(h),
         UNCHANGED <<accounts, founded, role>>
  PROVE  OrgInv'
<1>1. TypeOK
  BY DEF OrgInv
<1>2. /\ handler' \in [Handlers -> HandlerState]
      /\ handler'[h] = Idle
      /\ \A g \in Handlers \ {h} : handler'[g] = handler[g]
      /\ alive' \subseteq Busy' /\ stale' \subseteq Busy'
      /\ stale \subseteq stale' \cup {h}
  BY <1>1, ReturnFrame
<1>3. TypeOK'
  BY <1>1, <1>2 DEF TypeOK
<1>4. alive' = alive \ {h}
  BY DEF Return
<1>5. ASSUME NEW g \in Handlers \ {h}
      PROVE  RequestOK(g)' /\ ReadsOK(g)'
  BY <1>2, <1>4, OthersKeep
<1>6. RequestOK(h)' /\ ReadsOK(h)'
  BY <1>2, <1>4, IdleOK
<1> QED
  BY <1>3, <1>5, <1>6 DEF OrgInv

\* A request that writes a membership of an existing account.
LEMMA Writing ==
  ASSUME OrgInv, NEW h \in Handlers, NEW u \in Users,
         NEW r \in Roles \cup {None}, Write(h, u, r),
         UNCHANGED <<accounts, founded>>, founded,
         r # None => u \in accounts
  PROVE  OrgInv'
<1>1. TypeOK
  BY DEF OrgInv
<1>2. /\ role' \in [Users -> Roles \cup {None}]
      /\ role'[u] = r
      /\ \A x \in Users \ {u} : role'[x] = role[x]
      /\ handler' \in [Handlers -> HandlerState]
      /\ handler'[h] = Idle
      /\ \A g \in Handlers \ {h} : handler'[g] = handler[g]
      /\ alive' \subseteq Busy' /\ stale' = Busy'
  BY <1>1, WriteFrame
<1>3. TypeOK'
  BY <1>1, <1>2 DEF TypeOK
<1>4. alive' = alive \ ({h} \cup (IF r = None THEN About(u) ELSE {}))
  BY DEF Write
<1>5. ASSUME NEW g \in Handlers \ {h}
      PROVE  RequestOK(g)' /\ ReadsOK(g)'
  <2>1. RequestOK(g) /\ handler'[g] = handler[g]
    BY <1>2 DEF OrgInv
  <2>2. ASSUME g \in alive' PROVE role'[handler[g].target] # None
    <3>1. /\ g \in alive
          /\ r = None => handler[g].target # u
      BY <2>2, <1>4 DEF About
    <3>2. g \in Busy
      BY <3>1, <1>1 DEF TypeOK
    <3>3. handler[g].target \in Users /\ role[handler[g].target] # None
      BY <2>1, <3>1, <3>2 DEF RequestOK, Busy
    <3> QED
      BY <1>2, <3>1, <3>3
  <2>3. RequestOK(g)'
    BY <2>1, <2>2 DEF RequestOK, At, InvitableRoles
  <2>4. At(g, "ready")' => g \in stale'
    BY <1>2 DEF Busy, At
  <2> QED
    BY <2>3, <2>4 DEF ReadsOK
<1>6. RequestOK(h)' /\ ReadsOK(h)'
  BY <1>2, <1>4, IdleOK
<1> QED
  BY <1>3, <1>5, <1>6 DEF OrgInv

LEMMA InitOK == Init => OrgInv
<1> SUFFICES ASSUME Init PROVE OrgInv
  OBVIOUS
<1>1. Idle \in HandlerState
  BY DEF Idle, HandlerState
<1>2. \A h \in Handlers : handler[h] = Idle /\ h \notin alive
  BY DEF Init
<1>3. TypeOK
  BY <1>1 DEF Init, TypeOK
<1>4. ASSUME NEW h \in Handlers
      PROVE  RequestOK(h) /\ ReadsOK(h)
  <2>1. handler[h].pc = "idle" /\ handler[h].op = None
    BY <1>2 DEF Idle
  <2>2. None # "invite" /\ None # "update" /\ None # "remove"
    BY ConstantsAssumption DEF Operations
  <2> QED
    BY <1>2, <2>1, <2>2 DEF RequestOK, ReadsOK, At
<1> QED
  BY <1>3, <1>4 DEF OrgInv

\* Nobody is busy before the organization exists.
LEMMA CreateOrganizationOK ==
  ASSUME OrgInv, NEW u \in Users, CreateOrganization(u)
  PROVE  OrgInv'
<1>1. TypeOK /\ ~founded /\ UNCHANGED <<handler, alive, stale, accounts>>
  BY DEF OrgInv, CreateOrganization
<1>2. \A h \in Handlers : RequestOK(h) /\ At(h, "idle")
  BY <1>1 DEF OrgInv, RequestOK
<1>3. TypeOK'
  <2>1. role' \in [Users -> Roles \cup {None}]
    BY <1>1, ConstantsAssumption DEF TypeOK, CreateOrganization
  <2>2. Busy' = Busy
    BY <1>1 DEF Busy, At
  <2>3. ASSUME NEW x \in Users, role'[x] # None
        PROVE  founded' /\ x \in accounts'
    BY <1>1, <2>3 DEF TypeOK, CreateOrganization
  <2> QED
    BY <1>1, <2>1, <2>2, <2>3 DEF TypeOK, CreateOrganization
<1>4. ASSUME NEW h \in Handlers
      PROVE  RequestOK(h)' /\ ReadsOK(h)'
  <2>1. handler'[h] = handler[h] /\ handler[h].pc = "idle" /\ h \notin alive'
    BY <1>1, <1>2 DEF TypeOK, Busy, At
  <2> QED
    BY <1>2, <2>1 DEF RequestOK, ReadsOK, At, InvitableRoles
<1> QED
  BY <1>3, <1>4 DEF OrgInv

LEMMA AuthorizeOK ==
  ASSUME OrgInv, NEW h \in Handlers, NEW op \in Operations, NEW actor \in accounts,
         NEW target \in Users, NEW new \in Roles \cup {None},
         Authorize(h, op, actor, target, new)
  PROVE  OrgInv'
<1>1. TypeOK
  BY DEF OrgInv
<1>2. PICK own \in BOOLEAN : own = (actor = target)
  OBVIOUS
<1> DEFINE s == Request(op, target, own, new)
<1>3. /\ s \in HandlerState
      /\ s.pc = "authorized" /\ s.op = op /\ s.target = target /\ s.new = new
  BY DEF HandlerState, Request
<1>4. handler' = [handler EXCEPT ![h] = s]
  BY <1>2 DEF Authorize
<1>5. /\ alive' = IF actor = target THEN alive \cup {h} ELSE alive
      /\ stale' = stale \ {h}
      /\ UNCHANGED <<accounts, founded, role>>
      /\ HasRole(role[actor], Minimum(op))
      /\ op = "invite" => new \in InvitableRoles
      /\ op = "update" => new \in Roles
      /\ At(h, "idle")
  BY DEF Authorize
<1> HIDE DEF s
<1>6. handler'[h] = s
  BY <1>1, <1>3, <1>4, StepFrame
<1>7. actor \in Users /\ role[actor] # None /\ founded
  BY <1>1, <1>5 DEF TypeOK, HasRole
<1>8. h \in alive' => target = actor
  BY <1>1, <1>5 DEF TypeOK, Busy
<1>9. RequestOK(h)'
  BY <1>3, <1>5, <1>6, <1>7, <1>8 DEF RequestOK, At, InvitableRoles
<1>10. ReadsOK(h)'
  BY <1>3, <1>6 DEF ReadsOK, At
<1> QED
  BY <1>3, <1>4, <1>5, <1>9, <1>10, GoingOn

LEMMA CheckInviteeOK ==
  ASSUME OrgInv, NEW h \in Handlers, CheckInvitee(h)
  PROVE  OrgInv'
<1>1. /\ TypeOK /\ RequestOK(h) /\ handler[h] \in HandlerState
      /\ handler[h].pc = "authorized" /\ handler[h].op = "invite"
      /\ UNCHANGED <<accounts, founded, role>>
  BY DEF OrgInv, TypeOK, CheckInvitee, At
<1> DEFINE s == [handler[h] EXCEPT !.pc = "ready"]
<1>2. CASE /\ handler' = [handler EXCEPT ![h].pc = "ready"]
           /\ stale' = stale \ {h}
           /\ UNCHANGED alive
  <2>1. /\ s \in HandlerState /\ s.pc = "ready"
        /\ s.op = handler[h].op /\ s.new = handler[h].new
        /\ s.target = handler[h].target /\ s.loaded = handler[h].loaded
    BY <1>1 DEF HandlerState
  <2>2. handler' = [handler EXCEPT ![h] = s]
    BY <1>2
  <2> HIDE DEF s
  <2>3. handler'[h] = s
    BY <1>1, <2>1, <2>2, StepFrame
  <2>4. RequestOK(h)'
    BY <1>1, <1>2, <2>1, <2>3 DEF RequestOK, At, InvitableRoles
  <2>5. ReadsOK(h)'
    BY <1>1, <2>1, <2>3 DEF ReadsOK
  <2> QED
    BY <1>1, <1>2, <2>1, <2>2, <2>4, <2>5, GoingOn
<1>3. CASE Return(h)
  BY <1>1, <1>3, Ending
<1> QED
  BY <1>2, <1>3 DEF CheckInvitee

\* The role loaded is the one in the database, unless it is the caller's own.
LEMMA LoadMemberOK ==
  ASSUME OrgInv, NEW h \in Handlers, LoadMember(h)
  PROVE  OrgInv'
<1> DEFINE target == handler[h].target
           loaded == IF handler[h].own /\ h \in alive THEN "owner" ELSE role[target]
           pc == IF handler[h].op = "remove" /\ loaded = "owner"
                   THEN "counting" ELSE "ready"
           s == [handler[h] EXCEPT !.pc = pc, !.loaded = loaded]
<1>1. /\ TypeOK /\ RequestOK(h) /\ handler[h] \in HandlerState
      /\ handler[h].pc = "authorized" /\ handler[h].op # "invite"
      /\ UNCHANGED <<accounts, founded, role>>
  BY DEF OrgInv, TypeOK, LoadMember, At
<1>2. target \in Users /\ founded /\ handler[h].op \in Operations
  BY <1>1 DEF RequestOK, At
<1>3. CASE /\ role[target] # None
           /\ handler' = [handler EXCEPT ![h].pc = pc, ![h].loaded = loaded]
           /\ alive' = alive \cup {h}
           /\ stale' = stale \ {h}
  <2>1. loaded \in Roles \cup {None} /\ pc \in {"counting", "ready"}
    BY <1>1, <1>2, ConstantsAssumption DEF TypeOK
  <2>2. loaded # "owner" => role[target] # "owner"
    OBVIOUS
  <2>3. pc = "counting" => handler[h].op = "remove" /\ loaded = "owner"
    OBVIOUS
  <2>4. pc = "ready" /\ handler[h].op = "remove" => loaded # "owner"
    OBVIOUS
  <2> HIDE DEF loaded, pc
  <2>5. /\ s \in HandlerState /\ s.pc = pc /\ s.loaded = loaded
        /\ s.op = handler[h].op /\ s.new = handler[h].new /\ s.target = target
    BY <1>1, <2>1 DEF HandlerState
  <2>6. handler' = [handler EXCEPT ![h] = s]
    BY <1>3
  <2> HIDE DEF s
  <2>7. handler'[h] = s
    BY <1>1, <2>1, <2>5, <2>6, StepFrame
  <2>8. RequestOK(h)'
    BY <1>1, <1>2, <1>3, <2>1, <2>3, <2>5, <2>7 DEF RequestOK, At, InvitableRoles
  <2>9. ReadsOK(h)'
    BY <1>1, <2>2, <2>4, <2>5, <2>7 DEF ReadsOK, At
  <2> QED
    BY <1>1, <1>3, <2>1, <2>5, <2>6, <2>8, <2>9, GoingOn
<1>4. CASE Return(h)
  BY <1>1, <1>4, Ending
<1> QED
  BY <1>3, <1>4 DEF LoadMember

LEMMA CountOwnersOK ==
  ASSUME OrgInv, NEW h \in Handlers, CountOwners(h)
  PROVE  OrgInv'
<1>1. /\ TypeOK /\ RequestOK(h) /\ handler[h] \in HandlerState
      /\ handler[h].pc = "counting" /\ UNCHANGED <<accounts, founded, role>>
  BY DEF OrgInv, TypeOK, CountOwners, At
<1> DEFINE s == [handler[h] EXCEPT !.pc = "ready"]
<1>2. CASE EnoughOwners /\ handler' = [handler EXCEPT ![h].pc = "ready"]
             /\ UNCHANGED <<alive, stale>>
  <2>1. /\ s \in HandlerState /\ s.pc = "ready"
        /\ s.op = handler[h].op /\ s.new = handler[h].new
        /\ s.target = handler[h].target /\ s.loaded = handler[h].loaded
    BY <1>1 DEF HandlerState
  <2>2. handler' = [handler EXCEPT ![h] = s]
    BY <1>2
  <2> HIDE DEF s
  <2>3. handler'[h] = s
    BY <1>1, <2>1, <2>2, StepFrame
  <2>4. RequestOK(h)'
    BY <1>1, <1>2, <2>1, <2>3 DEF RequestOK, At, InvitableRoles
  <2>5. EnoughOwners'
    BY <1>1, <1>2 DEF EnoughOwners, Owners
  <2>6. ReadsOK(h)'
    BY <1>1, <2>1, <2>3, <2>5 DEF ReadsOK, RequestOK, At
  <2> QED
    BY <1>1, <1>2, <2>1, <2>2, <2>4, <2>6, GoingOn
<1>3. CASE Return(h)
  BY <1>1, <1>3, Ending
<1> QED
  BY <1>2, <1>3 DEF CountOwners

LEMMA CommitInviteOK ==
  ASSUME OrgInv, NEW h \in Handlers, CommitInvite(h)
  PROVE  OrgInv'
<1>1. /\ RequestOK(h) /\ At(h, "ready") /\ handler[h].op = "invite"
      /\ UNCHANGED <<accounts, founded>>
  BY DEF OrgInv, CommitInvite
<1>2. /\ handler[h].target \in Users /\ founded
      /\ handler[h].new \in Roles
  BY <1>1 DEF RequestOK, At, InvitableRoles
<1>3. CASE handler[h].target \in accounts /\ Write(h, handler[h].target, handler[h].new)
  BY <1>1, <1>2, <1>3, Writing
<1>4. CASE Return(h) /\ UNCHANGED role
  BY <1>1, <1>4, Ending
<1> QED
  BY <1>3, <1>4 DEF CommitInvite

\* The row written exists, so its user does.
LEMMA CommitRoleOK ==
  ASSUME OrgInv, NEW h \in Handlers, CommitRole(h)
  PROVE  OrgInv'
<1>1. /\ TypeOK /\ RequestOK(h) /\ At(h, "ready") /\ handler[h].op = "update"
      /\ UNCHANGED <<accounts, founded>>
  BY DEF OrgInv, CommitRole
<1>2. /\ handler[h].target \in Users /\ founded
      /\ handler[h].new \in Roles
  BY <1>1 DEF RequestOK, At
<1>3. CASE h \in alive /\ Write(h, handler[h].target, handler[h].new)
  <2>1. handler[h].target \in accounts
    BY <1>1, <1>2, <1>3 DEF RequestOK, TypeOK
  <2> QED
    BY <1>1, <1>2, <1>3, <2>1, Writing
<1>4. CASE Return(h) /\ UNCHANGED role
  BY <1>1, <1>4, Ending
<1> QED
  BY <1>3, <1>4 DEF CommitRole

LEMMA CommitRemovalOK ==
  ASSUME OrgInv, NEW h \in Handlers, CommitRemoval(h)
  PROVE  OrgInv'
<1>1. /\ RequestOK(h) /\ At(h, "ready") /\ UNCHANGED <<accounts, founded>>
  BY DEF OrgInv, CommitRemoval
<1>2. handler[h].target \in Users /\ founded
  BY <1>1 DEF RequestOK, At
<1>3. CASE Write(h, handler[h].target, None)
  BY <1>1, <1>2, <1>3, Writing
<1>4. CASE Return(h) /\ UNCHANGED role
  BY <1>1, <1>4, Ending
<1> QED
  BY <1>3, <1>4 DEF CommitRemoval

LEMMA DeleteAccountOK ==
  ASSUME OrgInv, NEW u \in Users, DeleteAccount(u)
  PROVE  OrgInv'
<1>1. /\ TypeOK /\ UNCHANGED <<founded, handler>>
      /\ accounts' = accounts \ {u} /\ alive' = alive \ About(u)
      /\ stale' = IF role[u] = None THEN stale ELSE Busy
  BY DEF OrgInv, DeleteAccount
<1>2. /\ role' \in [Users -> Roles \cup {None}]
      /\ role'[u] = None
      /\ \A x \in Users \ {u} : role'[x] = role[x]
  BY <1>1 DEF TypeOK, DeleteAccount, WithoutMember
<1>3. Busy' = Busy
  BY <1>1 DEF Busy, At
<1>4. TypeOK'
  BY <1>1, <1>2, <1>3 DEF TypeOK
<1>5. ASSUME NEW g \in Handlers
      PROVE  RequestOK(g)' /\ ReadsOK(g)'
  <2>1. RequestOK(g) /\ ReadsOK(g) /\ handler'[g] = handler[g]
    BY <1>1 DEF OrgInv
  <2>2. ASSUME g \in alive' PROVE role'[handler[g].target] # None
    <3>1. g \in alive /\ handler[g].target # u
      BY <1>1, <2>2 DEF About
    <3>2. handler[g].target \in Users /\ role[handler[g].target] # None
      BY <1>1, <2>1, <3>1 DEF RequestOK, TypeOK, Busy
    <3> QED
      BY <1>2, <3>1, <3>2
  <2>3. RequestOK(g)'
    BY <1>1, <2>1, <2>2 DEF RequestOK, At, InvitableRoles
  <2>4. ReadsOK(g)'
    <3>1. CASE role[u] = None
      <4>1. role' = role /\ stale' = stale
        BY <1>1, <1>2, <3>1 DEF TypeOK
      <4>2. EnoughOwners' = EnoughOwners
        BY <4>1 DEF EnoughOwners, Owners
      <4> QED
        BY <2>1, <4>1, <4>2 DEF ReadsOK, At
    <3>2. CASE role[u] # None
      BY <1>1, <2>1, <3>2 DEF ReadsOK, Busy, At
    <3> QED
      BY <3>1, <3>2
  <2> QED
    BY <2>3, <2>4
<1> QED
  BY <1>4, <1>5 DEF OrgInv

LEMMA StutterOK ==
  ASSUME OrgInv, UNCHANGED vars
  PROVE  OrgInv'
<1>1. UNCHANGED <<accounts, founded, role, handler, alive, stale>>
  BY DEF vars
<1>2. TypeOK'
  BY <1>1 DEF OrgInv, TypeOK, Busy, At
<1>3. ASSUME NEW g \in Handlers
      PROVE  RequestOK(g)' /\ ReadsOK(g)'
  BY <1>1, OthersKeep
<1> QED
  BY <1>2, <1>3 DEF OrgInv

LEMMA Consecution == OrgInv /\ [Next]_vars => OrgInv'
<1> SUFFICES ASSUME OrgInv, [Next]_vars PROVE OrgInv'
  OBVIOUS
<1>1. ASSUME NEW u \in Users, CreateOrganization(u) PROVE OrgInv'
  BY <1>1, CreateOrganizationOK
<1>2. ASSUME NEW u \in Users, DeleteAccount(u) PROVE OrgInv'
  BY <1>2, DeleteAccountOK
<1>3. ASSUME NEW h \in Handlers, NEW op \in Operations, NEW actor \in accounts,
             NEW target \in Users, NEW new \in Roles \cup {None},
             Authorize(h, op, actor, target, new)
      PROVE  OrgInv'
  BY <1>3, AuthorizeOK
<1>4. ASSUME NEW h \in Handlers, CheckInvitee(h) PROVE OrgInv'
  BY <1>4, CheckInviteeOK
<1>5. ASSUME NEW h \in Handlers, LoadMember(h) PROVE OrgInv'
  BY <1>5, LoadMemberOK
<1>6. ASSUME NEW h \in Handlers, CountOwners(h) PROVE OrgInv'
  BY <1>6, CountOwnersOK
<1>7. ASSUME NEW h \in Handlers, CommitInvite(h) PROVE OrgInv'
  BY <1>7, CommitInviteOK
<1>8. ASSUME NEW h \in Handlers, CommitRole(h) PROVE OrgInv'
  BY <1>8, CommitRoleOK
<1>9. ASSUME NEW h \in Handlers, CommitRemoval(h) PROVE OrgInv'
  BY <1>9, CommitRemovalOK
<1>10. CASE UNCHANGED vars
  BY <1>10, StutterOK
<1> QED
  BY <1>1, <1>2, <1>3, <1>4, <1>5, <1>6, <1>7, <1>8, <1>9, <1>10 DEF Next

\* The type invariant: in particular every membership belongs to an account.
THEOREM TypeCorrect == Spec => []TypeOK
<1>1. OrgInv => TypeOK
  BY DEF OrgInv
<1> QED
  BY InitOK, Consecution, <1>1, PTL DEF Spec

-----------------------------------------------------------------------------
(* The last owner                                                          *)

\* One of several owners may go.
LEMMA OneOfSeveral ==
  ASSUME NEW S, Cardinality(S) > 1, NEW x
  PROVE  S \ {x} # {}
<1> SUFFICES ASSUME S \subseteq {x} PROVE FALSE
  OBVIOUS
<1>1. IsFiniteSet({x}) /\ Cardinality({x}) = 1
  BY FS_Singleton
<1>2. Cardinality(S) <= Cardinality({x}) /\ IsFiniteSet(S)
  BY <1>1, FS_Subset
<1>3. Cardinality(S) \in Nat
  BY <1>2, FS_CardinalityType
<1> QED
  BY <1>1, <1>2, <1>3

\* A removal on fresh reads leaves an owner.
LEMMA FreshRemoval ==
  ASSUME OrgInv, NEW h \in Handlers, CommitRemoval(h), h \notin stale, HasOwner
  PROVE  HasOwner'
<1>1. /\ TypeOK /\ RequestOK(h) /\ ReadsOK(h)
      /\ At(h, "ready") /\ handler[h].op = "remove"
  BY DEF OrgInv, CommitRemoval
<1> DEFINE target == handler[h].target
<1>2. target \in Users
  BY <1>1 DEF RequestOK, At
<1>3. CASE Write(h, target, None)
  <2>1. \A x \in Users \ {target} : role'[x] = role[x]
    BY <1>1, <1>2, <1>3, WriteFrame
  <2>2. Owners \ {target} \subseteq Owners'
    BY <2>1 DEF Owners
  <2>3. Owners \ {target} # {}
    <3>1. CASE handler[h].loaded = "owner"
      <4>1. Cardinality(Owners) > 1
        BY <1>1, <3>1 DEF ReadsOK, EnoughOwners
      <4> QED
        BY <4>1, OneOfSeveral
    <3>2. CASE handler[h].loaded # "owner"
      <4>1. target \notin Owners
        BY <1>1, <3>2 DEF ReadsOK, Owners
      <4> QED
        BY <4>1 DEF HasOwner
    <3> QED
      BY <3>1, <3>2
  <2> QED
    BY <2>2, <2>3 DEF HasOwner
<1>4. CASE UNCHANGED role
  BY <1>4 DEF HasOwner, Owners
<1> QED
  BY <1>3, <1>4 DEF CommitRemoval

\* An invitation takes no owner away and makes none.
LEMMA InvitedIsNoOwner ==
  ASSUME OrgInv, NEW h \in Handlers, CommitInvite(h)
  PROVE  Owners' = Owners
<1>1. /\ TypeOK /\ RequestOK(h) /\ At(h, "ready") /\ handler[h].op = "invite"
  BY DEF OrgInv, CommitInvite
<1> DEFINE target == handler[h].target
<1>2. target \in Users /\ handler[h].new \in Roles /\ handler[h].new # "owner"
  BY <1>1 DEF RequestOK, At, InvitableRoles
<1>3. CASE role[target] = None /\ Write(h, target, handler[h].new)
  <2>1. /\ \A x \in Users \ {target} : role'[x] = role[x]
        /\ role'[target] = handler[h].new
    BY <1>1, <1>2, <1>3, WriteFrame
  <2>2. None # "owner"
    BY ConstantsAssumption
  <2> QED
    BY <1>2, <1>3, <2>1, <2>2 DEF Owners
<1>4. CASE UNCHANGED role
  BY <1>4 DEF Owners
<1> QED
  BY <1>3, <1>4 DEF CommitInvite

\* The requests that only read leave the owners alone.
LEMMA ReadingKeepsOwners ==
  ASSUME NEW h \in Handlers,
         \/ CheckInvitee(h) \/ LoadMember(h) \/ CountOwners(h)
         \/ \E op \in Operations, actor \in accounts, target \in Users,
               new \in Roles \cup {None} : Authorize(h, op, actor, target, new)
  PROVE  HasOwner' = HasOwner
<1>1. UNCHANGED role
  BY DEF CheckInvitee, LoadMember, CountOwners, Authorize
<1> QED
  BY <1>1 DEF HasOwner, Owners

\* The last owner is lost only by a demotion, by the deletion of the account, or
\* by a removal whose reads are out of date.
THEOREM OwnersAreKept == Spec => LastOwnerIsKept
<1> DEFINE Excused ==
             \/ accounts' # accounts
             \/ \E h \in Handlers :
                  /\ At(h, "ready")
                  /\ handler'[h] = Idle
                  /\ \/ handler[h].op = "update"
                     \/ handler[h].op = "remove" /\ h \in stale
<1>1. ASSUME OrgInv, [Next]_vars, HasOwner, ~HasOwner'
      PROVE  Excused
  <2>1. ASSUME NEW u \in Users, CreateOrganization(u) PROVE Excused
    <3>1. role'[u] = "owner"
      BY <1>1, <2>1 DEF CreateOrganization, OrgInv, TypeOK
    <3> QED
      BY <1>1, <3>1 DEF HasOwner, Owners
  <2>2. ASSUME NEW u \in Users, DeleteAccount(u) PROVE Excused
    BY <1>1, <2>2 DEF DeleteAccount
  <2>3. ASSUME NEW h \in Handlers, CommitInvite(h) PROVE Excused
    BY <1>1, <2>3, InvitedIsNoOwner DEF HasOwner
  <2>4. ASSUME NEW h \in Handlers, CommitRole(h) PROVE Excused
    <3>1. handler'[h] = Idle
      BY <1>1, <2>4 DEF CommitRole, Write, Return, OrgInv, TypeOK
    <3> QED
      BY <2>4, <3>1 DEF CommitRole
  <2>5. ASSUME NEW h \in Handlers, CommitRemoval(h) PROVE Excused
    <3>1. handler'[h] = Idle
      BY <1>1, <2>5 DEF CommitRemoval, Write, Return, OrgInv, TypeOK
    <3>2. h \in stale
      BY <1>1, <2>5, FreshRemoval
    <3> QED
      BY <2>5, <3>1, <3>2 DEF CommitRemoval
  <2>6. ASSUME NEW h \in Handlers,
               \/ CheckInvitee(h) \/ LoadMember(h) \/ CountOwners(h)
               \/ \E op \in Operations, actor \in accounts, target \in Users,
                     new \in Roles \cup {None} : Authorize(h, op, actor, target, new)
        PROVE  Excused
    BY <1>1, <2>6, ReadingKeepsOwners
  <2>7. CASE UNCHANGED vars
    BY <1>1, <2>7 DEF vars, HasOwner, Owners
  <2> HIDE DEF Excused
  <2> QED
    BY <1>1, <2>1, <2>2, <2>3, <2>4, <2>5, <2>6, <2>7 DEF Next
<1>2. OrgInv /\ [Next]_vars => [HasOwner /\ ~HasOwner' => Excused]_vars
  BY <1>1
<1> QED
  BY InitOK, Consecution, <1>2, PTL DEF Spec, LastOwnerIsKept

\* Without an owner and without a request authorized for one, none appears.
THEOREM OwnerlessStays == Spec => OwnerlessIsFinal
<1> DEFINE Ownerless == /\ founded
                        /\ ~HasOwner
                        /\ \A h \in Handlers : handler[h].op \in {"invite", None}
<1>1. ASSUME OrgInv, [Next]_vars, Ownerless
      PROVE  ~HasOwner'
  <2>1. ASSUME NEW u \in Users, CreateOrganization(u) PROVE ~HasOwner'
    BY <1>1, <2>1 DEF CreateOrganization
  <2>2. ASSUME NEW u \in Users, DeleteAccount(u) PROVE ~HasOwner'
    <3>1. /\ role'[u] = None
          /\ \A x \in Users \ {u} : role'[x] = role[x]
      BY <1>1, <2>2 DEF DeleteAccount, WithoutMember, OrgInv, TypeOK
    <3>2. None # "owner"
      BY ConstantsAssumption
    <3> QED
      BY <1>1, <3>1, <3>2 DEF HasOwner, Owners
  <2>3. ASSUME NEW h \in Handlers, CommitInvite(h) PROVE ~HasOwner'
    BY <1>1, <2>3, InvitedIsNoOwner DEF HasOwner
  <2>4. ASSUME NEW h \in Handlers, CommitRole(h) \/ CommitRemoval(h)
        PROVE  ~HasOwner'
    <3>1. handler[h].op \notin {"invite", None}
      BY <2>4, ConstantsAssumption DEF CommitRole, CommitRemoval, Operations
    <3> QED
      BY <1>1, <3>1
  <2>5. ASSUME NEW h \in Handlers,
               \/ CheckInvitee(h) \/ LoadMember(h) \/ CountOwners(h)
               \/ \E op \in Operations, actor \in accounts, target \in Users,
                     new \in Roles \cup {None} : Authorize(h, op, actor, target, new)
        PROVE  ~HasOwner'
    BY <1>1, <2>5, ReadingKeepsOwners
  <2>6. CASE UNCHANGED vars
    BY <1>1, <2>6 DEF vars, HasOwner, Owners
  <2> HIDE DEF Ownerless
  <2> QED
    BY <1>1, <2>1, <2>2, <2>3, <2>4, <2>5, <2>6 DEF Next
<1>2. OrgInv /\ [Next]_vars => [Ownerless => ~HasOwner']_vars
  BY <1>1
<1> QED
  BY InitOK, Consecution, <1>2, PTL DEF Spec, OwnerlessIsFinal

-----------------------------------------------------------------------------
(* Organization implements Membership                                      *)

\* An invitation that is committed is a member who joins.
LEMMA InviteJoins ==
  ASSUME OrgInv, NEW h \in Handlers, CommitInvite(h)
  PROVE  [Atomic!Next]_Atomic!members
<1>1. /\ RequestOK(h) /\ At(h, "ready") /\ handler[h].op = "invite"
      /\ UNCHANGED <<accounts, founded>>
  BY DEF OrgInv, CommitInvite
<1> DEFINE u == handler[h].target
           r == handler[h].new
<1>2. u \in Users /\ founded /\ r \in Roles \ {"owner"}
  BY <1>1 DEF RequestOK, At, InvitableRoles
<1>3. CASE u \in accounts /\ role[u] = None /\ Write(h, u, r)
  <2>1. role' = [role EXCEPT ![u] = r]
    BY <1>3 DEF Write
  <2>2. Atomic!Join(u, r)
    BY <1>1, <1>2, <1>3, <2>1 DEF Atomic!Join, Atomic!Gives
  <2> QED
    BY <1>2, <2>2 DEF Atomic!Next
<1>4. CASE UNCHANGED role
  BY <1>1, <1>4 DEF Atomic!members
<1> QED
  BY <1>3, <1>4 DEF CommitInvite

\* A role is written to a membership that still exists.
LEMMA UpdateAppoints ==
  ASSUME OrgInv, NEW h \in Handlers, CommitRole(h)
  PROVE  [Atomic!Next]_Atomic!members
<1>1. /\ RequestOK(h) /\ At(h, "ready") /\ handler[h].op = "update"
      /\ UNCHANGED <<accounts, founded>>
  BY DEF OrgInv, CommitRole
<1> DEFINE u == handler[h].target
           r == handler[h].new
<1>2. u \in Users /\ r \in Roles
  BY <1>1 DEF RequestOK, At
<1>3. CASE h \in alive /\ Write(h, u, r)
  <2>1. role[u] # None /\ role' = [role EXCEPT ![u] = r]
    BY <1>1, <1>3 DEF RequestOK, Write
  <2>2. Atomic!Appoint(u, r)
    BY <1>1, <1>2, <2>1 DEF Atomic!Appoint, Atomic!Gives
  <2> QED
    BY <1>2, <2>2 DEF Atomic!Next
<1>4. CASE UNCHANGED role
  BY <1>1, <1>4 DEF Atomic!members
<1> QED
  BY <1>3, <1>4 DEF CommitRole

\* Who is removed is no owner, or one of several, or the reads are out of date.
LEMMA RemovalLeaves ==
  ASSUME OrgInv, NEW h \in Handlers, CommitRemoval(h)
  PROVE  [Atomic!Next]_Atomic!members
<1>1. /\ RequestOK(h) /\ ReadsOK(h) /\ At(h, "ready") /\ handler[h].op = "remove"
      /\ UNCHANGED <<accounts, founded>>
  BY DEF OrgInv, CommitRemoval
<1> DEFINE u == handler[h].target
           overlapped == {handler[g].target : g \in {x \in stale : handler[x].op = "remove"}}
<1>2. u \in Users
  BY <1>1 DEF RequestOK, At
<1>3. CASE h \in alive /\ Write(h, u, None)
  <2>1. role[u] # None /\ role' = [role EXCEPT ![u] = None]
    BY <1>1, <1>3 DEF RequestOK, Write
  <2>2. \/ role[u] # "owner"
        \/ \E w \in Users \ {u} : role[w] = "owner"
        \/ u \in overlapped
    <3>1. CASE h \in stale
      BY <1>1, <3>1
    <3>2. CASE h \notin stale /\ handler[h].loaded = "owner"
      <4>1. Cardinality(Owners) > 1
        BY <1>1, <3>2 DEF ReadsOK, EnoughOwners
      <4>2. Owners \ {u} # {}
        BY <4>1, OneOfSeveral
      <4> QED
        BY <4>2 DEF Owners
    <3>3. CASE h \notin stale /\ handler[h].loaded # "owner"
      BY <1>1, <3>3 DEF ReadsOK
    <3> QED
      BY <3>1, <3>2, <3>3
  <2>3. Atomic!Leave(u)
    BY <1>1, <2>1, <2>2 DEF Atomic!Leave, Atomic!Gives
  <2> QED
    BY <1>2, <2>3 DEF Atomic!Next
<1>4. CASE UNCHANGED role
  BY <1>1, <1>4 DEF Atomic!members
<1> QED
  BY <1>3, <1>4 DEF CommitRemoval

\* The requests act as single steps on the members: authorizations and reads are
\* stutters, each write is a change the members' own rules allow.
THEOREM MembershipImplemented == Spec => ImplementsMembership
<1>1. Init => Atomic!Init
  BY DEF Init, Atomic!Init
<1>2. ASSUME OrgInv, [Next]_vars
      PROVE  [Atomic!Next]_Atomic!members
  <2>1. ASSUME NEW u \in Users, CreateOrganization(u)
        PROVE  [Atomic!Next]_Atomic!members
    <3>1. Atomic!Found(u)
      BY <2>1 DEF CreateOrganization, Atomic!Found, Atomic!Gives
    <3> QED
      BY <3>1 DEF Atomic!Next
  <2>2. ASSUME NEW u \in Users, DeleteAccount(u)
        PROVE  [Atomic!Next]_Atomic!members
    <3>1. Atomic!Close(u)
      BY <2>2 DEF DeleteAccount, WithoutMember, Atomic!Close, Atomic!Gives
    <3> QED
      BY <3>1 DEF Atomic!Next
  <2>3. ASSUME NEW h \in Handlers,
               \/ CheckInvitee(h) \/ LoadMember(h) \/ CountOwners(h)
               \/ \E op \in Operations, actor \in accounts, target \in Users,
                     new \in Roles \cup {None} : Authorize(h, op, actor, target, new)
        PROVE  [Atomic!Next]_Atomic!members
    <3>1. UNCHANGED <<accounts, founded, role>>
      BY <2>3 DEF CheckInvitee, LoadMember, CountOwners, Authorize
    <3> QED
      BY <3>1 DEF Atomic!members
  <2>4. ASSUME NEW h \in Handlers, CommitInvite(h) \/ CommitRole(h) \/ CommitRemoval(h)
        PROVE  [Atomic!Next]_Atomic!members
    BY <1>2, <2>4, InviteJoins, UpdateAppoints, RemovalLeaves
  <2>5. CASE UNCHANGED vars
    BY <2>5 DEF vars, Atomic!members
  <2> QED
    BY <1>2, <2>1, <2>2, <2>3, <2>4, <2>5 DEF Next
<1> QED
  BY InitOK, Consecution, <1>1, <1>2, PTL DEF Spec, ImplementsMembership, Atomic!Spec

\* Whatever requests overlap, the members change one at a time, nobody without an
\* account joins, and nobody but the founder joins as owner.
THEOREM OneMemberAtATime == Spec => Atomic!ChangesAreSingle
<1>1. ASSUME TypeOK, Atomic!Next
      PROVE  Atomic!ChangesOne /\ Atomic!JoinsProperly
  <2>0. PICK u \in Users : \/ Atomic!Found(u) \/ Atomic!Leave(u) \/ Atomic!Close(u)
                           \/ \E r \in Roles : Atomic!Join(u, r) \/ Atomic!Appoint(u, r)
    BY <1>1 DEF Atomic!Next
  <2>1. \E r : role' = [role EXCEPT ![u] = r]
    BY <2>0 DEF Atomic!Found, Atomic!Leave, Atomic!Close, Atomic!Join, Atomic!Appoint,
       Atomic!Gives
  <2>2. \A w \in Users \ {u} : role'[w] = role[w]
    BY <1>1, <2>1 DEF TypeOK
  <2>3. role[u] = None /\ role'[u] # None =>
          u \in accounts /\ (role'[u] = "owner" => ~founded)
    BY <1>1, <2>0 DEF TypeOK, Atomic!Found, Atomic!Leave, Atomic!Close, Atomic!Join,
       Atomic!Appoint, Atomic!Gives
  <2> QED
    BY <2>2, <2>3 DEF Atomic!ChangesOne, Atomic!JoinsProperly
<1>2. TypeOK /\ [Atomic!Next]_Atomic!members
        => [Atomic!ChangesOne /\ Atomic!JoinsProperly]_Atomic!members
  BY <1>1
<1> QED
  BY <1>2, TypeCorrect, MembershipImplemented, PTL
  DEF ImplementsMembership, Atomic!Spec, Atomic!ChangesAreSingle

-----------------------------------------------------------------------------
(***************************************************************************)
(* Billing, which keeps the plan of the personal organization: for any      *)
(* number of users, requests, customers, sessions, events and mishaps.      *)
(***************************************************************************)
CONSTANTS MaxCustomers, MaxSessions, MaxEvents, MaxMishaps
VARIABLES owner, sessions, subs, log, answered, customer, plan, orgPlan, processed,
          call, disturbed, crossed, reopened, missed, mishaps

\* The requests of Billing are in call; handler is that of Organization.
Bl == INSTANCE Billing WITH handler <- call

Paying(s)  == s.pc \in {"finding", "creating", "opening", "opened"}
Hearing(s) == s.pc \in {"fresh", "loaded", "computed", "keyed"}

\* A checkout has a user who is not on the plan; its customer is that user's.
CheckoutOK(s) ==
    Paying(s) => /\ s.e = None /\ s.user \in Users /\ s.hadPlan = "free"
                 /\ s.pc \in {"opening", "opened"} => s.customer \in Bl!CustomersOf(s.user)

\* A delivery has an event, and the user of that event or none.
DeliveryOK(s) ==
    /\ s.pc = "idle" => s.e = None
    /\ Hearing(s) => s.e \in 1..Len(log)
    /\ s.pc = "fresh" => /\ s.user = None /\ s.hadPlan = None
                         /\ s.hadOrg = None /\ s.hadCustomer = None
    /\ Hearing(s) /\ s.pc # "fresh" =>
         \/ s.user = Bl!UserOf(s.e) /\ s.hadPlan \in Bl!Plans
         \/ /\ s.pc # "loaded" /\ log[s.e].kind # "checkout"
            /\ s.user = None /\ s.hadPlan = None /\ s.hadOrg = None

WorkOK == \A h \in Handlers : CheckoutOK(call[h]) /\ DeliveryOK(call[h])

\* The customer of a user's row was created for that user.
HoldersOK == \A u \in Users : customer[u] \in Bl!CustomersOf(u) \cup {None}

Creating(h, u) == call[h].pc = "creating" /\ call[h].user = u

\* Whom no search missed has one customer, or one request that creates it.
OneCustomer(u) ==
    /\ \A c, d \in Bl!CustomersOf(u) : c = d
    /\ \A h \in Handlers : Creating(h, u) =>
         Bl!CustomersOf(u) = {} /\ \A g \in Handlers : Creating(g, u) => g = h

\* Who opened one checkout at a time has one open session or one subscription.
OneSubscription(u) ==
    /\ \A c, d \in Bl!CustomersOf(u) : sessions[c] > 0 /\ sessions[d] > 0 => c = d
    /\ \A c \in Bl!CustomersOf(u) : sessions[c] <= 1
    /\ \A c \in Bl!CustomersOf(u) : sessions[c] > 0 => Bl!Live(u) = {}
    /\ \A s, t \in Bl!Live(u) : s = t

OnceOK ==
    /\ \A c \in Bl!Customers : c > Len(owner) => sessions[c] = 0
    /\ \A u \in Users \ missed : OneCustomer(u)
    /\ \A u \in Users \ reopened : OneSubscription(u)

Begins(d, s) == log[d].sub = s /\ log[d].kind = "checkout"
Last(e, es) == e \in es /\ \A d \in es : d <= e

\* Every subscription begins with a checkout event, and the last event of a user
\* tells whether the user is billed.
LogOK ==
    /\ \A s \in 1..Len(subs) : \E d \in 1..Len(log) : Begins(d, s)
    /\ \A e \in 1..Len(log) : \E d \in 1..e : Begins(d, log[e].sub)
    /\ \A u \in Users \ reopened : \A e \in 1..Len(log) :
         Last(e, Bl!EventsOf(u)) => (log[e].kind = "lost" <=> Bl!Billed(u) = {})

AnsweredOf(u) == Bl!EventsOf(u) \cap answered
HasKey(h) == call[h].e \in processed

\* One delivery at a time, of an event no older than those answered; a key without
\* an answer is that of the delivery about to commit, or of an event that a newer
\* one has made good.
InTurn(u) ==
    /\ \A g, h \in Bl!BusyWith(u) : g = h
    /\ \A h \in Bl!BusyWith(u) : \A d \in AnsweredOf(u) : d <= call[h].e
    /\ \A e \in Bl!EventsOf(u) \cap processed :
         \/ e \in answered
         \/ \E d \in AnsweredOf(u) : d > e
         \/ \E h \in Handlers : call[h].e = e /\ call[h].pc = "keyed"

\* What a delivery has loaded is still so, and the two plans are the same.
CopyOK(h, u) ==
    call[h].user = u =>
        /\ call[h].hadPlan = plan[u]
        /\ call[h].pc # "loaded" =>
             \/ call[h].hadOrg = orgPlan[u]
             \/ log[call[h].e].kind = "active" /\ plan[u] = "pro" /\ call[h].hadOrg = None
Mirrored(u) == orgPlan[u] = plan[u] /\ \A h \in Bl!BusyWith(u) : CopyOK(h, u)

\* The delivery has seen a customer in the row of u.
Found(h, u) ==
    call[h].user = u /\ (log[call[h].e].kind # "checkout" \/ call[h].hadCustomer # None)

\* A delivery that met no other one is alone, and what it has loaded is still so;
\* the customer that one has seen is still there.
AloneOK(u) ==
    \A h \in Bl!BusyWith(u) :
        /\ Found(h, u) => customer[u] # None
        /\ h \notin crossed => Bl!BusyWith(u) = {h} /\ CopyOK(h, u)

\* The events of a user that are answered, or that will be at their next delivery.
SettledOf(u) == Bl!EventsOf(u) \cap (answered \cup processed)

\* An event that found no user has an older one that has yet to be handled.
BlindOK(u) ==
    \A h \in Bl!BusyWith(u) : call[h].pc \in {"computed", "keyed"} /\ call[h].user = None =>
        \E d \in Bl!EventsOf(u) \ SettledOf(u) : d < call[h].e

\* A checkout event that is settled has left its customer in the row, and a
\* customer that was seen there has not gone.
KnownOK(u) ==
    /\ \A d \in SettledOf(u) : log[d].kind = "checkout" =>
         \/ customer[u] # None
         \/ d \in processed /\ \E h \in Handlers : call[h].e = d
    /\ \A h \in Bl!BusyWith(u) : call[h].hadCustomer # None => customer[u] # None

\* The events of a user were answered in order, and none is being applied.
InOrder(u) == \A d \in Bl!EventsOf(u) : \A a \in AnsweredOf(u) :
                d < a => d \in SettledOf(u)
AppliedOK(u) ==
    InOrder(u) /\ (\A h \in Bl!BusyWith(u) : ~HasKey(h)) =>
        /\ AnsweredOf(u) = {} => plan[u] = "free"
        /\ \A a \in AnsweredOf(u) :
             Last(a, AnsweredOf(u)) => plan[u] = Bl!PlanAfter(log[a].kind)

TurnsOK ==
    /\ \A u \in Users : AloneOK(u)
    /\ \A u \in Users \ disturbed : InTurn(u) /\ Mirrored(u) /\ KnownOK(u)
    /\ \A u \in Users \ (disturbed \cup missed) : BlindOK(u) /\ AppliedOK(u)

BillInv == Bl!TypeOK /\ WorkOK /\ HoldersOK /\ OnceOK /\ LogOK /\ TurnsOK

-----------------------------------------------------------------------------
(* What Stripe keeps only grows                                            *)

LEMMA AppendFacts ==
  ASSUME NEW S, NEW s \in Seq(S), NEW x \in S
  PROVE  /\ Append(s, x) \in Seq(S)
         /\ Len(Append(s, x)) = Len(s) + 1 /\ Len(s) \in Nat
         /\ \A i \in 1..Len(s) : Append(s, x)[i] = s[i]
         /\ Append(s, x)[Len(s) + 1] = x
  OBVIOUS

LEMMA OneTaken ==
  ASSUME NEW S, NEW f \in [S -> Nat], NEW c \in S, f[c] > 0,
         NEW g, g = [f EXCEPT ![c] = @ - 1]
  PROVE  /\ g \in [S -> Nat] /\ g[c] = f[c] - 1
         /\ \A d \in S \ {c} : g[d] = f[d]
         /\ \A d \in S : f[d] \in Nat
  OBVIOUS

LEMMA SeqWidens ==
  ASSUME NEW S, NEW T, S \subseteq T, NEW s \in Seq(S)
  PROVE  s \in Seq(T)
  OBVIOUS

LEMMA SeqElement ==
  ASSUME NEW S, NEW s \in Seq(S), NEW i \in 1..Len(s)
  PROVE  s[i] \in S
  OBVIOUS

LEMMA UserFacts ==
  ASSUME Bl!TypeOK, NEW e \in 1..Len(log)
  PROVE  /\ Bl!CustomerOf(e) \in 1..Len(owner)
         /\ Bl!UserOf(e) \in Users
         /\ Bl!CustomerOf(e) \in Bl!CustomersOf(Bl!UserOf(e))
         /\ e \in Bl!EventsOf(Bl!UserOf(e))
         /\ log[e].kind \in Bl!Kinds /\ log[e].sub \in 1..Len(subs)
  <1>1. /\ owner \in Seq(Users)
        /\ subs \in Seq([customer: 1..Len(owner), state: Bl!SubStates])
        /\ log \in Seq([kind: Bl!Kinds, sub: 1..Len(subs)])
    BY DEF Bl!TypeOK
  <1>2. log[e] \in [kind: Bl!Kinds, sub: 1..Len(subs)]
    BY <1>1, SeqElement
  <1>3. subs[log[e].sub] \in [customer: 1..Len(owner), state: Bl!SubStates]
    <2>1. log[e].sub \in 1..Len(subs)
      BY <1>2
    <2> QED BY <1>1, <2>1, SeqElement
  <1>4. Bl!CustomerOf(e) \in 1..Len(owner)
    BY <1>3 DEF Bl!CustomerOf
  <1>5. Bl!UserOf(e) \in Users /\ Bl!UserOf(e) = owner[Bl!CustomerOf(e)]
    BY <1>1, <1>4 DEF Bl!UserOf
  <1> QED BY <1>2, <1>4, <1>5 DEF Bl!CustomersOf, Bl!EventsOf

\* What was created, emitted or subscribed stays whose it is.
StripeGrows ==
    /\ Len(owner) <= Len(owner') /\ Len(owner') \in Nat
    /\ \A c \in 1..Len(owner) : owner'[c] = owner[c]
    /\ Len(log) <= Len(log') /\ Len(log') \in Nat
    /\ \A e \in 1..Len(log) : /\ log'[e] = log[e]
                              /\ Bl!CustomerOf(e)' = Bl!CustomerOf(e)
                              /\ Bl!UserOf(e)' = Bl!UserOf(e)

LEMMA StripeStays ==
  ASSUME Bl!TypeOK, UNCHANGED <<owner, subs, log>>
  PROVE  /\ StripeGrows
         /\ \A u : /\ Bl!CustomersOf(u)' = Bl!CustomersOf(u)
                   /\ Bl!EventsOf(u)' = Bl!EventsOf(u)
                   /\ Bl!Live(u)' = Bl!Live(u)
                   /\ Bl!Billed(u)' = Bl!Billed(u)
         /\ \A e : /\ Bl!UserOf(e)' = Bl!UserOf(e)
                   /\ Bl!CustomerOf(e)' = Bl!CustomerOf(e)
  <1>1. Len(owner) \in Nat /\ Len(log) \in Nat
    BY DEF Bl!TypeOK
  <1>2. \A e : Bl!CustomerOf(e)' = Bl!CustomerOf(e)
    BY DEF Bl!CustomerOf
  <1>3. \A e : Bl!UserOf(e)' = Bl!UserOf(e)
    BY <1>2 DEF Bl!UserOf
  <1>4. StripeGrows
    BY <1>1, <1>2, <1>3 DEF StripeGrows
  <1>5. \A u : Bl!CustomersOf(u)' = Bl!CustomersOf(u)
    BY DEF Bl!CustomersOf
  <1>6. \A u : Bl!EventsOf(u)' = Bl!EventsOf(u)
    BY <1>3 DEF Bl!EventsOf
  <1>7. \A u : Bl!Live(u)' = Bl!Live(u)
    BY DEF Bl!Live
  <1>8. \A u : Bl!Billed(u)' = Bl!Billed(u)
    BY <1>7 DEF Bl!Billed
  <1> QED BY <1>2, <1>3, <1>4, <1>5, <1>6, <1>7, <1>8

LEMMA BusyFacts ==
  ASSUME Bl!BillingAssumption, Bl!TypeOK, WorkOK
  PROVE  /\ \A h \in Handlers : call[h].e # None <=> Hearing(call[h])
         /\ \A h \in Handlers : Hearing(call[h]) =>
              call[h].e \in 1..Len(log) /\ h \in Bl!BusyWith(Bl!UserOf(call[h].e))
         /\ \A u : \A h \in Bl!BusyWith(u) :
              /\ h \in Handlers /\ Hearing(call[h]) /\ call[h].e \in 1..Len(log)
              /\ Bl!UserOf(call[h].e) = u
  <1>1. Len(log) \in Nat /\ None \notin Nat
    BY DEF Bl!TypeOK, Bl!BillingAssumption
  <1>2. \A h \in Handlers : Paying(call[h]) \/ Hearing(call[h]) \/ call[h].pc = "idle"
    BY DEF Bl!TypeOK, Paying, Hearing
  <1>3. \A h \in Handlers : call[h].e # None <=> Hearing(call[h])
    BY <1>1, <1>2 DEF WorkOK, CheckoutOK, DeliveryOK
  <1>4. \A h \in Handlers : Hearing(call[h]) => call[h].e \in 1..Len(log)
    BY DEF WorkOK, DeliveryOK
  <1> QED BY <1>3, <1>4 DEF Bl!BusyWith

-----------------------------------------------------------------------------
(* Steps that leave the deliveries alone                                   *)

\* Requests that have an event, before or after, are the same.
SameDeliveries ==
    \A h \in Handlers : call[h].e # None \/ call'[h].e # None => call'[h] = call[h]

LEMMA BusyStays ==
  ASSUME Bl!BillingAssumption, Bl!TypeOK, WorkOK, StripeGrows, SameDeliveries
  PROVE  /\ \A u : Bl!BusyWith(u)' = Bl!BusyWith(u)
         /\ \A u : \A h \in Bl!BusyWith(u) : call'[h] = call[h]
  <1>1. \A u : \A h \in Bl!BusyWith(u) : h \in Handlers /\ call'[h] = call[h]
    BY DEF Bl!BusyWith, SameDeliveries
  <1>2. \A h \in Handlers : call[h].e # None => call[h].e \in 1..Len(log)
    BY BusyFacts
  <1>3. ASSUME NEW u PROVE Bl!BusyWith(u)' = Bl!BusyWith(u)
    <2>1. ASSUME NEW h \in Handlers
          PROVE  h \in Bl!BusyWith(u)' <=> h \in Bl!BusyWith(u)
      <3>1. CASE call[h].e = None /\ call'[h].e = None
        BY <3>1 DEF Bl!BusyWith
      <3>2. CASE call[h].e # None \/ call'[h].e # None
        <4>1. call'[h] = call[h] /\ call[h].e \in 1..Len(log)
          BY <1>2, <3>2 DEF SameDeliveries
        <4>2. owner'[subs'[log'[call[h].e].sub].customer] = owner[subs[log[call[h].e].sub].customer]
          BY <4>1 DEF StripeGrows, Bl!UserOf, Bl!CustomerOf
        <4> QED BY <4>1, <4>2 DEF Bl!BusyWith, Bl!UserOf, Bl!CustomerOf
      <3> QED BY <3>1, <3>2
    <2> QED BY <2>1 DEF Bl!BusyWith
  <1> QED BY <1>1, <1>3

LEMMA LogFacts ==
  ASSUME Bl!TypeOK
  PROVE  processed \subseteq 1..Len(log) /\ answered \subseteq 1..Len(log) /\ Len(log) \in Nat
  <1>1. Len(log) \in Nat
    BY DEF Bl!TypeOK
  <1>2. processed \subseteq 1..Len(log) /\ answered \subseteq 1..Len(log)
    BY DEF Bl!TypeOK
  <1> QED BY <1>1, <1>2

LEMMA EventsGrow ==
  ASSUME Bl!TypeOK, StripeGrows, UNCHANGED answered
  PROVE  \A u : /\ Bl!EventsOf(u) = Bl!EventsOf(u)' \cap (1..Len(log))
                /\ AnsweredOf(u)' = AnsweredOf(u)
                /\ AnsweredOf(u) \subseteq 1..Len(log)
  <1>1. Len(log) \in Nat /\ answered \subseteq 1..Len(log)
    BY LogFacts
  <1>2. \A u : Bl!EventsOf(u) = Bl!EventsOf(u)' \cap (1..Len(log))
    BY <1>1 DEF Bl!EventsOf, StripeGrows
  <1> QED BY <1>1, <1>2 DEF AnsweredOf

LEMMA TurnsStay ==
  ASSUME Bl!BillingAssumption, Bl!TypeOK, WorkOK, TurnsOK, StripeGrows, SameDeliveries,
         UNCHANGED <<answered, processed, plan, orgPlan, disturbed, crossed>>,
         missed \subseteq missed',
         \A u \in Users : customer[u] # None => customer'[u] # None
  PROVE  TurnsOK'
  <1>1. \A u : /\ Bl!BusyWith(u)' = Bl!BusyWith(u)
               /\ \A h \in Bl!BusyWith(u) : call'[h] = call[h]
    BY BusyStays
  <1>2. \A u : /\ Bl!EventsOf(u) = Bl!EventsOf(u)' \cap (1..Len(log))
               /\ AnsweredOf(u)' = AnsweredOf(u)
               /\ AnsweredOf(u) \subseteq 1..Len(log)
    BY EventsGrow
  <1>3. processed \subseteq 1..Len(log) /\ answered \subseteq 1..Len(log) /\ Len(log) \in Nat
    BY LogFacts
  <1>4. \A u : \A h \in Bl!BusyWith(u) : h \in Handlers /\ call[h].e \in 1..Len(log)
    BY BusyFacts
  <1>5. \A e \in 1..Len(log) : log'[e] = log[e]
    BY DEF StripeGrows
  <1>9. \A u : SettledOf(u)' = SettledOf(u) /\ SettledOf(u) \subseteq 1..Len(log)
    BY <1>2, <1>3 DEF SettledOf
  <1>6. ASSUME NEW u \in Users \ disturbed PROVE (InTurn(u) /\ Mirrored(u) /\ KnownOK(u))'
    <2>1. InTurn(u) /\ Mirrored(u) /\ KnownOK(u)
      BY DEF TurnsOK
    <2>2. \A g, h \in Bl!BusyWith(u)' : g = h
      BY <1>1, <2>1 DEF InTurn
    <2>3. \A h \in Bl!BusyWith(u)' : \A d \in AnsweredOf(u)' : d <= call'[h].e
      BY <1>1, <1>2, <2>1 DEF InTurn
    <2>4. ASSUME NEW e \in Bl!EventsOf(u)' \cap processed'
          PROVE  \/ e \in answered'
                 \/ \E d \in AnsweredOf(u)' : d > e
                 \/ \E h \in Handlers : call'[h].e = e /\ call'[h].pc = "keyed"
      <3>1. e \in Bl!EventsOf(u) \cap processed /\ e \in 1..Len(log)
        BY <1>2, <1>3
      <3>2. CASE e \in answered \/ \E d \in AnsweredOf(u) : d > e
        BY <1>2, <3>2
      <3>3. ASSUME NEW h \in Handlers, call[h].e = e, call[h].pc = "keyed"
            PROVE  call'[h].e = e /\ call'[h].pc = "keyed"
        BY <1>3, <3>1, <3>3 DEF SameDeliveries, Bl!BillingAssumption
      <3> QED BY <2>1, <3>1, <3>2, <3>3 DEF InTurn
    <2>5. InTurn(u)'
      BY <2>2, <2>3, <2>4 DEF InTurn
    <2>6. Mirrored(u)'
      BY <1>1, <1>4, <1>5, <2>1 DEF Mirrored, CopyOK
    <2>7. KnownOK(u)'
      <3>0. \A h \in Bl!BusyWith(u)' : call'[h].hadCustomer # None => customer'[u] # None
        BY <1>1, <2>1 DEF KnownOK
      <3>1. SUFFICES ASSUME NEW d \in SettledOf(u)', log'[d].kind = "checkout",
                            ~ (customer'[u] # None)
                     PROVE  d \in processed' /\ \E h \in Handlers : call'[h].e = d
        BY <3>0 DEF KnownOK
      <3>2. d \in SettledOf(u) /\ d \in 1..Len(log) /\ log[d].kind = "checkout" /\ u \in Users
        BY <1>2, <1>3, <1>5, <1>9, <3>1
      <3>3. PICK h \in Handlers : d \in processed /\ call[h].e = d
        BY <2>1, <3>1, <3>2 DEF KnownOK
      <3>4. call'[h] = call[h]
        BY <1>3, <3>2, <3>3 DEF SameDeliveries, Bl!BillingAssumption
      <3> QED BY <3>3, <3>4
    <2> QED BY <2>5, <2>6, <2>7
  <1>7. ASSUME NEW u \in Users \ (disturbed \cup missed)
        PROVE  (BlindOK(u) /\ AppliedOK(u))'
    <2>1. BlindOK(u) /\ AppliedOK(u)
      BY DEF TurnsOK
    <2>2. BlindOK(u)'
      BY <1>1, <1>2, <1>9, <2>1 DEF BlindOK
    <2>3. (\A h \in Bl!BusyWith(u) : ~HasKey(h))' => \A h \in Bl!BusyWith(u) : ~HasKey(h)
      BY <1>1 DEF HasKey
    <2>4. InOrder(u)' => InOrder(u)
      BY <1>2, <1>9 DEF InOrder
    <2>5. AppliedOK(u)'
      BY <1>2, <1>5, <2>1, <2>3, <2>4 DEF AppliedOK
    <2> QED BY <2>2, <2>5
  <1>8. ASSUME NEW u \in Users PROVE AloneOK(u)'
    <2>1. AloneOK(u)
      BY DEF TurnsOK
    <2> QED BY <1>1, <1>4, <1>5, <2>1 DEF AloneOK, CopyOK, Found
  <1> QED BY <1>6, <1>7, <1>8 DEF TurnsOK

LEMMA CustomersGrow ==
  ASSUME Bl!TypeOK, StripeGrows
  PROVE  \A u : Bl!CustomersOf(u) \subseteq Bl!CustomersOf(u)'
  <1>1. Len(owner) \in Nat
    BY DEF Bl!TypeOK
  <1> QED BY <1>1 DEF Bl!CustomersOf, StripeGrows

LEMMA WorkKeeps ==
  ASSUME Bl!TypeOK, WorkOK, StripeGrows, NEW g \in Handlers, call'[g] = call[g]
  PROVE  CheckoutOK(call[g])' /\ DeliveryOK(call[g])'
  <1>1. CheckoutOK(call[g]) /\ DeliveryOK(call[g]) /\ Len(log) \in Nat
    BY DEF WorkOK, Bl!TypeOK
  <1>2. CheckoutOK(call[g])'
    BY <1>1, CustomersGrow DEF CheckoutOK, Paying
  <1>3. ASSUME call[g].e \in 1..Len(log)
        PROVE  /\ call[g].e \in 1..Len(log') /\ log'[call[g].e] = log[call[g].e]
               /\ owner'[subs'[log'[call[g].e].sub].customer]
                    = owner[subs[log[call[g].e].sub].customer]
    <2>1. call[g].e \in 1..Len(log') /\ log'[call[g].e] = log[call[g].e]
      BY <1>1, <1>3 DEF StripeGrows
    <2>2. owner'[subs'[log'[call[g].e].sub].customer]
            = owner[subs[log[call[g].e].sub].customer]
      BY <1>3 DEF StripeGrows, Bl!UserOf, Bl!CustomerOf
    <2> QED BY <2>1, <2>2
  <1>4. DeliveryOK(call[g])'
    BY <1>1, <1>3 DEF DeliveryOK, Hearing, Bl!UserOf, Bl!CustomerOf, Bl!Plans
  <1> QED BY <1>2, <1>4

LEMMA WorkStays ==
  ASSUME Bl!TypeOK, WorkOK, StripeGrows, NEW h \in Handlers,
         \A g \in Handlers \ {h} : call'[g] = call[g],
         CheckoutOK(call[h])', DeliveryOK(call[h])'
  PROVE  WorkOK'
  <1>1. \A g \in Handlers : CheckoutOK(call[g])' /\ DeliveryOK(call[g])'
    BY WorkKeeps
  <1> QED BY <1>1 DEF WorkOK

LEMMA HoldersStay ==
  ASSUME Bl!TypeOK, HoldersOK, StripeGrows, UNCHANGED customer
  PROVE  HoldersOK'
  BY CustomersGrow DEF HoldersOK

LEMMA OnceStays ==
  ASSUME OnceOK, UNCHANGED <<owner, sessions>>,
         missed \subseteq missed', reopened \subseteq reopened',
         \A u \in Users : /\ Bl!CustomersOf(u)' = Bl!CustomersOf(u)
                          /\ Bl!Live(u)' \subseteq Bl!Live(u),
         \A h \in Handlers : call'[h].pc = "creating" => call'[h] = call[h]
  PROVE  OnceOK'
  <1>1. ASSUME NEW u \in Users \ missed, OneCustomer(u) PROVE OneCustomer(u)'
    BY <1>1 DEF OneCustomer, Creating
  <1>2. ASSUME NEW u \in Users \ reopened, OneSubscription(u) PROVE OneSubscription(u)'
    BY <1>2 DEF OneSubscription
  <1> QED BY <1>1, <1>2 DEF OnceOK

LEMMA LogStays ==
  ASSUME Bl!TypeOK, LogOK, UNCHANGED <<owner, subs, log>>, reopened \subseteq reopened'
  PROVE  LogOK'
  <1>1. \A u : /\ Bl!EventsOf(u)' = Bl!EventsOf(u)
               /\ Bl!Billed(u)' = Bl!Billed(u)
    BY StripeStays
  <1> QED BY <1>1 DEF LogOK, Begins, Last

-----------------------------------------------------------------------------
(* The checkout                                                            *)

BillRequest == [pc: {"idle", "finding", "creating", "opening", "opened",
                  "fresh", "loaded", "computed", "keyed"},
             e: Bl!EventIds \cup {None}, user: Users \cup {None},
             hadPlan: Bl!Plans \cup {None}, hadOrg: Bl!Plans \cup {None},
             hadCustomer: Bl!Customers \cup {None}, customer: Bl!Customers \cup {None}]

LEMMA CallTypes ==
  ASSUME Bl!TypeOK
  PROVE  /\ call \in [Handlers -> BillRequest]
         /\ \A h \in Handlers : call[h] \in BillRequest
  BY DEF Bl!TypeOK, BillRequest

LEMMA BlIdleOK == Bl!Idle \in BillRequest /\ Bl!Idle.pc = "idle" /\ Bl!Idle.e = None
                    /\ CheckoutOK(Bl!Idle) /\ DeliveryOK(Bl!Idle)
  BY DEF Bl!Idle, BillRequest, CheckoutOK, DeliveryOK, Paying, Hearing

\* The step of one request: what it leaves of the requests.
LEMMA OneCall ==
  ASSUME Bl!TypeOK, NEW h \in Handlers, NEW s \in BillRequest, call' = [call EXCEPT ![h] = s]
  PROVE  /\ call' \in [Handlers -> BillRequest]
         /\ call'[h] = s
         /\ \A g \in Handlers \ {h} : call'[g] = call[g]
  BY CallTypes

LEMMA SameStripeTypes ==
  ASSUME Bl!TypeOK, call' \in [Handlers -> BillRequest],
         UNCHANGED <<owner, subs, log>>, mishaps' \in 0..MaxMishaps,
         sessions' \in [Bl!Customers -> Nat],
         answered' \subseteq 1..Len(log),
         customer' \in [Users -> 1..Len(owner) \cup {None}],
         plan' \in [Users -> Bl!Plans], orgPlan' \in [Users -> Bl!Plans],
         processed' \subseteq 1..Len(log),
         {disturbed', reopened', missed'} \subseteq SUBSET Users, crossed' \subseteq Handlers
  PROVE  Bl!TypeOK'
  BY DEF Bl!TypeOK, BillRequest, Bl!EventIds, Bl!Customers, Bl!Plans, Bl!Kinds, Bl!SubStates

LEMMA OpenCheckoutStep ==
  ASSUME Bl!BillingAssumption, BillInv, NEW h \in Handlers, NEW u \in Users,
         Bl!OpenCheckout(h, u)
  PROVE  BillInv'
  <1> DEFINE s == [Bl!Idle EXCEPT
         !.pc = IF customer[u] = None THEN "finding" ELSE "opening",
         !.user = u, !.hadPlan = plan[u],
         !.hadCustomer = customer[u], !.customer = customer[u]]
  <1>1. /\ call[h].pc = "idle" /\ plan[u] # "pro" /\ call' = [call EXCEPT ![h] = s]
        /\ UNCHANGED <<owner, sessions, subs, log, answered, customer, plan, orgPlan,
                       processed, disturbed, crossed, reopened, missed,
                       mishaps>>
    BY DEF Bl!OpenCheckout, Bl!MaySubscribe, Bl!At, Bl!stripeVars, Bl!rowVars,
           Bl!ghostVars
  <1>2. Bl!TypeOK /\ WorkOK /\ HoldersOK /\ OnceOK /\ LogOK /\ TurnsOK
    BY DEF BillInv
  <1>3. /\ plan[u] = "free" /\ customer[u] \in 1..Len(owner) \cup {None}
        /\ customer[u] \in Bl!Customers \cup {None}
    BY <1>1, <1>2 DEF Bl!TypeOK, Bl!Plans, Bl!Customers
  <1>4. /\ s \in BillRequest /\ s.e = None /\ s.user = u /\ s.hadPlan = "free"
        /\ s.customer = customer[u]
        /\ \/ s.pc = "finding"
           \/ s.pc = "opening" /\ customer[u] # None
    BY <1>3 DEF Bl!Idle, BillRequest, Bl!Plans
  <1> HIDE DEF s
  <1>5. /\ call' \in [Handlers -> BillRequest] /\ call'[h] = s
        /\ \A g \in Handlers \ {h} : call'[g] = call[g]
    BY <1>1, <1>2, <1>4, OneCall
  <1>6. StripeGrows /\ \A v : Bl!CustomersOf(v)' = Bl!CustomersOf(v) /\ Bl!Live(v)' = Bl!Live(v)
    BY <1>1, <1>2, StripeStays
  <1>7. Bl!TypeOK'
    BY <1>1, <1>2, <1>5, SameStripeTypes DEF Bl!TypeOK
  <1>8. WorkOK'
    <2>1. CheckoutOK(call[h])'
      BY <1>2, <1>4, <1>5, <1>6 DEF CheckoutOK, HoldersOK
    <2>2. DeliveryOK(call[h])'
      BY <1>4, <1>5 DEF DeliveryOK, Hearing
    <2> QED BY <1>2, <1>5, <1>6, <2>1, <2>2, WorkStays
  <1>9. HoldersOK'
    BY <1>1, <1>2, <1>6, HoldersStay
  <1>10. OnceOK'
    <2>1. \A g \in Handlers : call'[g].pc = "creating" => call'[g] = call[g]
      BY <1>4, <1>5
    <2> QED BY <1>1, <1>2, <1>6, <2>1, OnceStays
  <1>11. LogOK'
    BY <1>1, <1>2, LogStays
  <1>12. TurnsOK'
    <2>1. SameDeliveries
      BY <1>1, <1>2, <1>4, <1>5 DEF SameDeliveries, WorkOK, DeliveryOK
    <2> QED BY <1>1, <1>2, <1>6, <2>1, TurnsStay
  <1> QED BY <1>7, <1>8, <1>9, <1>10, <1>11, <1>12 DEF BillInv

LEMMA SearchStep ==
  ASSUME Bl!BillingAssumption, BillInv, NEW h \in Handlers, Bl!Search(h)
  PROVE  BillInv'
  <1> DEFINE u == call[h].user
  <1>1. PICK found \in {Bl!CustomersOf(u), {}} :
          /\ \/ \E c \in found :
                  call' = [call EXCEPT ![h].pc = "opening", ![h].customer = c]
             \/ found = {} /\ call' = [call EXCEPT ![h].pc = "creating"]
          /\ missed' = IF found # Bl!CustomersOf(u) \/ Bl!InStep(u, "creating") # {}
                       THEN missed \cup {u} ELSE missed
    BY DEF Bl!Search, Bl!Existing
  <1>2. /\ call[h].pc = "finding"
        /\ UNCHANGED <<owner, sessions, subs, log, answered, customer, plan, orgPlan,
                       processed, disturbed, crossed, reopened, mishaps>>
    BY DEF Bl!Search, Bl!At, Bl!stripeVars, Bl!rowVars
  <1>3. Bl!TypeOK /\ WorkOK /\ HoldersOK /\ OnceOK /\ LogOK /\ TurnsOK
    BY DEF BillInv
  <1>4. u \in Users /\ call[h].e = None /\ call[h].hadPlan = "free" /\ call[h] \in BillRequest
    BY <1>2, <1>3, CallTypes DEF WorkOK, CheckoutOK, Paying
  <1>5. Bl!CustomersOf(u) \subseteq Bl!Customers
    BY <1>3 DEF Bl!CustomersOf, Bl!TypeOK, Bl!Customers
  <1>6. PICK s : /\ call' = [call EXCEPT ![h] = s] /\ s \in BillRequest
                 /\ s.e = None /\ s.user = u /\ s.hadPlan = "free"
                 /\ \/ s.pc = "opening" /\ s.customer \in Bl!CustomersOf(u)
                    \/ s.pc = "creating" /\ found = {}
    <2>1. ASSUME NEW c \in found,
                 call' = [call EXCEPT ![h].pc = "opening", ![h].customer = c]
          PROVE  \E s : /\ call' = [call EXCEPT ![h] = s] /\ s \in BillRequest
                        /\ s.e = None /\ s.user = u /\ s.hadPlan = "free"
                        /\ s.pc = "opening" /\ s.customer \in Bl!CustomersOf(u)
      <3>1. PICK s : s = [call[h] EXCEPT !.pc = "opening", !.customer = c]
        OBVIOUS
      <3>2. call' = [call EXCEPT ![h] = s]
        BY <1>3, <2>1, <3>1, CallTypes
      <3>3. c \in Bl!CustomersOf(u) /\ c \in Bl!Customers
        BY <1>1, <1>5
      <3>4. /\ s \in BillRequest /\ s.e = None /\ s.user = u /\ s.hadPlan = "free"
            /\ s.pc = "opening" /\ s.customer = c
        BY <1>4, <3>1, <3>3 DEF BillRequest
      <3> QED BY <3>2, <3>3, <3>4
    <2>2. ASSUME found = {}, call' = [call EXCEPT ![h].pc = "creating"]
          PROVE  \E s : /\ call' = [call EXCEPT ![h] = s] /\ s \in BillRequest
                        /\ s.e = None /\ s.user = u /\ s.hadPlan = "free"
                        /\ s.pc = "creating"
      <3>1. PICK s : s = [call[h] EXCEPT !.pc = "creating"]
        OBVIOUS
      <3>2. call' = [call EXCEPT ![h] = s]
        BY <1>3, <2>2, <3>1, CallTypes
      <3>3. /\ s \in BillRequest /\ s.e = None /\ s.user = u /\ s.hadPlan = "free"
            /\ s.pc = "creating"
        BY <1>4, <3>1 DEF BillRequest
      <3> QED BY <3>2, <3>3
    <2> QED BY <1>1, <2>1, <2>2
  <1>7. /\ call' \in [Handlers -> BillRequest] /\ call'[h] = s
        /\ \A g \in Handlers \ {h} : call'[g] = call[g]
    BY <1>3, <1>6, OneCall
  <1>8. missed \subseteq missed' /\ missed' \subseteq Users
    BY <1>1, <1>3, <1>4 DEF Bl!TypeOK
  <1>9. StripeGrows /\ \A v : Bl!CustomersOf(v)' = Bl!CustomersOf(v) /\ Bl!Live(v)' = Bl!Live(v)
    BY <1>2, <1>3, StripeStays
  <1>10. Bl!TypeOK'
    BY <1>2, <1>3, <1>7, <1>8, SameStripeTypes DEF Bl!TypeOK
  <1>11. WorkOK'
    <2>1. CheckoutOK(call[h])'
      BY <1>4, <1>6, <1>7, <1>9 DEF CheckoutOK
    <2>2. DeliveryOK(call[h])'
      BY <1>6, <1>7 DEF DeliveryOK, Hearing
    <2> QED BY <1>3, <1>7, <1>9, <2>1, <2>2, WorkStays
  <1>12. HoldersOK'
    BY <1>2, <1>3, <1>9, HoldersStay
  <1>13. OnceOK'
    <2>1. ASSUME NEW v \in Users \ missed' PROVE OneCustomer(v)'
      <3>1. OneCustomer(v)
        BY <1>3, <1>8, <2>1 DEF OnceOK
      <3>2. ASSUME NEW g \in Handlers, Creating(g, v)'
            PROVE  /\ Bl!CustomersOf(v)' = {}
                   /\ \A f \in Handlers : Creating(f, v)' => f = g
        <4>1. CASE call'[h].pc = "creating" /\ v = u
          <5>1. Bl!CustomersOf(v) = {} /\ Bl!InStep(v, "creating") = {}
            BY <1>1, <1>6, <1>7, <2>1, <4>1
          <5>2. \A f \in Handlers \ {h} : ~Creating(f, v)'
            BY <1>7, <5>1 DEF Creating, Bl!InStep
          <5> QED BY <1>9, <3>2, <5>1, <5>2
        <4>2. CASE ~(call'[h].pc = "creating" /\ v = u)
          <5>1. \A f \in Handlers : Creating(f, v)' => f # h /\ Creating(f, v)
            BY <1>6, <1>7, <4>2 DEF Creating
          <5> QED BY <1>9, <3>1, <3>2, <5>1 DEF OneCustomer
        <4> QED BY <4>1, <4>2
      <3> QED BY <1>9, <3>1, <3>2 DEF OneCustomer
    <2>2. ASSUME NEW v \in Users \ reopened' PROVE OneSubscription(v)'
      BY <1>2, <1>3, <1>9, <2>2 DEF OnceOK, OneSubscription
    <2> QED BY <1>2, <1>3, <2>1, <2>2 DEF OnceOK, Bl!Customers
  <1>14. LogOK'
    BY <1>2, <1>3, LogStays
  <1>15. TurnsOK'
    <2>1. SameDeliveries
      BY <1>4, <1>6, <1>7 DEF SameDeliveries
    <2> QED BY <1>2, <1>3, <1>8, <1>9, <2>1, TurnsStay
  <1> QED BY <1>10, <1>11, <1>12, <1>13, <1>14, <1>15 DEF BillInv

LEMMA CreateStep ==
  ASSUME Bl!BillingAssumption, BillInv, NEW h \in Handlers, Bl!Create(h)
  PROVE  BillInv'
  <1> DEFINE u == call[h].user
             n == Len(owner) + 1
  <1>1. /\ call[h].pc = "creating" /\ Len(owner) < MaxCustomers
        /\ owner' = Append(owner, u)
        /\ call' = [call EXCEPT ![h].pc = "opening", ![h].customer = n]
        /\ UNCHANGED <<sessions, subs, log, answered, customer, plan, orgPlan,
                       processed, disturbed, crossed, reopened, missed,
                       mishaps>>
    BY DEF Bl!Create, Bl!At, Bl!stripeVars, Bl!rowVars, Bl!ghostVars
  <1>2. Bl!TypeOK /\ WorkOK /\ HoldersOK /\ OnceOK /\ LogOK /\ TurnsOK
    BY DEF BillInv
  <1>3. u \in Users /\ call[h].e = None /\ call[h].hadPlan = "free" /\ call[h] \in BillRequest
    BY <1>1, <1>2, CallTypes DEF WorkOK, CheckoutOK, Paying
  <1>4. /\ owner' \in Seq(Users) /\ Len(owner') = n /\ Len(owner) \in Nat
        /\ \A c \in 1..Len(owner) : owner'[c] = owner[c]
        /\ owner'[n] = u
    BY <1>1, <1>2, <1>3, AppendFacts DEF Bl!TypeOK
  <1>5. n \in Bl!Customers /\ n \in 1..Len(owner') /\ MaxCustomers \in Nat
    BY <1>1, <1>4 DEF Bl!Customers, Bl!BillingAssumption
  <1> HIDE DEF n
  <1>6. PICK s : /\ call' = [call EXCEPT ![h] = s] /\ s \in BillRequest
                 /\ s.e = None /\ s.user = u /\ s.hadPlan = "free"
                 /\ s.pc = "opening" /\ s.customer = n
    <2>1. PICK s : s = [call[h] EXCEPT !.pc = "opening", !.customer = n]
      OBVIOUS
    <2>2. call' = [call EXCEPT ![h] = s]
      BY <1>1, <1>2, <2>1, CallTypes
    <2>3. /\ s \in BillRequest /\ s.e = None /\ s.user = u /\ s.hadPlan = "free"
          /\ s.pc = "opening" /\ s.customer = n
      BY <1>3, <1>5, <2>1 DEF BillRequest
    <2> QED BY <2>2, <2>3
  <1>7. /\ call' \in [Handlers -> BillRequest] /\ call'[h] = s
        /\ \A g \in Handlers \ {h} : call'[g] = call[g]
    BY <1>2, <1>6, OneCall
  <1>8. \A i \in 1..Len(subs) : subs[i].customer \in 1..Len(owner)
    <2>1. subs \in Seq([customer: 1..Len(owner), state: Bl!SubStates])
      BY <1>2 DEF Bl!TypeOK
    <2>2. ASSUME NEW i \in 1..Len(subs) PROVE subs[i].customer \in 1..Len(owner)
      <3>1. subs[i] \in [customer: 1..Len(owner), state: Bl!SubStates]
        BY <2>1, SeqElement
      <3> QED BY <3>1
    <2> QED BY <2>2
  <1>9. \A e \in 1..Len(log) : Bl!CustomerOf(e)' = Bl!CustomerOf(e) /\ Bl!UserOf(e)' = Bl!UserOf(e)
    <2>1. TAKE e \in 1..Len(log)
    <2>2. Bl!CustomerOf(e) \in 1..Len(owner)
      BY <1>2, UserFacts
    <2> QED BY <1>1, <1>4, <2>2 DEF Bl!CustomerOf, Bl!UserOf
  <1>10. StripeGrows
    <2>1. Len(log) \in Nat /\ Len(owner) <= Len(owner') /\ Len(owner') \in Nat
      BY <1>2, <1>4 DEF Bl!TypeOK, n
    <2> QED BY <1>1, <1>4, <1>9, <2>1 DEF StripeGrows
  <1>11. \A v : Bl!EventsOf(v)' = Bl!EventsOf(v)
    BY <1>1, <1>9 DEF Bl!EventsOf
  <1>12. \A v : Bl!Live(v)' = Bl!Live(v) /\ Bl!Billed(v)' = Bl!Billed(v)
    BY <1>1, <1>4, <1>8 DEF Bl!Live, Bl!Billed
  <1>13. \A v : Bl!CustomersOf(v)' = Bl!CustomersOf(v) \cup (IF v = u THEN {n} ELSE {})
    BY <1>4 DEF Bl!CustomersOf, n
  <1>14. Bl!TypeOK'
    <2>1. 1..Len(owner) \subseteq 1..Len(owner') /\ Len(owner') <= MaxCustomers
      BY <1>1, <1>4, <1>5 DEF n
    <2>2. subs' \in Seq([customer: 1..Len(owner'), state: Bl!SubStates])
      <3>1. PICK S : S = [customer: 1..Len(owner), state: Bl!SubStates]
        OBVIOUS
      <3>2. PICK T : T = [customer: 1..Len(owner'), state: Bl!SubStates]
        OBVIOUS
      <3>3. S \subseteq T
        BY <2>1, <3>1, <3>2
      <3>4. subs \in Seq(S)
        BY <1>2, <3>1 DEF Bl!TypeOK
      <3>5. subs \in Seq(T)
        BY <3>3, <3>4, SeqWidens
      <3> QED BY <1>1, <3>2, <3>5
    <2>3. customer' \in [Users -> 1..Len(owner') \cup {None}]
      BY <1>1, <1>2, <2>1 DEF Bl!TypeOK
    <2> QED BY <1>1, <1>2, <1>4, <1>7, <2>1, <2>2, <2>3
            DEF Bl!TypeOK, BillRequest, Bl!EventIds, Bl!Customers, Bl!Plans, Bl!Kinds,
                Bl!SubStates
  <1>15. WorkOK'
    <2>1. CheckoutOK(call[h])'
      BY <1>3, <1>6, <1>7, <1>13 DEF CheckoutOK
    <2>2. DeliveryOK(call[h])'
      BY <1>6, <1>7 DEF DeliveryOK, Hearing
    <2> QED BY <1>2, <1>7, <1>10, <2>1, <2>2, WorkStays
  <1>16. HoldersOK'
    BY <1>1, <1>2, <1>10, HoldersStay
  <1>17. OnceOK'
    <2>1. ASSUME NEW v \in Users \ missed' PROVE OneCustomer(v)'
      <3>1. OneCustomer(v)
        BY <1>1, <1>2, <2>1 DEF OnceOK
      <3>2. \A f \in Handlers : Creating(f, v)' => f # h /\ Creating(f, v)
        BY <1>6, <1>7 DEF Creating
      <3>3. CASE v = u
        <4>1. Creating(h, v)
          BY <1>1, <3>3 DEF Creating
        <4>2. Bl!CustomersOf(v)' = {n} /\ \A f \in Handlers : ~Creating(f, v)'
          BY <1>13, <3>1, <3>2, <3>3, <4>1 DEF OneCustomer
        <4> QED BY <4>2 DEF OneCustomer
      <3>4. CASE v # u
        BY <1>13, <3>1, <3>2, <3>4 DEF OneCustomer
      <3> QED BY <3>3, <3>4
    <2>2. sessions[n] = 0
      BY <1>2, <1>4, <1>5 DEF OnceOK, n
    <2>3. ASSUME NEW v \in Users \ reopened' PROVE OneSubscription(v)'
      <3>1. OneSubscription(v)
        BY <1>1, <1>2, <2>3 DEF OnceOK
      <3> QED BY <1>1, <1>12, <1>13, <2>2, <3>1 DEF OneSubscription
    <2>4. \A c \in Bl!Customers : c > Len(owner') => sessions'[c] = 0
      BY <1>1, <1>2, <1>4 DEF OnceOK, Bl!Customers, n
    <2> QED BY <2>1, <2>3, <2>4 DEF OnceOK, Bl!Customers
  <1>18. LogOK'
    BY <1>1, <1>2, <1>11, <1>12 DEF LogOK, Begins, Last
  <1>19. TurnsOK'
    <2>1. SameDeliveries
      BY <1>3, <1>6, <1>7 DEF SameDeliveries
    <2> QED BY <1>1, <1>2, <1>10, <2>1, TurnsStay
  <1> QED BY <1>14, <1>15, <1>16, <1>17, <1>18, <1>19 DEF BillInv

LEMMA OpenSessionStep ==
  ASSUME Bl!BillingAssumption, BillInv, NEW h \in Handlers, Bl!OpenSession(h)
  PROVE  BillInv'
  <1> DEFINE u == call[h].user
             c == call[h].customer
  <1>1. /\ call[h].pc = "opening"
        /\ sessions' = [sessions EXCEPT ![c] = @ + 1]
        /\ reopened' = IF \/ \E d \in Bl!CustomersOf(u) : sessions[d] > 0
                          \/ Bl!Live(u) # {} /\ call[h].hadPlan # "pro"
                       THEN reopened \cup {u} ELSE reopened
        /\ call' = [call EXCEPT ![h].pc = "opened"]
        /\ UNCHANGED <<owner, subs, log, answered, customer, plan, orgPlan,
                       processed, disturbed, crossed, missed, mishaps>>
    BY DEF Bl!OpenSession, Bl!At, Bl!rowVars
  <1>2. Bl!TypeOK /\ WorkOK /\ HoldersOK /\ OnceOK /\ LogOK /\ TurnsOK
    BY DEF BillInv
  <1>3. /\ u \in Users /\ call[h].e = None /\ call[h].hadPlan = "free"
        /\ call[h] \in BillRequest /\ c \in Bl!CustomersOf(u)
    BY <1>1, <1>2, CallTypes DEF WorkOK, CheckoutOK, Paying
  <1>4. c \in Bl!Customers /\ c \in 1..Len(owner) /\ owner[c] = u
    BY <1>2, <1>3 DEF Bl!CustomersOf, Bl!TypeOK, Bl!Customers
  <1>5. PICK s : /\ call' = [call EXCEPT ![h] = s] /\ s \in BillRequest
                 /\ s.e = None /\ s.user = u /\ s.hadPlan = "free"
                 /\ s.pc = "opened" /\ s.customer = c
    <2>1. PICK s : s = [call[h] EXCEPT !.pc = "opened"]
      OBVIOUS
    <2>2. call' = [call EXCEPT ![h] = s]
      BY <1>1, <1>2, <2>1, CallTypes
    <2>3. /\ s \in BillRequest /\ s.e = None /\ s.user = u /\ s.hadPlan = "free"
          /\ s.pc = "opened" /\ s.customer = c
      BY <1>3, <2>1 DEF BillRequest
    <2> QED BY <2>2, <2>3
  <1>6. /\ call' \in [Handlers -> BillRequest] /\ call'[h] = s
        /\ \A g \in Handlers \ {h} : call'[g] = call[g]
    BY <1>2, <1>5, OneCall
  <1>7. StripeGrows /\ \A v : Bl!CustomersOf(v)' = Bl!CustomersOf(v) /\ Bl!Live(v)' = Bl!Live(v)
    BY <1>1, <1>2, StripeStays
  <1>8. reopened \subseteq reopened' /\ reopened' \subseteq Users
    BY <1>1, <1>2, <1>3 DEF Bl!TypeOK
  <1>9. /\ sessions' \in [Bl!Customers -> Nat] /\ sessions'[c] = sessions[c] + 1
        /\ \A d \in Bl!Customers \ {c} : sessions'[d] = sessions[d]
        /\ \A d \in Bl!Customers : sessions[d] \in Nat
    BY <1>1, <1>2, <1>4 DEF Bl!TypeOK
  <1>10. Bl!TypeOK'
    <2>1. {disturbed', reopened', missed'} \subseteq SUBSET Users
      BY <1>1, <1>2, <1>8 DEF Bl!TypeOK
    <2>2. /\ answered' \subseteq 1..Len(log) /\ processed' \subseteq 1..Len(log)
          /\ customer' \in [Users -> 1..Len(owner) \cup {None}]
          /\ plan' \in [Users -> Bl!Plans] /\ orgPlan' \in [Users -> Bl!Plans]
          /\ mishaps' \in 0..MaxMishaps /\ crossed' \subseteq Handlers
      BY <1>1, <1>2 DEF Bl!TypeOK
    <2> QED BY <1>1, <1>2, <1>6, <1>9, <2>1, <2>2, SameStripeTypes
  <1>11. WorkOK'
    <2>1. CheckoutOK(call[h])'
      BY <1>3, <1>5, <1>6, <1>7 DEF CheckoutOK
    <2>2. DeliveryOK(call[h])'
      BY <1>5, <1>6 DEF DeliveryOK, Hearing
    <2> QED BY <1>2, <1>6, <1>7, <2>1, <2>2, WorkStays
  <1>12. HoldersOK'
    BY <1>1, <1>2, <1>7, HoldersStay
  <1>13. OnceOK'
    <2>1. ASSUME NEW v \in Users \ missed' PROVE OneCustomer(v)'
      <3>1. OneCustomer(v)
        BY <1>1, <1>2, <2>1 DEF OnceOK
      <3>2. \A f \in Handlers : Creating(f, v)' => Creating(f, v)
        BY <1>5, <1>6 DEF Creating
      <3> QED BY <1>7, <3>1, <3>2 DEF OneCustomer
    <2>2. ASSUME NEW v \in Users \ reopened' PROVE OneSubscription(v)'
      <3>1. OneSubscription(v)
        BY <1>2, <1>8, <2>2 DEF OnceOK
      <3>2. Bl!CustomersOf(v) \subseteq Bl!Customers
        BY <1>2 DEF Bl!CustomersOf, Bl!TypeOK, Bl!Customers
      <3>3. CASE v = u
        <4>1. Bl!Live(v) = {} /\ \A d \in Bl!CustomersOf(v) : sessions[d] = 0
          BY <1>1, <1>3, <1>9, <2>2, <3>2, <3>3
        <4> QED BY <1>7, <1>9, <3>1, <3>2, <4>1 DEF OneSubscription
      <3>4. CASE v # u
        <4>1. \A d \in Bl!CustomersOf(v) : d # c /\ sessions'[d] = sessions[d]
          BY <1>4, <1>9, <3>2, <3>4 DEF Bl!CustomersOf
        <4> QED BY <1>7, <3>1, <4>1 DEF OneSubscription
      <3> QED BY <3>3, <3>4
    <2>3. \A d \in Bl!Customers : d > Len(owner') => sessions'[d] = 0
      BY <1>1, <1>2, <1>4, <1>9 DEF OnceOK, Bl!Customers
    <2> QED BY <2>1, <2>2, <2>3 DEF OnceOK, Bl!Customers
  <1>14. LogOK'
    BY <1>1, <1>2, <1>8, LogStays
  <1>15. TurnsOK'
    <2>1. SameDeliveries
      BY <1>3, <1>5, <1>6 DEF SameDeliveries
    <2> QED BY <1>1, <1>2, <1>7, <2>1, TurnsStay
  <1> QED BY <1>10, <1>11, <1>12, <1>13, <1>14, <1>15 DEF BillInv

LEMMA CommitCheckoutStep ==
  ASSUME Bl!BillingAssumption, BillInv, NEW h \in Handlers, Bl!CommitCheckout(h)
  PROVE  BillInv'
  <1> DEFINE u == call[h].user
             c == call[h].customer
  <1>1. /\ call[h].pc = "opened"
        /\ customer' = IF call[h].hadCustomer = None
                       THEN [customer EXCEPT ![u] = c] ELSE customer
        /\ call' = [call EXCEPT ![h] = Bl!Idle]
        /\ UNCHANGED <<owner, sessions, subs, log, answered, plan, orgPlan,
                       processed, disturbed, crossed, reopened, missed,
                       mishaps>>
    BY DEF Bl!CommitCheckout, Bl!At, Bl!stripeVars, Bl!ghostVars
  <1>2. Bl!TypeOK /\ WorkOK /\ HoldersOK /\ OnceOK /\ LogOK /\ TurnsOK
    BY DEF BillInv
  <1>3. u \in Users /\ call[h].e = None /\ c \in Bl!CustomersOf(u)
    BY <1>1, <1>2 DEF WorkOK, CheckoutOK, Paying
  <1>4. /\ call' \in [Handlers -> BillRequest] /\ call'[h] = Bl!Idle
        /\ \A g \in Handlers \ {h} : call'[g] = call[g]
    BY <1>1, <1>2, BlIdleOK, OneCall
  <1>5. StripeGrows /\ \A v : Bl!CustomersOf(v)' = Bl!CustomersOf(v) /\ Bl!Live(v)' = Bl!Live(v)
    BY <1>1, <1>2, StripeStays
  <1>6. /\ customer' \in [Users -> 1..Len(owner) \cup {None}]
        /\ \A v \in Users : customer'[v] = customer[v] \/ (v = u /\ customer'[v] = c)
        /\ c # None
    <2>1. c \in 1..Len(owner) /\ c # None
      BY <1>2, <1>3 DEF Bl!TypeOK, Bl!CustomersOf, Bl!BillingAssumption
    <2> QED BY <1>1, <1>2, <1>3, <2>1 DEF Bl!TypeOK
  <1>7. Bl!TypeOK'
    BY <1>1, <1>2, <1>4, <1>6, SameStripeTypes DEF Bl!TypeOK
  <1>8. WorkOK'
    <2>1. CheckoutOK(call[h])' /\ DeliveryOK(call[h])'
      BY <1>4, BlIdleOK DEF CheckoutOK, DeliveryOK, Paying, Hearing
    <2> QED BY <1>2, <1>4, <1>5, <2>1, WorkStays
  <1>9. HoldersOK'
    BY <1>2, <1>3, <1>5, <1>6 DEF HoldersOK
  <1>10. OnceOK'
    <2>1. \A g \in Handlers : call'[g].pc = "creating" => call'[g] = call[g]
      BY <1>4, BlIdleOK
    <2> QED BY <1>1, <1>2, <1>5, <2>1, OnceStays
  <1>11. LogOK'
    BY <1>1, <1>2, LogStays
  <1>12. TurnsOK'
    <2>1. SameDeliveries
      BY <1>3, <1>4, BlIdleOK DEF SameDeliveries
    <2>2. \A v \in Users : customer[v] # None => customer'[v] # None
      BY <1>6
    <2> QED BY <1>1, <1>2, <1>5, <2>1, <2>2, TurnsStay
  <1> QED BY <1>7, <1>8, <1>9, <1>10, <1>11, <1>12 DEF BillInv

-----------------------------------------------------------------------------
(* Stripe                                                                  *)

\* Subscriptions keep their customer, and there is one more event, of subscription s.
Emits(kind, s) ==
    /\ UNCHANGED <<owner, call>>
    /\ Len(subs') \in Nat /\ Len(subs) <= Len(subs')
    /\ \A i \in 1..Len(subs) : subs'[i].customer = subs[i].customer
    /\ s \in 1..Len(subs') /\ kind \in Bl!Kinds
    /\ log' = Append(log, [kind |-> kind, sub |-> s])

LEMMA EmitFacts ==
  ASSUME Bl!TypeOK, NEW kind, NEW s, Emits(kind, s)
  PROVE  /\ StripeGrows
         /\ Len(log) \in Nat /\ Len(log') = Len(log) + 1
         /\ log'[Len(log) + 1] = [kind |-> kind, sub |-> s]
         /\ log' \in Seq([kind: Bl!Kinds, sub: 1..Len(subs')])
         /\ \A v : Bl!EventsOf(v)' = Bl!EventsOf(v) \cup
              (IF owner[subs'[s].customer] = v THEN {Len(log) + 1} ELSE {})
  <1>1. PICK T : T = [kind: Bl!Kinds, sub: 1..Len(subs')]
    OBVIOUS
  <1>2. PICK S : S = [kind: Bl!Kinds, sub: 1..Len(subs)]
    OBVIOUS
  <1>3. S \subseteq T
    BY <1>1, <1>2 DEF Emits, Bl!TypeOK
  <1>4. log \in Seq(S)
    BY <1>2 DEF Bl!TypeOK
  <1>5. PICK r : r = [kind |-> kind, sub |-> s]
    OBVIOUS
  <1>6. r \in T
    BY <1>1, <1>5 DEF Emits
  <1>7. log \in Seq(T)
    BY <1>3, <1>4, SeqWidens
  <1>8. log' = Append(log, r)
    BY <1>5 DEF Emits
  <1>9. /\ log' \in Seq(T) /\ Len(log') = Len(log) + 1 /\ Len(log) \in Nat
        /\ \A i \in 1..Len(log) : log'[i] = log[i]
        /\ log'[Len(log) + 1] = r
    <2>1. PICK new : new = Append(log, r)
      OBVIOUS
    <2>2. /\ new \in Seq(T) /\ Len(new) = Len(log) + 1 /\ Len(log) \in Nat
          /\ \A i \in 1..Len(log) : new[i] = log[i]
          /\ new[Len(log) + 1] = r
      BY <1>6, <1>7, <2>1, AppendFacts
    <2> QED BY <1>8, <2>1, <2>2
  <1>10. \A e \in 1..Len(log) : log[e].sub \in 1..Len(subs)
    BY UserFacts
  <1>11. \A e \in 1..Len(log) : Bl!CustomerOf(e)' = Bl!CustomerOf(e)
    BY <1>9, <1>10 DEF Emits, Bl!CustomerOf
  <1>12. \A e \in 1..Len(log) : Bl!UserOf(e)' = Bl!UserOf(e)
    BY <1>11 DEF Emits, Bl!UserOf
  <1>13. PICK n : n = Len(log) + 1 /\ Bl!UserOf(n)' = owner[subs'[s].customer]
    <2>1. PICK n : n = Len(log) + 1
      OBVIOUS
    <2>2. log'[n].sub = s /\ owner' = owner
      BY <1>5, <1>9, <2>1 DEF Emits
    <2>3. Bl!UserOf(n)' = owner[subs'[s].customer]
      BY <2>2 DEF Bl!UserOf, Bl!CustomerOf
    <2> QED BY <2>1, <2>3
  <1>14. StripeGrows
    BY <1>9, <1>11, <1>12 DEF StripeGrows, Emits, Bl!TypeOK
  <1>15. \A v : Bl!EventsOf(v)' = Bl!EventsOf(v) \cup
              (IF owner[subs'[s].customer] = v THEN {Len(log) + 1} ELSE {})
    <2>1. TAKE v
    <2>2. \A e \in 1..Len(log') : e \in 1..Len(log) \/ e = n
      BY <1>9, <1>13
    <2>3. ASSUME NEW e \in 1..Len(log')
          PROVE  e \in Bl!EventsOf(v)' <=>
                   (e \in Bl!EventsOf(v) \/ (e = n /\ owner[subs'[s].customer] = v))
      <3>1. CASE e \in 1..Len(log)
        <4>1. e # n
          BY <1>9, <1>13, <3>1
        <4>2. e \in Bl!EventsOf(v)' <=> Bl!UserOf(e)' = v
          BY DEF Bl!EventsOf
        <4>3. e \in Bl!EventsOf(v) <=> Bl!UserOf(e) = v
          BY <3>1 DEF Bl!EventsOf
        <4> QED BY <1>12, <3>1, <4>1, <4>2, <4>3
      <3>2. CASE e = n
        <4>1. n \notin Bl!EventsOf(v)
          BY <1>9, <1>13 DEF Bl!EventsOf
        <4>2. e \in Bl!EventsOf(v)' <=> Bl!UserOf(e)' = v
          BY DEF Bl!EventsOf
        <4> QED BY <1>13, <3>2, <4>1, <4>2
      <3> QED BY <2>2, <3>1, <3>2
    <2>4. Bl!EventsOf(v)' \subseteq 1..Len(log') /\ Bl!EventsOf(v) \subseteq 1..Len(log)
      BY DEF Bl!EventsOf
    <2>5. 1..Len(log) \subseteq 1..Len(log') /\ Len(log) + 1 \in 1..Len(log')
      BY <1>9
    <2> QED BY <1>13, <2>3, <2>4, <2>5
  <1> QED BY <1>1, <1>5, <1>9, <1>14, <1>15

\* The log stays right if the new event tells whether its user is billed.
LEMMA LogGrows ==
  ASSUME Bl!BillingAssumption, Bl!TypeOK, LogOK, NEW kind, NEW s, Emits(kind, s),
         UNCHANGED reopened,
         \/ kind = "checkout" /\ \A i \in 1..Len(subs') : i \in 1..Len(subs) \/ i = s
         \/ Len(subs') = Len(subs),
         \A v \in Users : owner[subs'[s].customer] # v => Bl!Billed(v)' = Bl!Billed(v),
         \A v \in Users \ reopened : owner[subs'[s].customer] = v =>
           (kind = "lost" <=> Bl!Billed(v)' = {})
  PROVE  LogOK'
  <1> DEFINE n == Len(log) + 1
  <1>1. /\ StripeGrows /\ Len(log) \in Nat /\ Len(log') = n
        /\ log'[n] = [kind |-> kind, sub |-> s]
        /\ \A v : Bl!EventsOf(v)' = Bl!EventsOf(v) \cup
             (IF owner[subs'[s].customer] = v THEN {n} ELSE {})
    BY EmitFacts
  <1>2. /\ \A e \in 1..Len(log) : e \in 1..n /\ log'[e] = log[e]
        /\ \A e \in 1..n : e \in 1..Len(log) \/ e = n
        /\ n \in 1..n
    BY <1>1 DEF StripeGrows
  <1>3. \A e \in 1..Len(log) : log[e].sub \in 1..Len(subs)
    BY UserFacts
  <1>4. s \in 1..Len(subs') /\ Len(subs) \in Nat
    BY DEF Emits, Bl!TypeOK
  <1>5. ASSUME NEW i \in 1..Len(subs') PROVE \E d \in 1..Len(log') : Begins(d, i)'
    <2>1. CASE i \in 1..Len(subs)
      <3>1. PICK d \in 1..Len(log) : Begins(d, i)
        BY <2>1 DEF LogOK
      <3> QED BY <1>1, <1>2, <3>1 DEF Begins
    <2>2. CASE i = s /\ kind = "checkout"
      BY <1>1, <1>2, <2>2 DEF Begins
    <2> QED BY <2>1, <2>2
  <1>6. ASSUME NEW e \in 1..Len(log') PROVE \E d \in 1..e : Begins(d, log[e].sub)'
    <2>1. CASE e \in 1..Len(log)
      <3>1. PICK d \in 1..e : Begins(d, log[e].sub)
        BY <2>1 DEF LogOK
      <3>2. d \in 1..Len(log)
        BY <1>1, <2>1, <3>1
      <3> QED BY <1>2, <2>1, <3>1, <3>2 DEF Begins
    <2>2. CASE e = n
      <3>1. PICK d \in 1..n : Begins(d, s)'
        BY <1>1, <1>4, <1>5
      <3> QED BY <1>1, <2>2, <3>1 DEF Begins
    <2> QED BY <1>1, <1>2, <2>1, <2>2
  <1>7. ASSUME NEW v \in Users \ reopened', NEW e \in 1..Len(log'), Last(e, Bl!EventsOf(v))'
        PROVE  log'[e].kind = "lost" <=> Bl!Billed(v)' = {}
    <2>1. CASE owner[subs'[s].customer] = v
      <3>1. e = n
        BY <1>1, <1>2, <1>7, <2>1 DEF Last
      <3> QED BY <1>1, <2>1, <3>1
    <2>2. CASE owner[subs'[s].customer] # v
      <3>1. Bl!EventsOf(v)' = Bl!EventsOf(v) /\ Bl!EventsOf(v) \subseteq 1..Len(log)
        <4>1. Bl!EventsOf(v)' = Bl!EventsOf(v)
          BY <1>1, <2>2
        <4>2. Bl!EventsOf(v) \subseteq 1..Len(log)
          BY DEF Bl!EventsOf
        <4> QED BY <4>1, <4>2
      <3>2. Last(e, Bl!EventsOf(v)) /\ e \in 1..Len(log)
        BY <1>7, <3>1 DEF Last
      <3> QED BY <1>2, <2>2, <3>2 DEF LogOK
    <2> QED BY <2>1, <2>2
  <1> QED BY <1>5, <1>6, <1>7 DEF LogOK

\* What a step of Stripe leaves alone.
LEMMA StripeStep ==
  ASSUME Bl!BillingAssumption, BillInv, NEW kind, NEW s, Emits(kind, s),
         Len(log) < MaxEvents,
         subs' \in Seq([customer: 1..Len(owner), state: Bl!SubStates]),
         sessions' \in [Bl!Customers -> Nat],
         UNCHANGED <<answered, customer, plan, orgPlan, processed, disturbed, crossed,
                     reopened, missed, mishaps>>
  PROVE  Bl!TypeOK' /\ WorkOK' /\ HoldersOK' /\ TurnsOK'
  <1>1. Bl!TypeOK /\ WorkOK /\ HoldersOK /\ TurnsOK
    BY DEF BillInv
  <1>2. /\ StripeGrows /\ Len(log) \in Nat /\ Len(log') = Len(log) + 1
        /\ log' \in Seq([kind: Bl!Kinds, sub: 1..Len(subs')])
    BY <1>1, EmitFacts
  <1>3. owner' = owner /\ call' = call
    BY DEF Emits
  <1>4. Bl!TypeOK'
    <2>1. Len(log') <= MaxEvents /\ 1..Len(log) \subseteq 1..Len(log')
      BY <1>2 DEF Bl!BillingAssumption
    <2>2. answered' \subseteq 1..Len(log') /\ processed' \subseteq 1..Len(log')
      BY <1>1, <2>1 DEF Bl!TypeOK
    <2> QED BY <1>1, <1>2, <1>3, <2>1, <2>2
            DEF Bl!TypeOK, Bl!EventIds, Bl!Customers, Bl!Plans, Bl!Kinds, Bl!SubStates
  <1>5. WorkOK'
    BY <1>1, <1>2, <1>3, WorkKeeps DEF WorkOK
  <1>6. HoldersOK'
    BY <1>1, <1>2, HoldersStay
  <1>7. TurnsOK'
    <2>1. SameDeliveries
      BY <1>3 DEF SameDeliveries
    <2> QED BY <1>1, <1>2, <2>1, TurnsStay
  <1> QED BY <1>4, <1>5, <1>6, <1>7

LEMMA SubscribeStep ==
  ASSUME Bl!BillingAssumption, BillInv, NEW c \in 1..Len(owner), Bl!Subscribe(c)
  PROVE  BillInv'
  <1> DEFINE i == Len(subs) + 1
             u == owner[c]
  <1>1. /\ sessions[c] > 0 /\ sessions' = [sessions EXCEPT ![c] = @ - 1]
        /\ subs' = Append(subs, [customer |-> c, state |-> "active"])
        /\ Len(log) < MaxEvents /\ log' = Append(log, [kind |-> "checkout", sub |-> i])
        /\ UNCHANGED <<owner, answered, customer, plan, orgPlan, processed, call,
                       disturbed, crossed, reopened, missed,
                       mishaps>>
    BY DEF Bl!Subscribe, Bl!Emit, Bl!rowVars, Bl!ghostVars
  <1>2. Bl!TypeOK /\ WorkOK /\ HoldersOK /\ OnceOK /\ LogOK /\ TurnsOK
    BY DEF BillInv
  <1>3. /\ subs' \in Seq([customer: 1..Len(owner), state: Bl!SubStates])
        /\ Len(subs') = i /\ Len(subs) \in Nat
        /\ \A j \in 1..Len(subs) : subs'[j] = subs[j]
        /\ subs'[i] = [customer |-> c, state |-> "active"]
    <2>1. PICK S : S = [customer: 1..Len(owner), state: Bl!SubStates]
      OBVIOUS
    <2>2. PICK r : r = [customer |-> c, state |-> "active"]
      OBVIOUS
    <2>3. r \in S /\ subs \in Seq(S)
      BY <1>2, <2>1, <2>2 DEF Bl!TypeOK, Bl!SubStates
    <2>4. PICK new : new = Append(subs, r)
      OBVIOUS
    <2>5. /\ new \in Seq(S) /\ Len(new) = i /\ Len(subs) \in Nat
          /\ \A j \in 1..Len(subs) : new[j] = subs[j]
          /\ new[i] = r
      BY <2>3, <2>4, AppendFacts
    <2> QED BY <1>1, <2>1, <2>2, <2>4, <2>5
  <1>4. Emits("checkout", i)
    BY <1>1, <1>3 DEF Emits, Bl!Kinds
  <1>5. /\ u \in Users /\ c \in Bl!Customers /\ c \in Bl!CustomersOf(u)
        /\ \A v : Bl!CustomersOf(v)' = Bl!CustomersOf(v)
                    /\ Bl!CustomersOf(v) \subseteq Bl!Customers
    BY <1>1, <1>2 DEF Bl!TypeOK, Bl!Customers, Bl!CustomersOf
  <1>6. /\ sessions' \in [Bl!Customers -> Nat] /\ sessions'[c] = sessions[c] - 1
        /\ \A d \in Bl!Customers \ {c} : sessions'[d] = sessions[d]
        /\ \A d \in Bl!Customers : sessions[d] \in Nat
    <2>1. sessions \in [Bl!Customers -> Nat]
      BY <1>2 DEF Bl!TypeOK
    <2>2. c \in Bl!Customers /\ sessions[c] > 0
          /\ sessions' = [sessions EXCEPT ![c] = @ - 1]
      BY <1>1, <1>5
    <2> QED BY <2>1, <2>2, OneTaken
  <1>7. \A v : Bl!Live(v)' = Bl!Live(v) \cup (IF v = u THEN {i} ELSE {})
    <2>1. \A j \in 1..i : j \in 1..Len(subs) \/ j = i
      BY <1>3
    <2> QED BY <1>1, <1>3, <2>1 DEF Bl!Live
  <1>8. \A v : Bl!Billed(v)' = Bl!Billed(v) \cup (IF v = u THEN {i} ELSE {})
    <2>1. \A v : Bl!Live(v) \subseteq 1..Len(subs)
      BY DEF Bl!Live
    <2> QED BY <1>3, <1>7, <2>1 DEF Bl!Billed
  <1>9. Bl!TypeOK' /\ WorkOK' /\ HoldersOK' /\ TurnsOK'
    BY <1>1, <1>3, <1>4, <1>6, StripeStep
  <1>10. LogOK'
    <2>1. subs'[i].customer = c
      BY <1>3
    <2>2. \A v \in Users : owner[subs'[i].customer] # v => Bl!Billed(v)' = Bl!Billed(v)
      BY <1>8, <2>1
    <2>3. \A v \in Users \ reopened : owner[subs'[i].customer] = v =>
            ("checkout" = "lost" <=> Bl!Billed(v)' = {})
      BY <1>8, <2>1
    <2>4. \A j \in 1..Len(subs') : j \in 1..Len(subs) \/ j = i
      BY <1>3
    <2> QED BY <1>1, <1>2, <1>4, <2>2, <2>3, <2>4, LogGrows
  <1>11. OnceOK'
    <2>1. ASSUME NEW v \in Users \ missed PROVE OneCustomer(v)'
      BY <1>1, <1>2, <1>5 DEF OnceOK, OneCustomer, Creating
    <2>2. ASSUME NEW v \in Users \ reopened PROVE OneSubscription(v)'
      <3>1. OneSubscription(v)
        BY <1>2, <2>2 DEF OnceOK
      <3>2. CASE v = u
        <4>1. Bl!Live(v) = {} /\ sessions[c] = 1
          BY <1>1, <1>5, <1>6, <3>1, <3>2 DEF OneSubscription
        <4>2. \A d \in Bl!CustomersOf(v) : d # c => sessions[d] = 0
          <5>1. ASSUME NEW d \in Bl!CustomersOf(v), d # c PROVE sessions[d] = 0
            <6>1. ~(sessions[d] > 0)
              BY <1>1, <1>5, <3>1, <3>2, <5>1 DEF OneSubscription
            <6>2. sessions[d] \in Nat
              BY <1>5, <1>6
            <6> QED BY <6>1, <6>2
          <5> QED BY <5>1
        <4>3. ASSUME NEW d \in Bl!CustomersOf(v) PROVE sessions'[d] = 0
          <5>1. d \in Bl!Customers
            BY <1>5
          <5> QED BY <1>6, <4>1, <4>2, <5>1
        <4> QED BY <1>5, <1>7, <3>2, <4>1, <4>3 DEF OneSubscription
      <3>3. CASE v # u
        <4>1. \A d \in Bl!CustomersOf(v) : d # c /\ sessions'[d] = sessions[d]
          BY <1>5, <1>6, <3>3 DEF Bl!CustomersOf
        <4> QED BY <1>5, <1>7, <3>1, <3>3, <4>1 DEF OneSubscription
      <3> QED BY <3>2, <3>3
    <2>3. \A d \in Bl!Customers : d > Len(owner') => sessions'[d] = 0
      BY <1>1, <1>2, <1>5, <1>6 DEF OnceOK, Bl!Customers, Bl!TypeOK
    <2> QED BY <1>1, <2>1, <2>2, <2>3 DEF OnceOK, Bl!Customers
  <1> QED BY <1>9, <1>10, <1>11 DEF BillInv

LEMMA ChangeStep ==
  ASSUME Bl!BillingAssumption, BillInv, NEW s \in 1..Len(subs), NEW from, NEW to, NEW kind,
         from # "canceled", to \in Bl!SubStates, kind \in Bl!Kinds,
         kind = "lost" <=> to # "active", Bl!Change(s, from, to, kind)
  PROVE  BillInv'
  <1> DEFINE u == owner[subs[s].customer]
  <1>1. /\ subs[s].state = from /\ subs' = [subs EXCEPT ![s].state = to]
        /\ Len(log) < MaxEvents /\ log' = Append(log, [kind |-> kind, sub |-> s])
        /\ UNCHANGED <<owner, sessions, answered, customer, plan, orgPlan, processed, call,
                       disturbed, crossed, reopened, missed,
                       mishaps>>
    BY DEF Bl!Change, Bl!Emit, Bl!rowVars, Bl!ghostVars
  <1>2. Bl!TypeOK /\ WorkOK /\ HoldersOK /\ OnceOK /\ LogOK /\ TurnsOK
    BY DEF BillInv
  <1>3. /\ subs' \in Seq([customer: 1..Len(owner), state: Bl!SubStates])
        /\ Len(subs') = Len(subs) /\ Len(subs) \in Nat
        /\ \A j \in 1..Len(subs) : /\ subs'[j].customer = subs[j].customer
                                   /\ j # s => subs'[j].state = subs[j].state
        /\ subs'[s].state = to
    <2>1. PICK S : S = [customer: 1..Len(owner), state: Bl!SubStates]
      OBVIOUS
    <2>2. PICK r : r = [subs[s] EXCEPT !.state = to]
      OBVIOUS
    <2>3. subs \in Seq(S) /\ subs[s] \in S
      BY <1>2, <2>1, SeqElement DEF Bl!TypeOK
    <2>4. r \in S /\ r.customer = subs[s].customer /\ r.state = to
      BY <2>1, <2>2, <2>3
    <2>5. subs' = [subs EXCEPT ![s] = r]
      BY <1>1, <2>2, <2>3
    <2>6. /\ subs' \in Seq(S) /\ Len(subs') = Len(subs) /\ Len(subs) \in Nat
          /\ \A j \in 1..Len(subs) : subs'[j] = IF j = s THEN r ELSE subs[j]
      BY <2>3, <2>4, <2>5
    <2> QED BY <2>1, <2>4, <2>6
  <1>4. Emits(kind, s)
    BY <1>1, <1>3 DEF Emits
  <1>5. \A v : Bl!CustomersOf(v)' = Bl!CustomersOf(v)
    BY <1>1 DEF Bl!CustomersOf
  <1>6. \A v : /\ Bl!Live(v)' \subseteq Bl!Live(v)
               /\ v # u => Bl!Live(v)' = Bl!Live(v) /\ Bl!Billed(v)' = Bl!Billed(v)
    <2>1. TAKE v
    <2>2. \A j \in 1..Len(subs) : j \in Bl!Live(v)' => j \in Bl!Live(v)
      BY <1>1, <1>3 DEF Bl!Live
    <2>3. \A j \in 1..Len(subs) : v # u /\ j \in Bl!Live(v) => j # s /\ j \in Bl!Live(v)'
      BY <1>1, <1>3 DEF Bl!Live
    <2>4. Bl!Live(v)' \subseteq 1..Len(subs) /\ Bl!Live(v) \subseteq 1..Len(subs)
      BY <1>3 DEF Bl!Live
    <2>5. v # u => Bl!Live(v)' = Bl!Live(v)
      BY <2>2, <2>3, <2>4
    <2>6. v # u => Bl!Billed(v)' = Bl!Billed(v)
      BY <1>3, <2>3, <2>4, <2>5 DEF Bl!Billed
    <2> QED BY <2>2, <2>4, <2>5, <2>6
  <1>7. Bl!TypeOK' /\ WorkOK' /\ HoldersOK' /\ TurnsOK'
    BY <1>1, <1>2, <1>3, <1>4, StripeStep DEF Bl!TypeOK
  <1>8. LogOK'
    <2>1. subs'[s].customer = subs[s].customer
      BY <1>3
    <2>2. ASSUME NEW v \in Users \ reopened, v = u
          PROVE  kind = "lost" <=> Bl!Billed(v)' = {}
      <3>1. OneSubscription(v) /\ s \in Bl!Live(v)
        BY <1>1, <1>2, <2>2 DEF OnceOK, Bl!Live
      <3>2. \A j \in Bl!Live(v) : j = s
        BY <3>1 DEF OneSubscription
      <3>3. CASE to = "active"
        <4>1. s \in Bl!Live(v)'
          BY <1>1, <1>3, <2>1, <2>2, <3>3 DEF Bl!Live
        <4>2. s \in Bl!Billed(v)'
          BY <1>3, <3>3, <4>1 DEF Bl!Billed
        <4> QED BY <3>3, <4>2
      <3>4. CASE to # "active"
        <4>1. \A j \in Bl!Live(v)' : j = s
          BY <1>6, <3>2
        <4>2. Bl!Billed(v)' = {}
          BY <1>3, <3>4, <4>1 DEF Bl!Billed
        <4> QED BY <3>4, <4>2
      <3> QED BY <3>3, <3>4
    <2>3. \A v \in Users : owner[subs'[s].customer] # v => Bl!Billed(v)' = Bl!Billed(v)
      BY <1>6, <2>1
    <2>4. \A v \in Users \ reopened : owner[subs'[s].customer] = v =>
            (kind = "lost" <=> Bl!Billed(v)' = {})
      BY <2>1, <2>2
    <2>5. reopened' = reopened /\ Len(subs') = Len(subs)
      BY <1>1, <1>3
    <2> QED BY <1>2, <1>4, <2>3, <2>4, <2>5, LogGrows
  <1>9. OnceOK'
    BY <1>1, <1>2, <1>5, <1>6, OnceStays
  <1> QED BY <1>7, <1>8, <1>9 DEF BillInv

-----------------------------------------------------------------------------
(* The deliveries                                                          *)

\* A delivery changes what it is about, and only that.
LEMMA TurnKept ==
  ASSUME Bl!BillingAssumption, Bl!TypeOK, WorkOK, UNCHANGED <<owner, subs, log>>,
         NEW w \in Users,
         Bl!BusyWith(w)' = Bl!BusyWith(w),
         \A h \in Bl!BusyWith(w) : call'[h] = call[h],
         AnsweredOf(w)' = AnsweredOf(w),
         \A e \in Bl!EventsOf(w) : e \in processed' <=> e \in processed,
         plan'[w] = plan[w], orgPlan'[w] = orgPlan[w],
         customer[w] # None => customer'[w] # None,
         \A h \in Bl!BusyWith(w) : h \notin crossed' => h \notin crossed
  PROVE  /\ AloneOK(w) => AloneOK(w)'
         /\ InTurn(w) => InTurn(w)'
         /\ Mirrored(w) => Mirrored(w)'
         /\ KnownOK(w) => KnownOK(w)'
         /\ BlindOK(w) => BlindOK(w)'
         /\ AppliedOK(w) => AppliedOK(w)'
  <1>1. Bl!EventsOf(w)' = Bl!EventsOf(w)
    BY StripeStays
  <1>2. \A h \in Bl!BusyWith(w) : h \in Handlers /\ call[h].e \in Bl!EventsOf(w)
    BY BusyFacts DEF Bl!EventsOf
  <1>3. \A h \in Handlers, e \in Bl!EventsOf(w) : call[h].e = e => h \in Bl!BusyWith(w)
    BY DEF Bl!EventsOf, Bl!BusyWith, Bl!TypeOK, Bl!BillingAssumption
  <1>4. AnsweredOf(w) = Bl!EventsOf(w) \cap answered
    BY DEF AnsweredOf
  <1>5. \A e \in Bl!EventsOf(w) : e \in answered' <=> e \in answered
    <2>1. AnsweredOf(w)' = Bl!EventsOf(w) \cap answered'
      BY <1>1 DEF AnsweredOf
    <2> QED BY <1>4, <2>1
  <1>11. SettledOf(w)' = SettledOf(w) /\ SettledOf(w) \subseteq Bl!EventsOf(w)
    BY <1>1, <1>5 DEF SettledOf
  <1>12. ASSUME AloneOK(w) PROVE AloneOK(w)'
    BY <1>12 DEF AloneOK, CopyOK, Found
  <1>6. ASSUME InTurn(w) PROVE InTurn(w)'
    <2>1. ASSUME NEW e \in Bl!EventsOf(w)' \cap processed'
          PROVE  \/ e \in answered'
                 \/ \E d \in AnsweredOf(w) : d > e
                 \/ \E h \in Handlers : call'[h].e = e /\ call'[h].pc = "keyed"
      BY <1>1, <1>3, <1>5, <1>6, <2>1 DEF InTurn
    <2> QED BY <1>6, <2>1 DEF InTurn
  <1>7. ASSUME Mirrored(w) PROVE Mirrored(w)'
    BY <1>7 DEF Mirrored, CopyOK
  <1>8. ASSUME KnownOK(w) PROVE KnownOK(w)'
    <2>1. ASSUME NEW d \in SettledOf(w), log[d].kind = "checkout", ~ (customer'[w] # None)
          PROVE  d \in processed' /\ \E h \in Handlers : call'[h].e = d
      BY <1>2, <1>3, <1>8, <1>11, <2>1 DEF KnownOK
    <2> QED BY <1>8, <1>11, <2>1 DEF KnownOK
  <1>9. ASSUME BlindOK(w) PROVE BlindOK(w)'
    BY <1>1, <1>9, <1>11 DEF BlindOK
  <1>10. ASSUME AppliedOK(w) PROVE AppliedOK(w)'
    <2>1. InOrder(w)' => InOrder(w)
      BY <1>1, <1>11 DEF InOrder
    <2>2. (\A h \in Bl!BusyWith(w) : ~HasKey(h))' => \A h \in Bl!BusyWith(w) : ~HasKey(h)
      BY <1>2 DEF HasKey
    <2> QED BY <1>10, <2>1, <2>2 DEF AppliedOK
  <1> QED BY <1>6, <1>7, <1>8, <1>9, <1>10, <1>12

\* The request is not about another user than u.
Concerns(s, u) == s.e = None \/ Bl!UserOf(s.e) = u

LEMMA TurnsOfOthers ==
  ASSUME Bl!BillingAssumption, Bl!TypeOK, WorkOK, TurnsOK,
         UNCHANGED <<owner, subs, log, missed>>,
         NEW e \in 1..Len(log), NEW u, u = Bl!UserOf(e),
         \A g \in Handlers : \/ call'[g] = call[g]
                             \/ Concerns(call[g], u) /\ Concerns(call'[g], u),
         \A d \in 1..Len(log) : d # e => (d \in answered' <=> d \in answered),
         \A d \in 1..Len(log) : d # e => (d \in processed' <=> d \in processed),
         \A w \in Users \ {u} : /\ plan'[w] = plan[w] /\ orgPlan'[w] = orgPlan[w]
                                /\ customer[w] # None => customer'[w] # None,
         \A g \in Handlers : call'[g] = call[g] /\ g \notin crossed' => g \notin crossed,
         disturbed \ {u} \subseteq disturbed',
         AloneOK(u)',
         u \notin disturbed' => InTurn(u)' /\ Mirrored(u)' /\ KnownOK(u)',
         u \notin disturbed' \cup missed' => BlindOK(u)' /\ AppliedOK(u)'
  PROVE  TurnsOK'
  <1>1. ASSUME NEW w \in Users \ {u}
        PROVE  /\ AloneOK(w) => AloneOK(w)'
               /\ InTurn(w) => InTurn(w)'
               /\ Mirrored(w) => Mirrored(w)'
               /\ KnownOK(w) => KnownOK(w)'
               /\ BlindOK(w) => BlindOK(w)'
               /\ AppliedOK(w) => AppliedOK(w)'
    <2>1. /\ Bl!EventsOf(w)' = Bl!EventsOf(w) /\ Bl!EventsOf(w) \subseteq 1..Len(log)
          /\ e \notin Bl!EventsOf(w)
          /\ \A d : Bl!UserOf(d)' = Bl!UserOf(d)
      <3>1. Bl!EventsOf(w) \subseteq 1..Len(log) /\ e \notin Bl!EventsOf(w)
        BY DEF Bl!EventsOf
      <3> QED BY <3>1, StripeStays
    <2>2. AnsweredOf(w)' = AnsweredOf(w)
      <3>1. \A d \in Bl!EventsOf(w) : d \in 1..Len(log) /\ d # e
        BY <2>1
      <3>2. \A d \in Bl!EventsOf(w) : d \in answered' <=> d \in answered
        BY <3>1
      <3>3. AnsweredOf(w)' = Bl!EventsOf(w) \cap answered'
        BY <2>1 DEF AnsweredOf
      <3> QED BY <3>2, <3>3 DEF AnsweredOf
    <2>3. ASSUME NEW g \in Handlers
          PROVE  /\ g \in Bl!BusyWith(w)' <=> g \in Bl!BusyWith(w)
                 /\ g \in Bl!BusyWith(w) => call'[g] = call[g]
      <3>1. g \in Bl!BusyWith(w) <=> call[g].e # None /\ Bl!UserOf(call[g].e) = w
        BY DEF Bl!BusyWith
      <3>2. g \in Bl!BusyWith(w)' <=> call'[g].e # None /\ Bl!UserOf(call'[g].e) = w
        BY DEF Bl!BusyWith, Bl!UserOf, Bl!CustomerOf
      <3> QED BY <3>1, <3>2 DEF Concerns
    <2>4. Bl!BusyWith(w)' = Bl!BusyWith(w) /\ \A g \in Bl!BusyWith(w) : call'[g] = call[g]
      <3>1. Bl!BusyWith(w)' \subseteq Handlers /\ Bl!BusyWith(w) \subseteq Handlers
        BY DEF Bl!BusyWith
      <3> QED BY <2>3, <3>1
    <2>5. \A d \in Bl!EventsOf(w) : d \in processed' <=> d \in processed
      <3>1. \A d \in Bl!EventsOf(w) : d \in 1..Len(log) /\ d # e
        BY <2>1
      <3> QED BY <3>1
    <2>6. /\ w \in Users /\ plan'[w] = plan[w] /\ orgPlan'[w] = orgPlan[w]
          /\ customer[w] # None => customer'[w] # None
      OBVIOUS
    <2>7. \A g \in Bl!BusyWith(w) : g \notin crossed' => g \notin crossed
      BY <2>4 DEF Bl!BusyWith
    <2> QED BY <2>2, <2>4, <2>5, <2>6, <2>7, TurnKept
  <1>2. ASSUME NEW w \in Users \ disturbed' PROVE (InTurn(w) /\ Mirrored(w) /\ KnownOK(w))'
    BY <1>1 DEF TurnsOK
  <1>3. ASSUME NEW w \in Users \ (disturbed' \cup missed')
        PROVE  (BlindOK(w) /\ AppliedOK(w))'
    BY <1>1 DEF TurnsOK
  <1>4. ASSUME NEW w \in Users PROVE AloneOK(w)'
    BY <1>1 DEF TurnsOK
  <1> QED BY <1>2, <1>3, <1>4 DEF TurnsOK

\* The rest of the invariant does not know of deliveries.
LEMMA DeliveryRest ==
  ASSUME Bl!TypeOK, HoldersOK, OnceOK, LogOK,
         UNCHANGED <<owner, sessions, subs, log, reopened, missed>>,
         \A g \in Handlers : call'[g].pc = "creating" => call'[g] = call[g]
  PROVE  /\ StripeGrows /\ OnceOK' /\ LogOK'
         /\ customer' = customer => HoldersOK'
  <1>1. StripeGrows /\ \A v : Bl!CustomersOf(v)' = Bl!CustomersOf(v) /\ Bl!Live(v)' = Bl!Live(v)
    BY StripeStays
  <1>2. OnceOK'
    BY <1>1, OnceStays
  <1>3. LogOK'
    BY LogStays
  <1> QED BY <1>1, <1>2, <1>3, HoldersStay

\* What a delivery knows: its event, its user, and that it is alone.
LEMMA DeliveryFacts ==
  ASSUME Bl!BillingAssumption, BillInv, NEW h \in Handlers, Hearing(call[h]),
         NEW e, e = call[h].e, NEW u, u = Bl!UserOf(e)
  PROVE  /\ e \in 1..Len(log) /\ e # None /\ u \in Users /\ u # None
         /\ e \in Bl!EventsOf(u) /\ call[h] \in BillRequest
         /\ h \in Bl!BusyWith(u)
         /\ \A v : Bl!EventsOf(v) \subseteq 1..Len(log)
         /\ AloneOK(u)
         /\ u \notin disturbed => /\ InTurn(u) /\ Mirrored(u) /\ KnownOK(u)
                                  /\ Bl!BusyWith(u) = {h}
         /\ u \notin disturbed \cup missed => BlindOK(u) /\ AppliedOK(u)
  <1>1. Bl!TypeOK /\ WorkOK /\ TurnsOK
    BY DEF BillInv
  <1>2. e \in 1..Len(log) /\ h \in Bl!BusyWith(u) /\ call[h] \in BillRequest
    BY <1>1, BusyFacts, CallTypes
  <1>3. u \in Users /\ e \in Bl!EventsOf(u)
    BY <1>1, <1>2, UserFacts
  <1>4. e # None /\ u # None
    BY <1>2, <1>3 DEF Bl!BillingAssumption
  <1>5. u \notin disturbed => InTurn(u) /\ Mirrored(u) /\ KnownOK(u)
    BY <1>1, <1>3 DEF TurnsOK
  <1>6. u \notin disturbed => Bl!BusyWith(u) = {h}
    BY <1>2, <1>5 DEF InTurn
  <1>7. u \notin disturbed \cup missed => BlindOK(u) /\ AppliedOK(u)
    BY <1>1, <1>3 DEF TurnsOK
  <1>8. \A v : Bl!EventsOf(v) \subseteq 1..Len(log)
    BY DEF Bl!EventsOf
  <1>9. AloneOK(u)
    BY <1>1, <1>3 DEF TurnsOK
  <1> QED BY <1>2, <1>3, <1>4, <1>5, <1>6, <1>7, <1>8, <1>9

\* What the user's other deliveries are after a step of one of them.
LEMMA AloneStep ==
  ASSUME Bl!BillingAssumption, Bl!TypeOK, WorkOK,
         UNCHANGED <<owner, subs, log, crossed>>,
         NEW u, AloneOK(u), NEW h \in Bl!BusyWith(u),
         \A g \in Handlers \ {h} : call'[g] = call[g],
         customer[u] # None => customer'[u] # None,
         call'[h].e = call[h].e \/ call'[h].e = None,
         call'[h].e # None =>
           /\ Found(h, u)' => customer'[u] # None
           /\ h \notin crossed => CopyOK(h, u)'
  PROVE  AloneOK(u)'
  <1>1. ASSUME NEW g \in Bl!BusyWith(u)'
        PROVE  g \in Handlers /\ call'[g].e # None /\ call'[g].e = call[g].e /\ g \in Bl!BusyWith(u)
    <2>1. g \in Handlers /\ call'[g].e # None /\ Bl!UserOf(call[g].e)' = u
      BY DEF Bl!BusyWith
    <2>2. call'[g].e = call[g].e
      BY <2>1
    <2>3. \A e : Bl!UserOf(e)' = Bl!UserOf(e)
      BY StripeStays
    <2>4. Bl!UserOf(call[g].e) = u
      BY <2>1, <2>2 DEF Bl!UserOf, Bl!CustomerOf
    <2> QED BY <2>1, <2>2, <2>4 DEF Bl!BusyWith
  <1>2. ASSUME NEW g \in Bl!BusyWith(u)', g = h
        PROVE  /\ Found(g, u)' => customer'[u] # None
               /\ g \notin crossed' => Bl!BusyWith(u)' = {g} /\ CopyOK(g, u)'
    <2>1. h \notin crossed => Bl!BusyWith(u) = {h}
      BY DEF AloneOK
    <2> QED BY <1>1, <1>2, <2>1
  <1>3. ASSUME NEW g \in Bl!BusyWith(u)', g # h
        PROVE  /\ Found(g, u)' => customer'[u] # None
               /\ g \in crossed'
    BY <1>1, <1>3 DEF AloneOK, Found
  <1> QED BY <1>2, <1>3 DEF AloneOK

\* The user's deliveries after a step of the only one.
LEMMA BusyAfter ==
  ASSUME Bl!BillingAssumption, Bl!TypeOK, WorkOK, UNCHANGED <<owner, subs, log>>,
         NEW h \in Handlers, NEW u, \A g \in Handlers \ {h} : call'[g] = call[g],
         Bl!BusyWith(u) \subseteq {h}
  PROVE  Bl!BusyWith(u)' = IF call'[h].e # None /\ Bl!UserOf(call'[h].e) = u THEN {h} ELSE {}
  <1>1. \A g \in Handlers :
          g \in Bl!BusyWith(u)' <=> call'[g].e # None /\ Bl!UserOf(call'[g].e) = u
    BY DEF Bl!BusyWith, Bl!UserOf, Bl!CustomerOf
  <1>2. \A g \in Handlers \ {h} : ~(call[g].e # None /\ Bl!UserOf(call[g].e) = u)
    BY DEF Bl!BusyWith
  <1>3. Bl!BusyWith(u)' \subseteq Handlers
    BY DEF Bl!BusyWith
  <1> QED BY <1>1, <1>2, <1>3

LEMMA LoadUserStep ==
  ASSUME Bl!BillingAssumption, BillInv, NEW h \in Handlers, Bl!LoadUser(h)
  PROVE  BillInv'
  <1>1. PICK e, u : e = call[h].e /\ u = Bl!UserOf(e)
    OBVIOUS
  <1>2. /\ call[h].pc = "fresh" /\ Hearing(call[h])
        /\ UNCHANGED <<owner, sessions, subs, log, answered, customer, plan, orgPlan,
                       processed, disturbed, crossed, reopened, missed,
                       mishaps>>
    BY DEF Bl!LoadUser, Bl!At, Bl!stripeVars, Bl!rowVars, Bl!ghostVars, Hearing
  <1>3. Bl!TypeOK /\ WorkOK /\ HoldersOK /\ OnceOK /\ LogOK /\ TurnsOK
    BY DEF BillInv
  <1>4. /\ e \in 1..Len(log) /\ e # None /\ u \in Users /\ u # None
        /\ e \in Bl!EventsOf(u) /\ call[h] \in BillRequest
        /\ AloneOK(u) /\ h \in Bl!BusyWith(u)
        /\ u \notin disturbed => /\ InTurn(u) /\ Mirrored(u) /\ KnownOK(u)
                                 /\ Bl!BusyWith(u) = {h}
        /\ u \notin disturbed \cup missed => BlindOK(u) /\ AppliedOK(u)
    BY <1>1, <1>2, DeliveryFacts
  <1>5. PICK s : /\ call' = [call EXCEPT ![h] = s] /\ s \in BillRequest /\ s.e = e
                 /\ \/ /\ s.pc = "loaded" /\ s.user = u /\ s.hadPlan = plan[u]
                       /\ s.hadCustomer = customer[u]
                       /\ log[e].kind # "checkout" => customer[u] # None
                    \/ /\ s.pc = "computed" /\ s.user = None /\ s.hadPlan = None
                       /\ s.hadOrg = None /\ s.hadCustomer = None
                       /\ log[e].kind # "checkout" /\ customer[u] # Bl!CustomerOf(e)
    <2>1. PICK found : found = {v \in Users : IF log[e].kind = "checkout" THEN v = u
                                              ELSE customer[v] = Bl!CustomerOf(e)}
      OBVIOUS
    <2>2. \/ \E v \in found : call' = [call EXCEPT
               ![h] = [@ EXCEPT !.pc = "loaded", !.user = v, !.hadPlan = plan[v],
                                !.hadCustomer = customer[v]]]
          \/ found = {} /\ call' = [call EXCEPT ![h].pc = "computed"]
      BY <1>1, <2>1 DEF Bl!LoadUser, Bl!Recipients
    <2>3. ASSUME NEW v \in found PROVE v = u
      <3>1. CASE log[e].kind = "checkout"
        BY <2>1, <3>1
      <3>2. CASE customer[v] = Bl!CustomerOf(e)
        <4>1. Bl!CustomerOf(e) \in 1..Len(owner) /\ u = owner[Bl!CustomerOf(e)]
          BY <1>1, <1>3, <1>4, UserFacts DEF Bl!UserOf
        <4>2. customer[v] # None
          BY <1>3, <3>2, <4>1 DEF Bl!BillingAssumption, Bl!TypeOK
        <4>3. customer[v] \in Bl!CustomersOf(v)
          BY <1>3, <2>1, <4>2 DEF HoldersOK
        <4> QED BY <3>2, <4>1, <4>3 DEF Bl!CustomersOf
      <3> QED BY <2>1, <3>1, <3>2
    <2>4. CASE u \in found
      <3>1. PICK s : s = [call[h] EXCEPT !.pc = "loaded", !.user = u, !.hadPlan = plan[u],
                                         !.hadCustomer = customer[u]]
        OBVIOUS
      <3>2. call' = [call EXCEPT ![h] = s]
        BY <1>3, <2>2, <2>3, <2>4, <3>1, CallTypes
      <3>3. plan[u] \in Bl!Plans /\ customer[u] \in Bl!Customers \cup {None}
        BY <1>3, <1>4 DEF Bl!TypeOK, Bl!Customers
      <3>6. call[h] \in BillRequest /\ u \in Users /\ call[h].e = e
        BY <1>1, <1>4
      <3>4. s \in BillRequest /\ s.e = e /\ s.pc = "loaded" /\ s.user = u
              /\ s.hadPlan = plan[u] /\ s.hadCustomer = customer[u]
        BY <3>1, <3>3, <3>6 DEF BillRequest
      <3>5. log[e].kind # "checkout" => customer[u] # None
        <4>1. Bl!CustomerOf(e) \in 1..Len(owner)
          BY <1>3, <1>4, UserFacts
        <4>2. Len(owner) \in Nat
          BY <1>3 DEF Bl!TypeOK
        <4> QED BY <2>1, <2>4, <4>1, <4>2 DEF Bl!BillingAssumption
      <3> QED BY <3>2, <3>4, <3>5
    <2>5. CASE u \notin found
      <3>1. found = {} /\ call' = [call EXCEPT ![h].pc = "computed"]
        BY <2>2, <2>3, <2>5
      <3>2. PICK s : s = [call[h] EXCEPT !.pc = "computed"]
        OBVIOUS
      <3>3. call' = [call EXCEPT ![h] = s]
        BY <1>3, <3>1, <3>2, CallTypes
      <3>4. /\ call[h].user = None /\ call[h].hadPlan = None
            /\ call[h].hadOrg = None /\ call[h].hadCustomer = None
        BY <1>2, <1>3 DEF WorkOK, DeliveryOK
      <3>5. /\ s \in BillRequest /\ s.e = e /\ s.pc = "computed" /\ s.user = None
            /\ s.hadPlan = None /\ s.hadOrg = None /\ s.hadCustomer = None
        BY <1>1, <1>4, <3>2, <3>4 DEF BillRequest
      <3>6. log[e].kind # "checkout" /\ customer[u] # Bl!CustomerOf(e)
        BY <1>4, <2>1, <2>5
      <3> QED BY <3>3, <3>5, <3>6
    <2> QED BY <2>4, <2>5
  <1>6. /\ call' \in [Handlers -> BillRequest] /\ call'[h] = s
        /\ \A g \in Handlers \ {h} : call'[g] = call[g]
    BY <1>3, <1>5, OneCall
  <1>7. StripeGrows /\ OnceOK' /\ LogOK' /\ HoldersOK'
    BY <1>2, <1>3, <1>5, <1>6, DeliveryRest
  <1>8. \A v : /\ Bl!EventsOf(v)' = Bl!EventsOf(v) /\ AnsweredOf(v)' = AnsweredOf(v)
               /\ Bl!UserOf(v)' = Bl!UserOf(v) /\ SettledOf(v)' = SettledOf(v)
    BY <1>2, <1>3, StripeStays DEF AnsweredOf, SettledOf
  <1>9. Bl!TypeOK'
    BY <1>2, <1>3, <1>6, SameStripeTypes DEF Bl!TypeOK
  <1>10. WorkOK'
    <2>1. CheckoutOK(call[h])'
      BY <1>5, <1>6 DEF CheckoutOK, Paying
    <2>2. Bl!UserOf(call[h].e)' = u
      BY <1>1, <1>2, <1>5, <1>6 DEF Bl!UserOf, Bl!CustomerOf
    <2>3. plan[u] \in Bl!Plans
      BY <1>3, <1>4 DEF Bl!TypeOK
    <2>4. DeliveryOK(call[h])'
      BY <1>2, <1>4, <1>5, <1>6, <2>2, <2>3 DEF DeliveryOK, Hearing, Bl!Plans
    <2> QED BY <1>3, <1>6, <1>7, <2>1, <2>4, WorkStays
  <1>11. ASSUME u \notin disturbed
         PROVE  InTurn(u)' /\ Mirrored(u)' /\ KnownOK(u)' /\ Bl!BusyWith(u)' = {h}
    <2>1. InTurn(u) /\ Mirrored(u) /\ KnownOK(u) /\ Bl!BusyWith(u) = {h}
      BY <1>4, <1>11
    <2>2. Bl!BusyWith(u)' = {h}
      BY <1>1, <1>2, <1>3, <1>4, <1>5, <1>6, <2>1, BusyAfter
    <2>3. InTurn(u)'
      BY <1>1, <1>2, <1>5, <1>6, <1>8, <2>1, <2>2 DEF InTurn
    <2>4. Mirrored(u)'
      BY <1>2, <1>4, <1>5, <1>6, <2>1, <2>2 DEF Mirrored, CopyOK
    <2>5. KnownOK(u)'
      BY <1>1, <1>2, <1>5, <1>6, <1>8, <2>1, <2>2 DEF KnownOK
    <2> QED BY <2>2, <2>3, <2>4, <2>5
  <1>12. ASSUME u \notin disturbed \cup missed PROVE BlindOK(u)' /\ AppliedOK(u)'
    <2>1. /\ InTurn(u) /\ KnownOK(u) /\ Bl!BusyWith(u) = {h} /\ Bl!BusyWith(u)' = {h}
          /\ AppliedOK(u)
      BY <1>4, <1>11, <1>12
    <2>2. ASSUME s.user = None PROVE \E d \in Bl!EventsOf(u) \ SettledOf(u) : d < e
      <3>1. log[e].kind # "checkout" /\ customer[u] # Bl!CustomerOf(e)
        BY <1>4, <1>5, <2>2
      <3>2. PICK d \in 1..e : Begins(d, log[e].sub)
        BY <1>3, <1>4 DEF LogOK
      <3>3. d # e /\ d \in 1..Len(log) /\ d < e
        <4>1. d # e
          BY <3>1, <3>2 DEF Begins
        <4>2. Len(log) \in Nat
          BY <1>3 DEF Bl!TypeOK
        <4> QED BY <1>4, <3>2, <4>1, <4>2
      <3>4. d \in Bl!EventsOf(u)
        BY <1>1, <3>2, <3>3 DEF Begins, Bl!EventsOf, Bl!UserOf, Bl!CustomerOf
      <3>5. customer[u] = None
        <4>1. Bl!CustomerOf(e) \in Bl!CustomersOf(u)
          BY <1>1, <1>3, <1>4, UserFacts
        <4>2. OneCustomer(u) /\ customer[u] \in Bl!CustomersOf(u) \cup {None}
          BY <1>3, <1>4, <1>12 DEF OnceOK, HoldersOK
        <4> QED BY <3>1, <4>1, <4>2 DEF OneCustomer
      <3>6. ASSUME d \in SettledOf(u) PROVE FALSE
        <4>1. PICK g \in Handlers : call[g].e = d
          BY <2>1, <3>2, <3>5, <3>6 DEF KnownOK, Begins
        <4>2. g \in Bl!BusyWith(u)
          BY <1>3, <3>3, <3>4, <4>1 DEF Bl!BusyWith, Bl!EventsOf, Bl!BillingAssumption, Bl!TypeOK
        <4> QED BY <1>1, <2>1, <3>3, <4>1, <4>2
      <3> QED BY <3>3, <3>4, <3>6
    <2>3. BlindOK(u)'
      BY <1>2, <1>5, <1>6, <1>8, <2>1, <2>2 DEF BlindOK
    <2>4. AppliedOK(u)'
      BY <1>1, <1>2, <1>5, <1>6, <1>8, <2>1 DEF AppliedOK, InOrder, HasKey
    <2> QED BY <2>3, <2>4
  <1>13. TurnsOK'
    <2>1. \A g \in Handlers : \/ call'[g] = call[g]
                              \/ Concerns(call[g], u) /\ Concerns(call'[g], u)
      BY <1>1, <1>5, <1>6 DEF Concerns
    <2>2. AloneOK(u)'
      <3>1. Found(h, u)' => customer'[u] # None
        BY <1>1, <1>2, <1>4, <1>5, <1>6 DEF Found
      <3>2. CopyOK(h, u)'
        BY <1>2, <1>4, <1>5, <1>6 DEF CopyOK
      <3> QED BY <1>1, <1>2, <1>3, <1>4, <1>5, <1>6, <3>1, <3>2, AloneStep
    <2> QED BY <1>1, <1>2, <1>3, <1>4, <1>11, <1>12, <2>1, <2>2, TurnsOfOthers
  <1> QED BY <1>7, <1>9, <1>10, <1>13 DEF BillInv

LEMMA LoadOrganizationStep ==
  ASSUME Bl!BillingAssumption, BillInv, NEW h \in Handlers, Bl!LoadOrganization(h)
  PROVE  BillInv'
  <1>1. PICK e, u : e = call[h].e /\ u = Bl!UserOf(e)
    OBVIOUS
  <1>2. /\ call[h].pc = "loaded" /\ Hearing(call[h])
        /\ UNCHANGED <<owner, sessions, subs, log, answered, customer, plan, orgPlan,
                       processed, disturbed, crossed, reopened, missed,
                       mishaps>>
    BY DEF Bl!LoadOrganization, Bl!At, Bl!stripeVars, Bl!rowVars, Bl!ghostVars, Hearing
  <1>3. Bl!TypeOK /\ WorkOK /\ HoldersOK /\ OnceOK /\ LogOK /\ TurnsOK
    BY DEF BillInv
  <1>4. /\ e \in 1..Len(log) /\ e # None /\ u \in Users /\ u # None
        /\ e \in Bl!EventsOf(u) /\ call[h] \in BillRequest
        /\ AloneOK(u) /\ h \in Bl!BusyWith(u)
        /\ u \notin disturbed => /\ InTurn(u) /\ Mirrored(u) /\ KnownOK(u)
                                 /\ Bl!BusyWith(u) = {h}
        /\ u \notin disturbed \cup missed => BlindOK(u) /\ AppliedOK(u)
    BY <1>1, <1>2, DeliveryFacts
  <1>5. call[h].user = u /\ call[h].hadPlan \in Bl!Plans
    BY <1>1, <1>2, <1>3 DEF WorkOK, DeliveryOK
  <1>6. PICK s : /\ call' = [call EXCEPT ![h] = s] /\ s \in BillRequest /\ s.e = e
                 /\ s.pc = "computed" /\ s.user = u /\ s.hadPlan = call[h].hadPlan
                 /\ s.hadCustomer = call[h].hadCustomer
                 /\ s.hadOrg = IF log[e].kind = "active" /\ call[h].hadPlan = "pro"
                               THEN None ELSE orgPlan[u]
    <2>1. PICK x : x = IF log[e].kind = "active" /\ call[h].hadPlan = "pro"
                       THEN None ELSE orgPlan[u]
      OBVIOUS
    <2>2. x \in Bl!Plans \cup {None}
      BY <1>3, <1>4, <2>1 DEF Bl!TypeOK
    <2>3. PICK s : s = [call[h] EXCEPT !.pc = "computed", !.hadOrg = x]
      OBVIOUS
    <2>4. call' = [call EXCEPT ![h].pc = "computed", ![h].hadOrg = x]
      BY <1>1, <1>5, <2>1 DEF Bl!LoadOrganization
    <2>5. call' = [call EXCEPT ![h] = s]
      BY <1>3, <2>3, <2>4, CallTypes
    <2>6. /\ s \in BillRequest /\ s.e = e /\ s.pc = "computed" /\ s.user = u
          /\ s.hadPlan = call[h].hadPlan /\ s.hadCustomer = call[h].hadCustomer
          /\ s.hadOrg = x
      BY <1>1, <1>4, <1>5, <2>2, <2>3 DEF BillRequest
    <2> QED BY <2>1, <2>5, <2>6
  <1>7. /\ call' \in [Handlers -> BillRequest] /\ call'[h] = s
        /\ \A g \in Handlers \ {h} : call'[g] = call[g]
    BY <1>3, <1>6, OneCall
  <1>8. StripeGrows /\ OnceOK' /\ LogOK' /\ HoldersOK'
    BY <1>2, <1>3, <1>6, <1>7, DeliveryRest
  <1>9. \A v : /\ Bl!EventsOf(v)' = Bl!EventsOf(v) /\ AnsweredOf(v)' = AnsweredOf(v)
               /\ Bl!UserOf(v)' = Bl!UserOf(v) /\ SettledOf(v)' = SettledOf(v)
    BY <1>2, <1>3, StripeStays DEF AnsweredOf, SettledOf
  <1>10. Bl!TypeOK'
    BY <1>2, <1>3, <1>7, SameStripeTypes DEF Bl!TypeOK
  <1>11. WorkOK'
    <2>1. CheckoutOK(call[h])'
      BY <1>6, <1>7 DEF CheckoutOK, Paying
    <2>2. Bl!UserOf(call[h].e)' = u
      BY <1>1, <1>2, <1>6, <1>7 DEF Bl!UserOf, Bl!CustomerOf
    <2>3. DeliveryOK(call[h])'
      BY <1>2, <1>4, <1>5, <1>6, <1>7, <2>2 DEF DeliveryOK, Hearing, Bl!Plans
    <2> QED BY <1>3, <1>7, <1>8, <2>1, <2>3, WorkStays
  <1>12. ASSUME u \notin disturbed
         PROVE  InTurn(u)' /\ Mirrored(u)' /\ KnownOK(u)' /\ Bl!BusyWith(u)' = {h}
    <2>1. InTurn(u) /\ Mirrored(u) /\ KnownOK(u) /\ Bl!BusyWith(u) = {h}
      BY <1>4, <1>12
    <2>2. Bl!BusyWith(u)' = {h}
      BY <1>1, <1>2, <1>3, <1>4, <1>6, <1>7, <2>1, BusyAfter
    <2>3. InTurn(u)'
      BY <1>1, <1>2, <1>6, <1>7, <1>9, <2>1, <2>2 DEF InTurn
    <2>4. Mirrored(u)'
      BY <1>1, <1>2, <1>5, <1>6, <1>7, <2>1, <2>2 DEF Mirrored, CopyOK
    <2>5. KnownOK(u)'
      BY <1>1, <1>2, <1>6, <1>7, <1>9, <2>1, <2>2 DEF KnownOK
    <2> QED BY <2>2, <2>3, <2>4, <2>5
  <1>13. ASSUME u \notin disturbed \cup missed PROVE BlindOK(u)' /\ AppliedOK(u)'
    <2>1. Bl!BusyWith(u) = {h} /\ Bl!BusyWith(u)' = {h} /\ AppliedOK(u)
      BY <1>4, <1>12, <1>13
    <2>2. BlindOK(u)'
      BY <1>4, <1>6, <1>7, <2>1 DEF BlindOK
    <2>3. AppliedOK(u)'
      BY <1>1, <1>2, <1>6, <1>7, <1>9, <2>1 DEF AppliedOK, InOrder, HasKey
    <2> QED BY <2>2, <2>3
  <1>14. TurnsOK'
    <2>1. \A g \in Handlers : \/ call'[g] = call[g]
                              \/ Concerns(call[g], u) /\ Concerns(call'[g], u)
      BY <1>1, <1>6, <1>7 DEF Concerns
    <2>2. AloneOK(u)'
      <3>1. Found(h, u)' => customer'[u] # None
        BY <1>1, <1>2, <1>4, <1>5, <1>6, <1>7 DEF AloneOK, Found
      <3>2. h \notin crossed => CopyOK(h, u)'
        BY <1>1, <1>2, <1>4, <1>5, <1>6, <1>7 DEF AloneOK, CopyOK
      <3> QED BY <1>1, <1>2, <1>3, <1>4, <1>5, <1>6, <1>7, <3>1, <3>2, AloneStep
    <2> QED BY <1>1, <1>2, <1>3, <1>4, <1>12, <1>13, <2>1, <2>2, TurnsOfOthers
  <1> QED BY <1>8, <1>10, <1>11, <1>14 DEF BillInv

LEMMA SetKeyStep ==
  ASSUME Bl!BillingAssumption, BillInv, NEW h \in Handlers, Bl!SetKey(h)
  PROVE  BillInv'
  <1>1. PICK e, u : e = call[h].e /\ u = Bl!UserOf(e)
    OBVIOUS
  <1>2. /\ call[h].pc = "computed" /\ Hearing(call[h])
        /\ \/ processed' = processed \cup {e} /\ Bl!NoMishap
           \/ UNCHANGED processed /\ Bl!Mishap
        /\ call' = [call EXCEPT ![h].pc = "keyed"]
        /\ UNCHANGED <<owner, sessions, subs, log, answered, customer, plan, orgPlan,
                       disturbed, crossed, reopened, missed>>
    BY <1>1 DEF Bl!SetKey, Bl!At, Bl!stripeVars, Bl!rowVars, Bl!ghostVars, Hearing
  <1>3. Bl!TypeOK /\ WorkOK /\ HoldersOK /\ OnceOK /\ LogOK /\ TurnsOK
    BY DEF BillInv
  <1>4. /\ e \in 1..Len(log) /\ e # None /\ u \in Users /\ u # None
        /\ e \in Bl!EventsOf(u) /\ call[h] \in BillRequest
        /\ AloneOK(u) /\ h \in Bl!BusyWith(u)
        /\ u \notin disturbed => /\ InTurn(u) /\ Mirrored(u) /\ KnownOK(u)
                                 /\ Bl!BusyWith(u) = {h}
        /\ u \notin disturbed \cup missed => BlindOK(u) /\ AppliedOK(u)
    BY <1>1, <1>2, DeliveryFacts
  <1>5. PICK s : /\ call' = [call EXCEPT ![h] = s] /\ s \in BillRequest /\ s.e = e
                 /\ s.pc = "keyed" /\ s.user = call[h].user /\ s.hadPlan = call[h].hadPlan
                 /\ s.hadCustomer = call[h].hadCustomer /\ s.hadOrg = call[h].hadOrg
    <2>1. PICK s : s = [call[h] EXCEPT !.pc = "keyed"]
      OBVIOUS
    <2>2. call' = [call EXCEPT ![h] = s]
      BY <1>2, <1>3, <2>1, CallTypes
    <2>3. /\ s \in BillRequest /\ s.e = e /\ s.pc = "keyed" /\ s.user = call[h].user
          /\ s.hadPlan = call[h].hadPlan
          /\ s.hadCustomer = call[h].hadCustomer /\ s.hadOrg = call[h].hadOrg
      BY <1>1, <1>4, <2>1 DEF BillRequest
    <2> QED BY <2>2, <2>3
  <1>6. /\ call' \in [Handlers -> BillRequest] /\ call'[h] = s
        /\ \A g \in Handlers \ {h} : call'[g] = call[g]
    BY <1>3, <1>5, OneCall
  <1>7. StripeGrows /\ OnceOK' /\ LogOK' /\ HoldersOK'
    BY <1>2, <1>3, <1>5, <1>6, DeliveryRest
  <1>8. \A v : /\ Bl!EventsOf(v)' = Bl!EventsOf(v) /\ AnsweredOf(v)' = AnsweredOf(v)
               /\ Bl!UserOf(v)' = Bl!UserOf(v)
    BY <1>2, <1>3, StripeStays DEF AnsweredOf
  <1>9. mishaps' \in 0..MaxMishaps /\ processed' \in {processed, processed \cup {e}}
    BY <1>2, <1>3 DEF Bl!Mishap, Bl!NoMishap, Bl!TypeOK, Bl!BillingAssumption
  <1>15. SettledOf(u)' \in {SettledOf(u), SettledOf(u) \cup {e}} /\ SettledOf(u) \subseteq SettledOf(u)'
    BY <1>2, <1>4, <1>8, <1>9 DEF SettledOf
  <1>10. Bl!TypeOK'
    BY <1>2, <1>3, <1>4, <1>6, <1>9, SameStripeTypes DEF Bl!TypeOK
  <1>11. WorkOK'
    <2>1. CheckoutOK(call[h])'
      BY <1>5, <1>6 DEF CheckoutOK, Paying
    <2>2. Bl!UserOf(call[h].e)' = u
      BY <1>1, <1>2, <1>5, <1>6 DEF Bl!UserOf, Bl!CustomerOf
    <2>3. \/ call[h].user = u /\ call[h].hadPlan \in Bl!Plans
          \/ /\ log[e].kind # "checkout" /\ call[h].user = None
             /\ call[h].hadPlan = None /\ call[h].hadOrg = None
      BY <1>1, <1>2, <1>3 DEF WorkOK, DeliveryOK
    <2>4. DeliveryOK(call[h])'
      BY <1>2, <1>4, <1>5, <1>6, <2>2, <2>3 DEF DeliveryOK, Hearing, Bl!Plans
    <2> QED BY <1>3, <1>6, <1>7, <2>1, <2>4, WorkStays
  <1>12. ASSUME u \notin disturbed
         PROVE  InTurn(u)' /\ Mirrored(u)' /\ KnownOK(u)' /\ Bl!BusyWith(u)' = {h}
    <2>1. InTurn(u) /\ Mirrored(u) /\ KnownOK(u) /\ Bl!BusyWith(u) = {h}
      BY <1>4, <1>12
    <2>2. Bl!BusyWith(u)' = {h}
      BY <1>1, <1>2, <1>3, <1>4, <1>5, <1>6, <2>1, BusyAfter
    <2>3. InTurn(u)'
      BY <1>1, <1>2, <1>5, <1>6, <1>8, <1>9, <2>1, <2>2 DEF InTurn
    <2>4. Mirrored(u)'
      BY <1>1, <1>2, <1>5, <1>6, <2>1, <2>2 DEF Mirrored, CopyOK
    <2>5. KnownOK(u)'
      <3>1. \A g \in Bl!BusyWith(u)' : call'[g].hadCustomer # None => customer'[u] # None
        BY <1>2, <1>5, <1>6, <2>1, <2>2 DEF KnownOK
      <3>2. ASSUME NEW d \in SettledOf(u)', log[d].kind = "checkout", ~ (customer[u] # None)
            PROVE  d \in processed' /\ \E g \in Handlers : call'[g].e = d
        <4>1. CASE d \in SettledOf(u)
          BY <1>1, <1>5, <1>6, <1>9, <2>1, <3>2, <4>1 DEF KnownOK
        <4>2. CASE d \notin SettledOf(u)
          <5>1. d = e
            BY <1>15, <3>2, <4>2
          <5>2. e \in processed'
            BY <1>2, <1>4, <1>8, <3>2, <4>2, <5>1 DEF SettledOf
          <5> QED BY <1>5, <1>6, <5>1, <5>2
        <4> QED BY <4>1, <4>2
      <3> QED BY <1>2, <3>1, <3>2 DEF KnownOK
    <2> QED BY <2>2, <2>3, <2>4, <2>5
  <1>13. ASSUME u \notin disturbed \cup missed PROVE BlindOK(u)' /\ AppliedOK(u)'
    <2>1. /\ Bl!BusyWith(u) = {h} /\ Bl!BusyWith(u)' = {h} /\ BlindOK(u) /\ AppliedOK(u)
          /\ InTurn(u)
      BY <1>4, <1>12, <1>13
    <2>4. Len(log) \in Nat
      BY <1>3 DEF Bl!TypeOK
    <2>2. BlindOK(u)'
      <3>1. ASSUME call[h].user = None PROVE \E d \in Bl!EventsOf(u) \ SettledOf(u)' : d < e
        <4>1. PICK d \in Bl!EventsOf(u) \ SettledOf(u) : d < e
          BY <1>1, <1>2, <2>1, <3>1 DEF BlindOK
        <4>2. d # e
          BY <1>4, <2>4, <4>1
        <4> QED BY <1>15, <4>1, <4>2
      <3> QED BY <1>5, <1>6, <1>8, <2>1, <3>1 DEF BlindOK
    <2>3. AppliedOK(u)'
      <3>1. (\A g \in Bl!BusyWith(u) : ~HasKey(g))' => ~HasKey(h)
        BY <1>1, <1>5, <1>6, <1>9, <2>1 DEF HasKey
      <3>2. InOrder(u)' => InOrder(u)
        <4>1. ASSUME InOrder(u)', NEW d \in Bl!EventsOf(u), NEW a \in AnsweredOf(u), d < a
              PROVE  d \in SettledOf(u)
          <5>1. d \in SettledOf(u)'
            BY <1>8, <4>1 DEF InOrder
          <5>2. a <= e
            BY <1>1, <2>1 DEF InTurn
          <5>3. a \in Int /\ d \in Int /\ e \in Int
            BY <1>4, <2>4 DEF AnsweredOf, Bl!EventsOf
          <5>4. d # e
            BY <4>1, <5>2, <5>3
          <5> QED BY <1>15, <5>1, <5>4
        <4> QED BY <4>1 DEF InOrder
      <3> QED BY <1>2, <1>8, <2>1, <3>1, <3>2 DEF AppliedOK
    <2> QED BY <2>2, <2>3
  <1>14. TurnsOK'
    <2>1. \A g \in Handlers : \/ call'[g] = call[g]
                              \/ Concerns(call[g], u) /\ Concerns(call'[g], u)
      BY <1>1, <1>5, <1>6 DEF Concerns
    <2>2. \A d \in 1..Len(log) : d # e => (d \in processed' <=> d \in processed)
      BY <1>9
    <2>3. AloneOK(u)'
      <3>1. Found(h, u)' => customer'[u] # None
        BY <1>1, <1>2, <1>4, <1>5, <1>6, <1>7 DEF AloneOK, Found
      <3>2. h \notin crossed => CopyOK(h, u)'
        BY <1>1, <1>2, <1>4, <1>5, <1>6 DEF AloneOK, CopyOK
      <3> QED BY <1>1, <1>2, <1>3, <1>4, <1>5, <1>6, <3>1, <3>2, AloneStep
    <2> QED BY <1>1, <1>2, <1>3, <1>4, <1>12, <1>13, <2>1, <2>2, <2>3, TurnsOfOthers
  <1> QED BY <1>7, <1>10, <1>11, <1>14 DEF BillInv

LEMMA ExpireKeyStep ==
  ASSUME Bl!BillingAssumption, BillInv, NEW e \in processed, Bl!ExpireKey(e)
  PROVE  BillInv'
  <1>1. PICK u : u = Bl!UserOf(e)
    OBVIOUS
  <1>2. /\ \A g \in Handlers : call[g].e # e
        /\ processed' = processed \ {e}
        /\ UNCHANGED <<owner, sessions, subs, log, answered, customer, plan, orgPlan,
                       call, disturbed, crossed, reopened, missed,
                       mishaps>>
    BY DEF Bl!ExpireKey, Bl!stripeVars, Bl!rowVars, Bl!ghostVars
  <1>3. Bl!TypeOK /\ WorkOK /\ HoldersOK /\ OnceOK /\ LogOK /\ TurnsOK
    BY DEF BillInv
  <1>4. e \in 1..Len(log) /\ u \in Users
    BY <1>1, <1>3, UserFacts DEF Bl!TypeOK
  <1>5. StripeGrows /\ OnceOK' /\ LogOK' /\ HoldersOK'
    BY <1>2, <1>3, DeliveryRest
  <1>6. \A v : /\ Bl!EventsOf(v)' = Bl!EventsOf(v) /\ AnsweredOf(v)' = AnsweredOf(v)
               /\ Bl!BusyWith(v)' = Bl!BusyWith(v)
    <2>1. \A d : Bl!UserOf(d)' = Bl!UserOf(d)
      BY <1>2, <1>3, StripeStays
    <2>2. SameDeliveries
      BY <1>2 DEF SameDeliveries
    <2> QED BY <1>2, <1>3, <1>5, <2>2, BusyStays, StripeStays DEF AnsweredOf
  <1>7. Bl!TypeOK'
    <2>1. call' \in [Handlers -> BillRequest]
      BY <1>2, <1>3, CallTypes
    <2> QED BY <1>2, <1>3, <2>1, SameStripeTypes DEF Bl!TypeOK
  <1>8. WorkOK'
    BY <1>2, <1>3, <1>5, WorkKeeps DEF WorkOK
  <1>13. SettledOf(u)' \subseteq SettledOf(u) /\ AnsweredOf(u) \subseteq SettledOf(u)'
    BY <1>2, <1>6 DEF SettledOf, AnsweredOf
  <1>14. AloneOK(u)'
    <2>1. AloneOK(u)
      BY <1>3, <1>4 DEF TurnsOK
    <2> QED BY <1>2, <1>6, <2>1 DEF AloneOK, CopyOK, Found
  <1>9. \A v, g : g \in Bl!BusyWith(v) => g \in Handlers
    BY DEF Bl!BusyWith
  <1>10. ASSUME u \notin disturbed PROVE InTurn(u)' /\ Mirrored(u)' /\ KnownOK(u)'
    <2>1. InTurn(u) /\ Mirrored(u) /\ KnownOK(u)
      BY <1>3, <1>4, <1>10 DEF TurnsOK
    <2>2. InTurn(u)'
      BY <1>2, <1>6, <2>1 DEF InTurn
    <2>3. Mirrored(u)'
      BY <1>2, <1>6, <2>1 DEF Mirrored, CopyOK
    <2>4. KnownOK(u)'
      BY <1>2, <1>6, <1>13, <2>1 DEF KnownOK
    <2> QED BY <2>2, <2>3, <2>4
  <1>11. ASSUME u \notin disturbed \cup missed PROVE BlindOK(u)' /\ AppliedOK(u)'
    <2>1. BlindOK(u) /\ AppliedOK(u)
      BY <1>3, <1>4, <1>11 DEF TurnsOK
    <2>2. BlindOK(u)'
      BY <1>2, <1>6, <1>13, <2>1 DEF BlindOK
    <2>3. \A g \in Bl!BusyWith(u) : HasKey(g)' <=> HasKey(g)
      BY <1>2, <1>9 DEF HasKey
    <2>4. InOrder(u)' => InOrder(u)
      BY <1>6, <1>13 DEF InOrder
    <2>5. AppliedOK(u)'
      BY <1>2, <1>6, <2>1, <2>3, <2>4 DEF AppliedOK
    <2> QED BY <2>2, <2>5
  <1>12. TurnsOK'
    <2>1. \A d \in 1..Len(log) : d # e => (d \in processed' <=> d \in processed)
      BY <1>2
    <2>2. \A g \in Handlers : call'[g] = call[g]
      BY <1>2
    <2> QED BY <1>1, <1>2, <1>3, <1>4, <1>10, <1>11, <1>14, <2>1, <2>2, TurnsOfOthers
  <1> QED BY <1>5, <1>7, <1>8, <1>12 DEF BillInv

LEMMA CommitStep ==
  ASSUME Bl!BillingAssumption, BillInv, NEW h \in Handlers, Bl!Commit(h)
  PROVE  BillInv'
  <1>1. PICK e, u, v, kind : /\ e = call[h].e /\ u = Bl!UserOf(e)
                             /\ v = call[h].user /\ kind = log[e].kind
    OBVIOUS
  <1>2. /\ call[h].pc = "keyed" /\ Hearing(call[h])
        /\ plan' = IF call[h].hadPlan \in Bl!Plans \ {Bl!PlanAfter(kind)}
                   THEN [plan EXCEPT ![v] = Bl!PlanAfter(kind)] ELSE plan
        /\ orgPlan' = IF call[h].hadOrg \in Bl!Plans \ {Bl!PlanAfter(kind)}
                      THEN [orgPlan EXCEPT ![v] = Bl!PlanAfter(kind)] ELSE orgPlan
        /\ customer' = IF kind = "checkout" /\ call[h].hadCustomer # Bl!CustomerOf(e)
                       THEN [customer EXCEPT ![v] = Bl!CustomerOf(e)] ELSE customer
        /\ answered' = answered \cup {e}
        /\ call' = [call EXCEPT ![h] = Bl!Idle]
        /\ UNCHANGED <<owner, sessions, subs, log, processed, crossed, reopened,
                       missed, mishaps>>
        /\ disturbed' = IF Bl!PutsRight(h) THEN disturbed \ {u} ELSE disturbed
    BY <1>1 DEF Bl!Commit, Bl!At, Bl!stripeVars, Bl!ghostVars, Hearing, Bl!PlanAfter,
                Bl!OrgPlanAfter
  <1>3. Bl!TypeOK /\ WorkOK /\ HoldersOK /\ OnceOK /\ LogOK /\ TurnsOK
    BY DEF BillInv
  <1>4. /\ e \in 1..Len(log) /\ e # None /\ u \in Users /\ u # None
        /\ e \in Bl!EventsOf(u) /\ call[h] \in BillRequest
        /\ \A w : Bl!EventsOf(w) \subseteq 1..Len(log)
        /\ AloneOK(u) /\ h \in Bl!BusyWith(u)
        /\ u \notin disturbed => /\ InTurn(u) /\ Mirrored(u) /\ KnownOK(u)
                                 /\ Bl!BusyWith(u) = {h}
        /\ u \notin disturbed \cup missed => BlindOK(u) /\ AppliedOK(u)
    BY <1>1, <1>2, DeliveryFacts
  <1>5. \/ v = u /\ call[h].hadPlan \in Bl!Plans
        \/ v = None /\ kind # "checkout" /\ call[h].hadPlan = None /\ call[h].hadOrg = None
    BY <1>1, <1>2, <1>3 DEF WorkOK, DeliveryOK
  <1>6. /\ call' \in [Handlers -> BillRequest] /\ call'[h] = Bl!Idle
        /\ \A g \in Handlers \ {h} : call'[g] = call[g]
    BY <1>2, <1>3, BlIdleOK, OneCall
  <1>7. StripeGrows /\ OnceOK' /\ LogOK'
    BY <1>2, <1>3, <1>6, BlIdleOK, DeliveryRest
  <1>8. \A w : /\ Bl!EventsOf(w)' = Bl!EventsOf(w)
               /\ AnsweredOf(w)' = Bl!EventsOf(w) \cap (answered \cup {e})
               /\ SettledOf(w)' = SettledOf(w) \cup (Bl!EventsOf(w) \cap {e})
               /\ Bl!CustomersOf(w)' = Bl!CustomersOf(w)
    BY <1>2, <1>3, StripeStays DEF AnsweredOf, SettledOf
  <1>9. /\ Bl!CustomerOf(e) \in 1..Len(owner) /\ Bl!CustomerOf(e) # None
        /\ Bl!CustomerOf(e) \in Bl!CustomersOf(u) /\ kind \in Bl!Kinds
    <2>1. /\ Bl!CustomerOf(e) \in 1..Len(owner) /\ log[e].kind \in Bl!Kinds
          /\ Bl!CustomerOf(e) \in Bl!CustomersOf(Bl!UserOf(e))
      BY <1>3, <1>4, UserFacts
    <2>2. Len(owner) \in Nat
      BY <1>3 DEF Bl!TypeOK
    <2>3. Bl!CustomerOf(e) # None
      BY <2>1, <2>2 DEF Bl!BillingAssumption
    <2> QED BY <1>1, <2>1, <2>3
  <1>10. Bl!PlanAfter(kind) \in Bl!Plans /\ None \notin Bl!Plans
    BY DEF Bl!PlanAfter, Bl!Plans, Bl!BillingAssumption
  <1>11. /\ plan' \in [Users -> Bl!Plans] /\ orgPlan' \in [Users -> Bl!Plans]
         /\ \A w \in Users \ {u} : plan'[w] = plan[w] /\ orgPlan'[w] = orgPlan[w]
    BY <1>2, <1>3, <1>4, <1>5, <1>10 DEF Bl!TypeOK
  <1>12. /\ customer' \in [Users -> 1..Len(owner) \cup {None}]
         /\ \A w \in Users : \/ customer'[w] = customer[w]
                             \/ w = u /\ customer'[w] = Bl!CustomerOf(e)
         /\ kind = "checkout" =>
              customer'[u] = Bl!CustomerOf(e) \/ call[h].hadCustomer = Bl!CustomerOf(e)
    BY <1>2, <1>3, <1>4, <1>5, <1>9 DEF Bl!TypeOK
  <1>13. Bl!TypeOK'
    <2>1. /\ answered' \subseteq 1..Len(log) /\ crossed' \subseteq Handlers
          /\ {disturbed', reopened', missed'} \subseteq SUBSET Users
      BY <1>2, <1>3, <1>4 DEF Bl!TypeOK
    <2> QED BY <1>2, <1>3, <1>6, <1>11, <1>12, <2>1, SameStripeTypes DEF Bl!TypeOK
  <1>14. WorkOK'
    <2>1. CheckoutOK(call[h])' /\ DeliveryOK(call[h])'
      BY <1>6, BlIdleOK DEF CheckoutOK, DeliveryOK, Paying, Hearing
    <2> QED BY <1>3, <1>6, <1>7, <2>1, WorkStays
  <1>15. HoldersOK'
    BY <1>3, <1>8, <1>9, <1>12 DEF HoldersOK
  <1>19. AloneOK(u)' /\ (h \notin crossed => Bl!BusyWith(u) = {h} /\ CopyOK(h, u))
    <2>1. call'[h].e = None /\ (customer[u] # None => customer'[u] # None)
      BY <1>4, <1>6, <1>9, <1>12, BlIdleOK
    <2>2. AloneOK(u)'
      BY <1>2, <1>3, <1>4, <1>6, <2>1, AloneStep
    <2> QED BY <1>4, <2>2 DEF AloneOK
  \* The newest event, handled alone, puts both rows and the customer right.
  <1>20. ASSUME Bl!PutsRight(h)
         PROVE  /\ InTurn(u)' /\ Mirrored(u)' /\ KnownOK(u)' /\ BlindOK(u)' /\ AppliedOK(u)'
    <2>1. /\ h \notin crossed /\ call[h].hadOrg # None
          /\ \A d \in Bl!EventsOf(u) : d <= e
      BY <1>1, <1>20 DEF Bl!PutsRight
    <2>2. /\ v = u /\ call[h].hadPlan \in Bl!Plans /\ call[h].hadPlan = plan[u]
          /\ call[h].hadOrg = orgPlan[u] /\ Bl!BusyWith(u) = {h}
      BY <1>1, <1>2, <1>5, <1>19, <2>1 DEF CopyOK
    <2>3. plan'[u] = Bl!PlanAfter(kind) /\ orgPlan'[u] = Bl!PlanAfter(kind)
      BY <1>2, <1>3, <1>4, <2>2 DEF Bl!TypeOK
    <2>4. Bl!BusyWith(u)' = {}
      BY <1>2, <1>3, <1>4, <1>6, <2>2, BlIdleOK, BusyAfter
    <2>5. e \in AnsweredOf(u)' /\ Len(log) \in Nat
      BY <1>3, <1>4, <1>8 DEF Bl!TypeOK
    <2>6. \A d \in Bl!EventsOf(u) : d = e \/ e > d
      BY <1>4, <2>1, <2>5
    <2>7. InTurn(u)'
      BY <1>2, <1>8, <2>4, <2>5, <2>6 DEF InTurn
    <2>8. customer'[u] # None
      <3>1. CASE Found(h, u)
        BY <1>4, <1>9, <1>12, <3>1 DEF AloneOK
      <3>2. CASE ~Found(h, u)
        BY <1>1, <1>9, <1>12, <2>2, <3>2 DEF Found
      <3> QED BY <3>1, <3>2
    <2>9. Mirrored(u)' /\ KnownOK(u)' /\ BlindOK(u)'
      BY <2>3, <2>4, <2>8 DEF Mirrored, KnownOK, BlindOK
    <2>10. \A a \in AnsweredOf(u)' : Last(a, AnsweredOf(u))' => a = e
      BY <1>8, <2>5, <2>6, <1>4 DEF Last
    <2>11. AppliedOK(u)'
      <3>1. log'[e].kind = kind
        BY <1>1, <1>2
      <3> QED BY <2>3, <2>5, <2>10, <3>1 DEF AppliedOK, Bl!PlanAfter
    <2> QED BY <2>7, <2>9, <2>11
  <1>16. ASSUME u \notin disturbed
         PROVE  InTurn(u)' /\ Mirrored(u)' /\ KnownOK(u)' /\ Bl!BusyWith(u)' = {}
    <2>1. InTurn(u) /\ Mirrored(u) /\ KnownOK(u) /\ Bl!BusyWith(u) = {h}
      BY <1>4, <1>16
    <2>2. Bl!BusyWith(u)' = {}
      BY <1>2, <1>3, <1>4, <1>6, <2>1, BlIdleOK, BusyAfter
    <2>3. InTurn(u)'
      <3>1. ASSUME NEW d \in Bl!EventsOf(u) \cap processed
            PROVE  d \in answered' \/ \E a \in AnsweredOf(u)' : a > d
        <4>1. CASE d \in answered
          BY <1>2, <4>1
        <4>3. ASSUME NEW a \in AnsweredOf(u), a > d PROVE a \in AnsweredOf(u)' /\ a > d
          BY <1>8, <4>3 DEF AnsweredOf
        <4>2. ASSUME NEW g \in Handlers, call[g].e = d PROVE d \in answered'
          <5>1. g \in Bl!BusyWith(u)
            BY <1>4, <4>2 DEF Bl!BusyWith, Bl!EventsOf, Bl!BillingAssumption, Bl!TypeOK
          <5> QED BY <1>1, <1>2, <2>1, <4>2, <5>1
        <4> QED BY <2>1, <4>1, <4>2, <4>3 DEF InTurn
      <3> QED BY <1>2, <1>8, <2>2, <3>1 DEF InTurn
    <2>4. orgPlan'[u] = plan'[u]
      <3>1. CASE v = u /\ call[h].hadPlan \in Bl!Plans
        <4>1. call[h].hadPlan = plan[u] /\ orgPlan[u] = plan[u]
          BY <1>1, <2>1, <3>1 DEF Mirrored, CopyOK
        <4>2. plan'[u] = Bl!PlanAfter(kind)
          BY <1>2, <1>3, <1>4, <3>1, <4>1 DEF Bl!TypeOK
        <4>3. \/ call[h].hadOrg = orgPlan[u]
              \/ kind = "active" /\ plan[u] = "pro" /\ call[h].hadOrg = None
          BY <1>1, <1>2, <2>1, <3>1 DEF Mirrored, CopyOK
        <4>4. CASE call[h].hadOrg = orgPlan[u]
          <5>1. orgPlan[u] \in Bl!Plans
            BY <1>3, <1>4 DEF Bl!TypeOK
          <5> QED BY <1>2, <1>3, <1>4, <3>1, <4>2, <4>4, <5>1 DEF Bl!TypeOK
        <4>5. CASE kind = "active" /\ plan[u] = "pro" /\ call[h].hadOrg = None
          <5>1. Bl!PlanAfter(kind) = "pro"
            BY <4>5 DEF Bl!PlanAfter
          <5>2. orgPlan'[u] = orgPlan[u]
            BY <1>2, <1>10, <4>5
          <5> QED BY <4>1, <4>2, <4>5, <5>1, <5>2
        <4> QED BY <4>3, <4>4, <4>5
      <3>2. CASE call[h].hadPlan = None /\ call[h].hadOrg = None
        BY <1>2, <1>10, <2>1, <3>2 DEF Mirrored
      <3> QED BY <1>5, <3>1, <3>2
    <2>5. Mirrored(u)'
      BY <2>2, <2>4 DEF Mirrored
    <2>6. KnownOK(u)'
      <3>1. ASSUME NEW d \in SettledOf(u)', log'[d].kind = "checkout" PROVE customer'[u] # None
        <4>1. CASE d = e
          <5>1. kind = "checkout" /\ v = u
            BY <1>1, <1>2, <1>5, <3>1, <4>1
          <5>2. CASE customer'[u] = Bl!CustomerOf(e)
            BY <1>9, <5>2
          <5>3. CASE call[h].hadCustomer = Bl!CustomerOf(e)
            <6>1. customer[u] # None
              BY <1>9, <2>1, <5>3 DEF KnownOK
            <6> QED BY <1>4, <1>9, <1>12, <6>1
          <5> QED BY <1>12, <5>1, <5>2, <5>3
        <4>2. CASE d # e
          <5>1. d \in SettledOf(u) /\ d \in Bl!EventsOf(u) /\ log[d].kind = "checkout"
            BY <1>2, <1>8, <3>1, <4>2 DEF SettledOf
          <5>2. \A g \in Handlers : call[g].e # d
            <6>1. ASSUME NEW g \in Handlers, call[g].e = d PROVE FALSE
              <7>1. g \in Bl!BusyWith(u)
                BY <1>4, <5>1, <6>1
                   DEF Bl!BusyWith, Bl!EventsOf, Bl!BillingAssumption, Bl!TypeOK
              <7> QED BY <1>1, <2>1, <4>2, <6>1, <7>1
            <6> QED BY <6>1
          <5>3. customer[u] # None
            BY <2>1, <5>1, <5>2 DEF KnownOK
          <5> QED BY <1>4, <1>9, <1>12, <5>3
        <4> QED BY <4>1, <4>2
      <3> QED BY <2>2, <3>1 DEF KnownOK
    <2> QED BY <2>2, <2>3, <2>5, <2>6
  <1>17. ASSUME u \notin disturbed \cup missed PROVE BlindOK(u)' /\ AppliedOK(u)'
    <2>1. /\ InTurn(u) /\ Mirrored(u) /\ BlindOK(u)
          /\ Bl!BusyWith(u) = {h} /\ Bl!BusyWith(u)' = {}
      BY <1>4, <1>16, <1>17
    <2>2. BlindOK(u)'
      BY <2>1 DEF BlindOK
    <2>3. e \in AnsweredOf(u)' /\ Len(log) \in Nat
      BY <1>3, <1>4, <1>8 DEF Bl!TypeOK
    <2>4. ASSUME NEW a \in AnsweredOf(u)', Last(a, AnsweredOf(u))' PROVE a = e
      <3>1. CASE a \in AnsweredOf(u)
        <4>1. a <= e /\ e <= a
          BY <1>1, <2>1, <2>3, <2>4, <3>1 DEF InTurn, Last
        <4>2. a \in Int /\ e \in Int
          BY <1>4, <2>3, <3>1 DEF AnsweredOf
        <4> QED BY <4>1, <4>2
      <3> QED BY <1>8, <3>1 DEF AnsweredOf
    <2>5. ASSUME InOrder(u)' PROVE plan'[u] = Bl!PlanAfter(kind)
      <3>1. CASE v = u /\ call[h].hadPlan \in Bl!Plans
        <4>1. call[h].hadPlan = plan[u]
          BY <1>1, <2>1, <3>1 DEF Mirrored, CopyOK
        <4> QED BY <1>2, <1>3, <1>4, <3>1, <4>1 DEF Bl!TypeOK
      <3>2. CASE v = None
        <4>1. PICK d \in Bl!EventsOf(u) \ SettledOf(u) : d < e
          BY <1>1, <1>2, <2>1, <3>2 DEF BlindOK
        <4>2. d \in SettledOf(u)'
          BY <1>8, <2>3, <2>5, <4>1 DEF InOrder
        <4>3. d # e
          BY <1>4, <2>3, <4>1
        <4> QED BY <1>8, <4>1, <4>2, <4>3
      <3> QED BY <1>5, <3>1, <3>2
    <2>6. AppliedOK(u)'
      <3>1. log'[e].kind = kind
        BY <1>1, <1>2
      <3> QED BY <2>3, <2>4, <2>5, <3>1 DEF AppliedOK, Bl!PlanAfter
    <2> QED BY <2>2, <2>6
  <1>21. /\ u \notin disturbed' => InTurn(u)' /\ Mirrored(u)' /\ KnownOK(u)'
         /\ u \notin disturbed' \cup missed' => BlindOK(u)' /\ AppliedOK(u)'
    BY <1>2, <1>16, <1>17, <1>20
  <1>18. TurnsOK'
    <2>1. \A g \in Handlers : \/ call'[g] = call[g]
                              \/ Concerns(call[g], u) /\ Concerns(call'[g], u)
      BY <1>1, <1>6, BlIdleOK DEF Concerns
    <2>2. \A d \in 1..Len(log) : d # e => (d \in answered' <=> d \in answered)
      BY <1>2
    <2>3. \A w \in Users \ {u} : /\ plan'[w] = plan[w] /\ orgPlan'[w] = orgPlan[w]
                                 /\ customer[w] # None => customer'[w] # None
      BY <1>11, <1>12
    <2>4. disturbed \ {u} \subseteq disturbed'
      BY <1>2
    <2> QED BY <1>1, <1>2, <1>3, <1>4, <1>19, <1>21, <2>1, <2>2, <2>3, <2>4, TurnsOfOthers
  <1> QED BY <1>7, <1>13, <1>14, <1>15, <1>18 DEF BillInv

LEMMA FailStep ==
  ASSUME Bl!BillingAssumption, BillInv, NEW h \in Handlers, Bl!Fail(h)
  PROVE  BillInv'
  <1>1. PICK e, u : e = call[h].e /\ u = Bl!UserOf(e)
    OBVIOUS
  <1>2. /\ call[h].pc # "idle" /\ Bl!Mishap
        /\ call' = [call EXCEPT ![h] = Bl!Idle]
        /\ disturbed' = IF e \in processed THEN disturbed \cup {u} ELSE disturbed
        /\ UNCHANGED <<owner, sessions, subs, log, answered, customer, plan, orgPlan,
                       processed, crossed, reopened, missed>>
    BY <1>1 DEF Bl!Fail, Bl!At, Bl!stripeVars, Bl!rowVars
  <1>3. Bl!TypeOK /\ WorkOK /\ HoldersOK /\ OnceOK /\ LogOK /\ TurnsOK
    BY DEF BillInv
  <1>4. /\ call' \in [Handlers -> BillRequest] /\ call'[h] = Bl!Idle
        /\ \A g \in Handlers \ {h} : call'[g] = call[g]
    BY <1>2, <1>3, BlIdleOK, OneCall
  <1>5. StripeGrows /\ OnceOK' /\ LogOK' /\ HoldersOK'
    BY <1>2, <1>3, <1>4, BlIdleOK, DeliveryRest
  <1>6. mishaps' \in 0..MaxMishaps
    BY <1>2, <1>3 DEF Bl!Mishap, Bl!TypeOK, Bl!BillingAssumption
  <1>7. WorkOK'
    <2>1. CheckoutOK(call[h])' /\ DeliveryOK(call[h])'
      BY <1>4, BlIdleOK DEF CheckoutOK, DeliveryOK, Paying, Hearing
    <2> QED BY <1>3, <1>4, <1>5, <2>1, WorkStays
  <1>8. CASE e = None
    <2>1. e \notin processed
      <3>1. processed \subseteq 1..Len(log) /\ Len(log) \in Nat
        BY <1>3 DEF Bl!TypeOK
      <3>2. None \notin 1..Len(log)
        BY <3>1 DEF Bl!BillingAssumption
      <3> QED BY <1>8, <3>1, <3>2
    <2>2. SameDeliveries /\ disturbed' = disturbed
      BY <1>1, <1>2, <1>4, <1>8, <2>1, BlIdleOK DEF SameDeliveries
    <2>3. TurnsOK'
      BY <1>2, <1>3, <1>5, <2>2, TurnsStay
    <2>4. Bl!TypeOK'
      BY <1>2, <1>3, <1>4, <1>6, <2>2, SameStripeTypes DEF Bl!TypeOK
    <2> QED BY <1>5, <1>7, <2>3, <2>4 DEF BillInv
  <1>9. CASE e # None
    <2>1. /\ e \in 1..Len(log) /\ u \in Users
          /\ e \in Bl!EventsOf(u) /\ Hearing(call[h])
          /\ \A w : Bl!EventsOf(w) \subseteq 1..Len(log)
          /\ AloneOK(u) /\ h \in Bl!BusyWith(u)
          /\ u \notin disturbed => /\ InTurn(u) /\ Mirrored(u) /\ KnownOK(u)
                                   /\ Bl!BusyWith(u) = {h}
          /\ u \notin disturbed \cup missed => BlindOK(u) /\ AppliedOK(u)
      <3>1. Hearing(call[h])
        BY <1>1, <1>3, <1>9, BusyFacts
      <3> QED BY <1>1, <3>1, DeliveryFacts
    <2>2. Bl!TypeOK'
      <3>1. {disturbed', reopened', missed'} \subseteq SUBSET Users
        BY <1>2, <1>3, <2>1 DEF Bl!TypeOK
      <3>2. /\ sessions' \in [Bl!Customers -> Nat] /\ answered' \subseteq 1..Len(log)
            /\ customer' \in [Users -> 1..Len(owner) \cup {None}]
            /\ plan' \in [Users -> Bl!Plans] /\ orgPlan' \in [Users -> Bl!Plans]
            /\ processed' \subseteq 1..Len(log) /\ crossed' \subseteq Handlers
        BY <1>2, <1>3 DEF Bl!TypeOK
      <3> QED BY <1>2, <1>3, <1>4, <1>6, <3>1, <3>2, SameStripeTypes
    <2>3. \A w : /\ Bl!EventsOf(w)' = Bl!EventsOf(w) /\ AnsweredOf(w)' = AnsweredOf(w)
                 /\ SettledOf(w)' = SettledOf(w)
      BY <1>2, <1>3, StripeStays DEF AnsweredOf, SettledOf
    <2>4. ASSUME u \notin disturbed'
          PROVE  /\ InTurn(u)' /\ Mirrored(u)' /\ KnownOK(u)' /\ Bl!BusyWith(u)' = {}
                 /\ u \notin disturbed /\ e \notin processed
      <3>1. /\ u \notin disturbed /\ e \notin processed
            /\ InTurn(u) /\ Mirrored(u) /\ KnownOK(u) /\ Bl!BusyWith(u) = {h}
        BY <1>2, <2>1, <2>4
      <3>2. Bl!BusyWith(u)' = {}
        BY <1>2, <1>3, <1>4, <3>1, BlIdleOK, BusyAfter
      <3>3. \A d \in Bl!EventsOf(u) : \A g \in Handlers : call[g].e = d => d = e
        <4>1. ASSUME NEW d \in Bl!EventsOf(u), NEW g \in Handlers, call[g].e = d PROVE d = e
          <5>1. g \in Bl!BusyWith(u)
            BY <4>1 DEF Bl!BusyWith, Bl!EventsOf, Bl!BillingAssumption, Bl!TypeOK
          <5> QED BY <1>1, <3>1, <4>1, <5>1
        <4> QED BY <4>1
      <3>4. InTurn(u)'
        BY <1>2, <2>3, <3>1, <3>2, <3>3 DEF InTurn
      <3>5. Mirrored(u)'
        BY <1>2, <3>1, <3>2 DEF Mirrored
      <3>6. KnownOK(u)'
        <4>1. SettledOf(u) \subseteq Bl!EventsOf(u)
          BY DEF SettledOf
        <4> QED BY <1>2, <2>3, <3>1, <3>2, <3>3, <4>1 DEF KnownOK
      <3> QED BY <3>1, <3>2, <3>4, <3>5, <3>6
    <2>5. ASSUME u \notin disturbed' \cup missed' PROVE BlindOK(u)' /\ AppliedOK(u)'
      <3>1. /\ Bl!BusyWith(u)' = {} /\ Bl!BusyWith(u) = {h} /\ e \notin processed
            /\ AppliedOK(u)
        BY <1>2, <2>1, <2>4, <2>5
      <3>2. BlindOK(u)'
        BY <3>1 DEF BlindOK
      <3>3. \A g \in Bl!BusyWith(u) : ~HasKey(g)
        BY <1>1, <3>1 DEF HasKey
      <3>4. InOrder(u)' <=> InOrder(u)
        BY <1>2, <2>3 DEF InOrder
      <3>5. AppliedOK(u)'
        BY <1>2, <2>3, <3>1, <3>3, <3>4 DEF AppliedOK
      <3> QED BY <3>2, <3>5
    <2>6. TurnsOK'
      <3>1. \A g \in Handlers : \/ call'[g] = call[g]
                                \/ Concerns(call[g], u) /\ Concerns(call'[g], u)
        BY <1>1, <1>4, BlIdleOK DEF Concerns
      <3>2. disturbed \subseteq disturbed'
        BY <1>2
      <3>3. AloneOK(u)'
        BY <1>1, <1>2, <1>3, <1>4, <2>1, BlIdleOK, AloneStep
      <3> QED BY <1>1, <1>2, <1>3, <2>1, <2>4, <2>5, <3>1, <3>2, <3>3, TurnsOfOthers
    <2> QED BY <1>5, <1>7, <2>2, <2>6 DEF BillInv
  <1> QED BY <1>8, <1>9

LEMMA DeliverStep ==
  ASSUME Bl!BillingAssumption, BillInv, NEW h \in Handlers, NEW e \in 1..Len(log),
         Bl!Deliver(h, e)
  PROVE  BillInv'
  <1>1. PICK u : u = Bl!UserOf(e)
    OBVIOUS
  <1>2. /\ call[h].pc = "idle"
        /\ Bl!Mishap \/ Bl!NoMishap
        /\ \/ e \in processed /\ answered' = answered \cup {e} /\ UNCHANGED <<call, disturbed, crossed>>
           \/ Bl!Start(h, e) /\ UNCHANGED answered
        /\ UNCHANGED <<owner, sessions, subs, log, customer, plan, orgPlan, processed,
                       reopened, missed>>
    BY DEF Bl!Deliver, Bl!At, Bl!stripeVars, Bl!rowVars
  <1>3. Bl!TypeOK /\ WorkOK /\ HoldersOK /\ OnceOK /\ LogOK /\ TurnsOK
    BY DEF BillInv
  <1>4. /\ u \in Users /\ e \in Bl!EventsOf(u) /\ Len(log) \in Nat /\ e # None
        /\ \A w : Bl!EventsOf(w) \subseteq 1..Len(log)
    <2>1. Len(log) \in Nat
      BY <1>3 DEF Bl!TypeOK
    <2>2. e # None
      BY <2>1 DEF Bl!BillingAssumption
    <2> QED BY <1>1, <1>3, <2>1, <2>2, UserFacts DEF Bl!EventsOf
  <1>5. mishaps' \in 0..MaxMishaps
    <2>1. mishaps \in 0..MaxMishaps /\ MaxMishaps \in Nat
      BY <1>3 DEF Bl!TypeOK, Bl!BillingAssumption
    <2>2. CASE Bl!Mishap
      BY <2>1, <2>2 DEF Bl!Mishap
    <2>3. CASE Bl!NoMishap
      BY <2>1, <2>3 DEF Bl!NoMishap
    <2> QED BY <1>2, <2>2, <2>3
  <1>6. \A d \in Bl!EventsOf(u), g \in Handlers : call[g].e = d => g \in Bl!BusyWith(u)
    <2>1. ASSUME NEW d \in Bl!EventsOf(u), NEW g \in Handlers, call[g].e = d
          PROVE  g \in Bl!BusyWith(u)
      <3>1. d # None /\ Bl!UserOf(d) = u
        BY <1>4 DEF Bl!EventsOf, Bl!BillingAssumption
      <3> QED BY <2>1, <3>1 DEF Bl!BusyWith
    <2> QED BY <2>1
  <1>7. CASE /\ e \in processed /\ answered' = answered \cup {e}
             /\ UNCHANGED <<call, disturbed, crossed>>
    <2>1. /\ call' \in [Handlers -> BillRequest] /\ \A g \in Handlers : call'[g] = call[g]
          /\ answered' \subseteq 1..Len(log)
      <3>1. answered \subseteq 1..Len(log)
        BY <1>3 DEF Bl!TypeOK
      <3> QED BY <1>3, <1>7, <3>1, CallTypes
    <2>2. StripeGrows /\ OnceOK' /\ LogOK' /\ HoldersOK'
      BY <1>2, <1>3, <2>1, DeliveryRest
    <2>3. Bl!TypeOK'
      BY <1>2, <1>3, <1>5, <1>7, <2>1, SameStripeTypes DEF Bl!TypeOK
    <2>4. WorkOK'
      BY <1>3, <2>1, <2>2, WorkKeeps DEF WorkOK
    <2>5. CASE e \in answered
      <3>1. SameDeliveries /\ answered' = answered
        BY <1>7, <2>1, <2>5 DEF SameDeliveries
      <3>2. TurnsOK'
        BY <1>2, <1>3, <1>7, <2>2, <3>1, TurnsStay
      <3> QED BY <2>2, <2>3, <2>4, <3>2 DEF BillInv
    <2>6. CASE e \notin answered
      <3>1. /\ Bl!EventsOf(u)' = Bl!EventsOf(u)
            /\ AnsweredOf(u)' = AnsweredOf(u) \cup {e}
            /\ SettledOf(u)' = SettledOf(u)
        BY <1>2, <1>3, <1>4, <1>7, StripeStays DEF AnsweredOf, SettledOf
      <3>2. Bl!BusyWith(u)' = Bl!BusyWith(u)
        <4>1. SameDeliveries
          BY <2>1 DEF SameDeliveries
        <4> QED BY <1>3, <2>2, <4>1, BusyStays
      <3>3. ASSUME u \notin disturbed
            PROVE  /\ InTurn(u)' /\ Mirrored(u)' /\ KnownOK(u)'
                   /\ \/ \E g \in Handlers : call[g].e = e /\ Bl!BusyWith(u) = {g}
                      \/ \E a \in AnsweredOf(u) : a > e
        <4>1. InTurn(u) /\ Mirrored(u) /\ KnownOK(u)
          BY <1>3, <1>4, <3>3 DEF TurnsOK
        <4>2. \/ \E g \in Handlers : call[g].e = e /\ Bl!BusyWith(u) = {g}
              \/ \E a \in AnsweredOf(u) : a > e
          BY <1>4, <1>6, <1>7, <2>6, <4>1 DEF InTurn
        <4>4. InTurn(u)'
          <5>1. \A g \in Bl!BusyWith(u), d \in AnsweredOf(u)' : d <= call[g].e
            <6>1. ASSUME NEW g \in Bl!BusyWith(u) PROVE e <= call[g].e
              <7>1. call[g].e \in 1..Len(log)
                BY <1>3, BusyFacts
              <7>2. CASE \E f \in Handlers : call[f].e = e /\ Bl!BusyWith(u) = {f}
                BY <1>4, <7>2
              <7>3. ASSUME NEW a \in AnsweredOf(u), a > e PROVE e <= call[g].e
                <8>1. a <= call[g].e /\ a \in 1..Len(log)
                  BY <1>4, <4>1 DEF InTurn, AnsweredOf
                <8> QED BY <1>4, <7>1, <7>3, <8>1
              <7> QED BY <4>2, <7>2, <7>3
            <6> QED BY <3>1, <4>1, <6>1 DEF InTurn
          <5>2. \A d \in Bl!EventsOf(u) \cap processed :
                  \/ d \in answered' \/ \E a \in AnsweredOf(u)' : a > d
                  \/ \E f \in Handlers : call[f].e = d /\ call[f].pc = "keyed"
            BY <1>7, <3>1, <4>1 DEF InTurn
          <5> QED BY <1>2, <1>7, <3>1, <3>2, <4>1, <5>1, <5>2 DEF InTurn
        <4>5. Mirrored(u)'
          BY <1>2, <1>7, <3>2, <4>1 DEF Mirrored, CopyOK
        <4>6. KnownOK(u)'
          <5>1. \A f \in Bl!BusyWith(u)' : call'[f].hadCustomer # None => customer'[u] # None
            BY <1>2, <1>7, <3>2, <4>1 DEF KnownOK
          <5> QED BY <1>2, <1>7, <3>1, <4>1, <5>1 DEF KnownOK
        <4> QED BY <4>2, <4>4, <4>5, <4>6
      <3>4. ASSUME u \notin disturbed \cup missed PROVE BlindOK(u)' /\ AppliedOK(u)'
        <4>2. BlindOK(u) /\ AppliedOK(u)
          BY <1>3, <1>4, <3>4 DEF TurnsOK
        <4>4. BlindOK(u)'
          BY <1>7, <3>1, <3>2, <4>2 DEF BlindOK
        <4>1. CASE \E g \in Handlers : call[g].e = e /\ Bl!BusyWith(u) = {g}
          <5>1. \E g \in Bl!BusyWith(u)' : HasKey(g)'
            BY <1>2, <1>7, <3>2, <4>1 DEF HasKey
          <5> QED BY <4>4, <5>1 DEF AppliedOK
        <4>3. ASSUME NEW a \in AnsweredOf(u), a > e PROVE AppliedOK(u)'
          <5>1. a \in 1..Len(log)
            BY <1>4 DEF AnsweredOf
          <5>2. \A c \in AnsweredOf(u)' : Last(c, AnsweredOf(u))' => Last(c, AnsweredOf(u))
            BY <1>4, <3>1, <4>3, <5>1 DEF Last
          <5>3. InOrder(u)' => InOrder(u)
            BY <3>1 DEF InOrder
          <5>4. \A g \in Bl!BusyWith(u) : HasKey(g)' <=> HasKey(g)
            BY <1>2, <1>7 DEF HasKey
          <5>5. \A c \in AnsweredOf(u)' : Last(c, AnsweredOf(u)) => c \in AnsweredOf(u)
            BY DEF Last
          <5> QED BY <1>2, <1>7, <3>1, <3>2, <4>2, <5>2, <5>3, <5>4, <5>5 DEF AppliedOK
        <4> QED BY <3>3, <3>4, <4>1, <4>3, <4>4
      <3>5. \A d \in 1..Len(log) : d # e => (d \in answered' <=> d \in answered)
        BY <1>7
      <3>7. AloneOK(u)'
        <4>1. AloneOK(u)
          BY <1>3, <1>4 DEF TurnsOK
        <4> QED BY <1>2, <1>7, <3>2, <4>1 DEF AloneOK, CopyOK, Found
      <3>6. TurnsOK'
        BY <1>1, <1>2, <1>3, <1>7, <2>1, <3>3, <3>4, <3>5, <3>7, TurnsOfOthers
      <3> QED BY <2>2, <2>3, <2>4, <3>6 DEF BillInv
    <2> QED BY <2>5, <2>6
  <1>8. CASE Bl!Start(h, e) /\ UNCHANGED answered
    <2>1. PICK s : /\ call' = [call EXCEPT ![h] = s] /\ s \in BillRequest
                   /\ s.pc = "fresh" /\ s.e = e /\ s.user = None /\ s.hadPlan = None
                   /\ s.hadOrg = None /\ s.hadCustomer = None
      <3>1. PICK s : s = [Bl!Idle EXCEPT !.pc = "fresh", !.e = e]
        OBVIOUS
      <3>2. call' = [call EXCEPT ![h] = s]
        BY <1>8, <3>1 DEF Bl!Start
      <3>3. e \in Bl!EventIds
        BY <1>3, <1>4 DEF Bl!TypeOK, Bl!EventIds, Bl!BillingAssumption
      <3>4. /\ s \in BillRequest
            /\ s.pc = "fresh" /\ s.e = e /\ s.user = None /\ s.hadPlan = None
            /\ s.hadOrg = None /\ s.hadCustomer = None
        BY <3>1, <3>3 DEF Bl!Idle, BillRequest
      <3> QED BY <3>2, <3>4
    <2>2. /\ call' \in [Handlers -> BillRequest] /\ call'[h] = s
          /\ \A g \in Handlers \ {h} : call'[g] = call[g]
      BY <1>3, <2>1, OneCall
    <2>3. /\ disturbed \subseteq disturbed' /\ disturbed' \subseteq disturbed \cup {u}
          /\ u \notin disturbed' => Bl!BusyWith(u) = {} /\ ~Bl!Overtaken(e)
      BY <1>1, <1>8 DEF Bl!Start
    <2>4. StripeGrows /\ OnceOK' /\ LogOK' /\ HoldersOK'
      BY <1>2, <1>3, <2>1, <2>2, DeliveryRest
    <2>5. Bl!TypeOK'
      <3>1. disturbed' \subseteq Users /\ crossed' \subseteq Handlers
        BY <1>3, <1>4, <1>8, <2>3 DEF Bl!TypeOK, Bl!Start, Bl!BusyWith
      <3> QED BY <1>2, <1>3, <1>5, <1>8, <2>2, <3>1, SameStripeTypes DEF Bl!TypeOK
    <2>6. WorkOK'
      <3>1. CheckoutOK(call[h])'
        BY <2>1, <2>2 DEF CheckoutOK, Paying
      <3>2. DeliveryOK(call[h])'
        BY <1>2, <2>1, <2>2 DEF DeliveryOK, Hearing
      <3> QED BY <1>3, <2>2, <2>4, <3>1, <3>2, WorkStays
    <2>7. /\ Bl!EventsOf(u)' = Bl!EventsOf(u) /\ AnsweredOf(u)' = AnsweredOf(u)
          /\ SettledOf(u)' = SettledOf(u)
      BY <1>2, <1>3, <1>8, StripeStays DEF AnsweredOf, SettledOf
    <2>11. AloneOK(u)'
      <3>1. call[h].e = None
        BY <1>2, <1>3 DEF WorkOK, DeliveryOK
      <3>2. ASSUME NEW g \in Bl!BusyWith(u)', g # h
            PROVE  g \in Bl!BusyWith(u) /\ call'[g] = call[g]
        BY <1>2, <2>2, <3>2 DEF Bl!BusyWith, Bl!UserOf, Bl!CustomerOf
      <3>3. ~Found(h, u)'
        BY <1>4, <2>1, <2>2 DEF Found
      <3>4. CopyOK(h, u)'
        BY <1>4, <2>1, <2>2 DEF CopyOK
      <3>5. CASE Bl!BusyWith(u) = {}
        <4>1. Bl!BusyWith(u)' = {h}
          BY <1>1, <1>2, <1>3, <1>4, <2>1, <2>2, <3>5, BusyAfter
        <4> QED BY <3>3, <3>4, <4>1 DEF AloneOK
      <3>6. CASE Bl!BusyWith(u) # {}
        <4>1. Bl!BusyWith(u) \subseteq crossed' /\ h \in crossed'
          BY <1>1, <1>8, <3>6 DEF Bl!Start
        <4>2. AloneOK(u)
          BY <1>3, <1>4 DEF TurnsOK
        <4>3. \A g \in Bl!BusyWith(u)' \ {h} : Found(g, u)' => customer'[u] # None
          BY <1>2, <3>2, <4>2 DEF AloneOK, Found
        <4> QED BY <3>2, <3>3, <4>1, <4>3 DEF AloneOK
      <3> QED BY <3>5, <3>6
    <2>12. \A g \in Handlers : call'[g] = call[g] /\ g \notin crossed' => g \notin crossed
      <3>1. call[h].e = None /\ call'[h] # call[h]
        BY <1>2, <1>3, <1>4, <2>1, <2>2 DEF WorkOK, DeliveryOK
      <3> QED BY <1>8, <3>1 DEF Bl!Start
    <2>8. ASSUME u \notin disturbed'
          PROVE  /\ InTurn(u)' /\ Mirrored(u)' /\ KnownOK(u)'
                 /\ Bl!BusyWith(u) = {} /\ Bl!BusyWith(u)' = {h}
      <3>1. /\ Bl!BusyWith(u) = {} /\ ~Bl!Overtaken(e)
            /\ InTurn(u) /\ Mirrored(u) /\ KnownOK(u)
        BY <1>3, <1>4, <2>3, <2>8 DEF TurnsOK
      <3>2. Bl!BusyWith(u)' = {h}
        BY <1>1, <1>2, <1>3, <1>4, <2>1, <2>2, <3>1, BusyAfter
      <3>3. \A d \in Bl!EventsOf(u), g \in Handlers : call[g].e # d
        BY <1>6, <3>1
      <3>4. InTurn(u)'
        <4>1. \A d \in AnsweredOf(u) : d <= e
          <5>1. ASSUME NEW d \in AnsweredOf(u) PROVE d <= e
            <6>1. ~(d > e) /\ d \in 1..Len(log)
              BY <1>1, <1>4, <3>1 DEF Bl!Overtaken, AnsweredOf
            <6> QED BY <1>4, <6>1
          <5> QED BY <5>1
        <4>2. \A d \in Bl!EventsOf(u) \cap processed :
                d \in answered \/ \E a \in AnsweredOf(u) : a > d
          BY <3>1, <3>3 DEF InTurn
        <4> QED BY <1>2, <1>8, <2>1, <2>2, <2>7, <3>2, <4>1, <4>2 DEF InTurn
      <3>5. Mirrored(u)'
        <4>1. u # None
          BY <1>4 DEF Bl!BillingAssumption
        <4> QED BY <1>2, <2>1, <2>2, <3>1, <3>2, <4>1 DEF Mirrored, CopyOK
      <3>6. KnownOK(u)'
        <4>1. SettledOf(u) \subseteq Bl!EventsOf(u)
          BY DEF SettledOf
        <4>2. \A d \in SettledOf(u) : log[d].kind = "checkout" => customer[u] # None
          BY <3>1, <3>3, <4>1 DEF KnownOK
        <4> QED BY <1>2, <2>1, <2>2, <2>7, <3>2, <4>2 DEF KnownOK
      <3> QED BY <3>1, <3>2, <3>4, <3>5, <3>6
    <2>9. ASSUME u \notin disturbed' \cup missed' PROVE BlindOK(u)' /\ AppliedOK(u)'
      <3>1. Bl!BusyWith(u) = {} /\ Bl!BusyWith(u)' = {h} /\ AppliedOK(u)
        BY <1>2, <1>3, <1>4, <2>3, <2>8, <2>9 DEF TurnsOK
      <3>2. BlindOK(u)'
        BY <2>1, <2>2, <3>1 DEF BlindOK
      <3>3. InOrder(u)' <=> InOrder(u)
        BY <1>8, <2>7 DEF InOrder
      <3>4. AppliedOK(u)'
        BY <1>2, <2>7, <3>1, <3>3 DEF AppliedOK
      <3> QED BY <3>2, <3>4
    <2>10. TurnsOK'
      <3>1. \A g \in Handlers : \/ call'[g] = call[g]
                                \/ Concerns(call[g], u) /\ Concerns(call'[g], u)
        <4>1. call[h].e = None
          BY <1>2, <1>3 DEF WorkOK, DeliveryOK
        <4> QED BY <1>1, <2>1, <2>2, <4>1 DEF Concerns
      <3>2. \A d \in 1..Len(log) : d # e => (d \in answered' <=> d \in answered)
        BY <1>8
      <3> QED BY <1>1, <1>2, <1>3, <2>3, <2>8, <2>9, <2>11, <2>12, <3>1, <3>2, TurnsOfOthers
    <2> QED BY <2>4, <2>5, <2>6, <2>10 DEF BillInv
  <1> QED BY <1>2, <1>7, <1>8

-----------------------------------------------------------------------------
(* The invariant                                                           *)

LEMMA BillStart ==
  ASSUME Bl!BillingAssumption, Bl!Init
  PROVE  BillInv
  <1>1. /\ owner = <<>> /\ subs = <<>> /\ log = <<>> /\ answered = {} /\ processed = {}
        /\ sessions = [c \in Bl!Customers |-> 0]
        /\ customer = [u \in Users |-> None]
        /\ plan = [u \in Users |-> "free"] /\ orgPlan = [u \in Users |-> "free"]
        /\ call = [h \in Handlers |-> Bl!Idle]
        /\ disturbed = {} /\ crossed = {} /\ reopened = {} /\ missed = {} /\ mishaps = 0
    BY DEF Bl!Init
  <1>2. \A h \in Handlers : call[h] = Bl!Idle
    BY <1>1
  <1>3. Len(owner) = 0 /\ Len(subs) = 0 /\ Len(log) = 0 /\ 1..0 = {}
    BY <1>1
  <1>4. \A u : /\ Bl!CustomersOf(u) = {} /\ Bl!EventsOf(u) = {} /\ Bl!Live(u) = {}
               /\ AnsweredOf(u) = {}
    BY <1>3 DEF Bl!CustomersOf, Bl!EventsOf, Bl!Live, AnsweredOf
  <1>5. \A u : Bl!BusyWith(u) = {}
    BY <1>2, BlIdleOK DEF Bl!BusyWith
  <1>6. Bl!TypeOK
    <2>1. call \in [Handlers -> BillRequest]
      BY <1>1, BlIdleOK
    <2>2. /\ owner \in Seq(Users)
          /\ subs \in Seq([customer: 1..Len(owner), state: Bl!SubStates])
          /\ log \in Seq([kind: Bl!Kinds, sub: 1..Len(subs)])
      BY <1>1
    <2>3. Len(owner) <= MaxCustomers /\ Len(log) <= MaxEvents /\ mishaps \in 0..MaxMishaps
      BY <1>1, <1>3 DEF Bl!BillingAssumption
    <2>4. /\ sessions \in [Bl!Customers -> Nat]
          /\ customer \in [Users -> 1..Len(owner) \cup {None}]
          /\ plan \in [Users -> Bl!Plans] /\ orgPlan \in [Users -> Bl!Plans]
      BY <1>1 DEF Bl!Plans
    <2>5. answered \subseteq 1..Len(log) /\ processed \subseteq 1..Len(log)
      BY <1>1
    <2>6. {disturbed, reopened, missed} \subseteq SUBSET Users /\ crossed \subseteq Handlers
      BY <1>1
    <2> QED BY <2>1, <2>2, <2>3, <2>4, <2>5, <2>6 DEF Bl!TypeOK, BillRequest
  <1>7. WorkOK
    BY <1>2, BlIdleOK DEF WorkOK
  <1>8. HoldersOK
    BY <1>1 DEF HoldersOK
  <1>9. OnceOK
    <2>1. \A h \in Handlers : call[h].pc # "creating"
      BY <1>2, BlIdleOK
    <2>2. \A u \in Users : OneCustomer(u) /\ OneSubscription(u)
      BY <1>4, <2>1 DEF OneCustomer, OneSubscription, Creating
    <2> QED BY <1>1, <2>2 DEF OnceOK
  <1>10. LogOK
    BY <1>3 DEF LogOK
  <1>11. TurnsOK
    <2>1. ASSUME NEW u \in Users
          PROVE  /\ AloneOK(u) /\ InTurn(u) /\ Mirrored(u) /\ KnownOK(u)
                 /\ BlindOK(u) /\ AppliedOK(u)
      <3>1. AloneOK(u) /\ InTurn(u) /\ KnownOK(u) /\ BlindOK(u)
        BY <1>4, <1>5 DEF AloneOK, InTurn, KnownOK, BlindOK, SettledOf
      <3>2. Mirrored(u) /\ AppliedOK(u)
        BY <1>1, <1>4, <1>5 DEF Mirrored, AppliedOK
      <3> QED BY <3>1, <3>2
    <2> QED BY <2>1 DEF TurnsOK
  <1> QED BY <1>6, <1>7, <1>8, <1>9, <1>10, <1>11 DEF BillInv

LEMMA BillIdles ==
  ASSUME Bl!BillingAssumption, BillInv, UNCHANGED Bl!vars
  PROVE  BillInv'
  <1>1. UNCHANGED <<owner, sessions, subs, log, answered, customer, plan, orgPlan, processed,
                    call, disturbed, crossed, reopened, missed,
                       mishaps>>
    BY DEF Bl!vars
  <1>2. Bl!TypeOK /\ WorkOK /\ HoldersOK /\ OnceOK /\ LogOK /\ TurnsOK
    BY DEF BillInv
  <1>3. call' \in [Handlers -> BillRequest] /\ SameDeliveries
    BY <1>1, <1>2, CallTypes DEF SameDeliveries
  <1>4. StripeGrows /\ OnceOK' /\ LogOK' /\ HoldersOK'
    BY <1>1, <1>2, DeliveryRest
  <1>5. Bl!TypeOK'
    BY <1>1, <1>2, <1>3, SameStripeTypes DEF Bl!TypeOK
  <1>6. WorkOK'
    BY <1>1, <1>2, <1>4, WorkKeeps DEF WorkOK
  <1>7. TurnsOK'
    BY <1>1, <1>2, <1>3, <1>4, TurnsStay
  <1> QED BY <1>4, <1>5, <1>6, <1>7 DEF BillInv

LEMMA BillStep ==
  ASSUME Bl!BillingAssumption, BillInv, [Bl!Next]_Bl!vars
  PROVE  BillInv'
  <1>1. CASE UNCHANGED Bl!vars
    BY <1>1, BillIdles
  <1>2. ASSUME NEW c \in 1..Len(owner), Bl!Subscribe(c) PROVE BillInv'
    BY <1>2, SubscribeStep
  <1>3. ASSUME NEW s \in 1..Len(subs),
               \/ Bl!Renew(s) \/ Bl!Suspend(s) \/ Bl!Resume(s) \/ Bl!GiveUp(s) \/ Bl!Cancel(s)
        PROVE  BillInv'
    <2>1. CASE Bl!Renew(s)
      BY <2>1, ChangeStep DEF Bl!Renew, Bl!SubStates, Bl!Kinds
    <2>2. CASE Bl!Suspend(s)
      BY <2>2, ChangeStep DEF Bl!Suspend, Bl!SubStates, Bl!Kinds
    <2>3. CASE Bl!Resume(s)
      BY <2>3, ChangeStep DEF Bl!Resume, Bl!SubStates, Bl!Kinds
    <2>4. CASE Bl!GiveUp(s)
      BY <2>4, ChangeStep DEF Bl!GiveUp, Bl!SubStates, Bl!Kinds
    <2>5. CASE Bl!Cancel(s)
      BY <2>5, ChangeStep DEF Bl!Cancel, Bl!SubStates, Bl!Kinds
    <2> QED BY <1>3, <2>1, <2>2, <2>3, <2>4, <2>5
  <1>4. ASSUME NEW h \in Handlers, NEW u \in Users, Bl!OpenCheckout(h, u) PROVE BillInv'
    BY <1>4, OpenCheckoutStep
  <1>5. ASSUME NEW h \in Handlers, NEW e \in 1..Len(log), Bl!Deliver(h, e) PROVE BillInv'
    BY <1>5, DeliverStep
  <1>6. ASSUME NEW h \in Handlers, Bl!CheckoutStep(h) PROVE BillInv'
    BY <1>6, SearchStep, CreateStep, OpenSessionStep, CommitCheckoutStep DEF Bl!CheckoutStep
  <1>7. ASSUME NEW h \in Handlers, Bl!HandlerStep(h) PROVE BillInv'
    BY <1>7, LoadUserStep, LoadOrganizationStep, SetKeyStep, CommitStep DEF Bl!HandlerStep
  <1>8. ASSUME NEW h \in Handlers, Bl!Fail(h) PROVE BillInv'
    BY <1>8, FailStep
  <1>9. ASSUME NEW e \in processed, Bl!ExpireKey(e) PROVE BillInv'
    BY <1>9, ExpireKeyStep
  <1> QED BY <1>1, <1>2, <1>3, <1>4, <1>5, <1>6, <1>7, <1>8, <1>9 DEF Bl!Next

LEMMA BillInvariant ==
  ASSUME Bl!BillingAssumption
  PROVE  Bl!Spec => []BillInv
  <1>1. Bl!Init => BillInv
    BY BillStart
  <1>2. BillInv /\ [Bl!Next]_Bl!vars => BillInv'
    BY BillStep
  <1> QED BY <1>1, <1>2, PTL DEF Bl!Spec

-----------------------------------------------------------------------------
(* Billing keeps its promises                                              *)

\* Some event is the last one.
LEMMA LastExists ==
  ASSUME NEW n \in Nat, NEW es, es \subseteq 1..n, es # {}
  PROVE  \E e \in es : Last(e, es)
  <1> DEFINE R == OpToRel(<, Nat)
             Back == {n - d : d \in es}
  <1>1. Back \subseteq Nat /\ Back # {}
    <2>1. \A d \in es : n - d \in Nat
      OBVIOUS
    <2> QED BY <2>1
  <1>2. IsWellFoundedOn(R, Nat)
    BY NatLessThanWellFounded
  <1>3. PICK x \in Back : \A y \in Back : ~(<<y, x>> \in R)
    <2> HIDE DEF R, Back
    <2> QED BY <1>1, <1>2, WFMin
  <1>4. PICK e \in es : x = n - e
    BY <1>3
  <1>5. ASSUME NEW d \in es, ~(d <= e) PROVE FALSE
    <2>1. d \in Nat /\ e \in Nat /\ n - d \in Nat /\ n - e \in Nat /\ n - d < n - e
      BY <1>4, <1>5
    <2>2. <<n - d, n - e>> \in R
      BY <2>1 DEF OpToRel
    <2> QED BY <1>3, <1>4, <2>2
  <1> QED BY <1>4, <1>5 DEF Last

\* At most one element.
LEMMA AtMostOne ==
  ASSUME NEW S, \A x, y \in S : x = y
  PROVE  Bl!Cardinality(S) <= 1
  <1>1. Bl!Cardinality(S) = Cardinality(S)
    BY DEF Bl!Cardinality, Cardinality
  <1>2. CASE S = {}
    BY <1>1, <1>2, FS_EmptySet
  <1>3. ASSUME NEW x \in S PROVE Bl!Cardinality(S) <= 1
    <2>1. S = {x}
      OBVIOUS
    <2>2. Cardinality(S) = 1
      BY <2>1, FS_Singleton
    <2> QED BY <1>1, <2>2
  <1> QED BY <1>2, <1>3

\* Every variable of Billing keeps its type: a stored customer is one that Stripe has,
\* an answer and a key are those of an event in the log.
THEOREM BillingTyped ==
  ASSUME Bl!BillingAssumption
  PROVE  Bl!Spec => []Bl!TypeOK
  <1>1. BillInv => Bl!TypeOK
    BY DEF BillInv
  <1> QED BY <1>1, BillInvariant, PTL

\* Once its events are answered, a user is on the plan that Stripe bills, unless its
\* deliveries overlapped, came late or were lost, a search missed its customer, or a
\* checkout was opened beside another.
THEOREM PlansFollow ==
  ASSUME Bl!BillingAssumption
  PROVE  Bl!Spec => []Bl!PlanIsRight
  <1>1. BillInv => Bl!PlanIsRight
    <2>1. SUFFICES ASSUME BillInv, NEW u \in Users, Bl!Quiet(u),
                          u \notin disturbed \cup reopened \cup missed
                   PROVE  plan[u] = "pro" <=> Bl!Billed(u) # {}
      BY DEF Bl!PlanIsRight
    <2>2. Bl!TypeOK /\ LogOK /\ AppliedOK(u)
      BY <2>1 DEF BillInv, TurnsOK
    <2>3. AnsweredOf(u) = Bl!EventsOf(u) /\ Bl!BusyWith(u) = {} /\ InOrder(u)
      BY <2>1 DEF Bl!Quiet, AnsweredOf, SettledOf, InOrder
    <2>4. CASE Bl!EventsOf(u) = {}
      <3>1. plan[u] = "free"
        BY <2>2, <2>3, <2>4 DEF AppliedOK
      <3>2. ASSUME NEW s \in Bl!Billed(u) PROVE FALSE
        <4>1. s \in 1..Len(subs) /\ owner[subs[s].customer] = u
          BY DEF Bl!Billed, Bl!Live
        <4>2. PICK d \in 1..Len(log) : Begins(d, s)
          BY <2>2, <4>1 DEF LogOK
        <4>3. d \in Bl!EventsOf(u)
          BY <4>1, <4>2 DEF Begins, Bl!EventsOf, Bl!UserOf, Bl!CustomerOf
        <4> QED BY <2>4, <4>3
      <3> QED BY <3>1, <3>2
    <2>5. CASE Bl!EventsOf(u) # {}
      <3>1. Bl!EventsOf(u) \subseteq 1..Len(log) /\ Len(log) \in Nat
        BY <2>2 DEF Bl!EventsOf, Bl!TypeOK
      <3>2. PICK e \in Bl!EventsOf(u) : Last(e, Bl!EventsOf(u))
        BY <2>5, <3>1, LastExists
      <3>3. log[e].kind = "lost" <=> Bl!Billed(u) = {}
        BY <2>1, <2>2, <3>1, <3>2 DEF LogOK
      <3>4. plan[u] = Bl!PlanAfter(log[e].kind)
        BY <2>2, <2>3, <3>2 DEF AppliedOK
      <3> QED BY <3>3, <3>4 DEF Bl!PlanAfter
    <2> QED BY <2>4, <2>5
  <1> QED BY <1>1, BillInvariant, PTL

\* The plan of the personal organization is the user's, at every commit, unless two
\* deliveries for the user overlap, or one is late or lost.
THEOREM OrgFollows ==
  ASSUME Bl!BillingAssumption
  PROVE  Bl!Spec => []Bl!OrgMirrorsPlan
  <1>1. BillInv => Bl!OrgMirrorsPlan
    BY DEF BillInv, TurnsOK, Mirrored, Bl!OrgMirrorsPlan
  <1> QED BY <1>1, BillInvariant, PTL

\* Nobody is billed twice and nobody has two customers, but for the checkouts opened
\* beside another and the searches that missed a customer.
THEOREM OnceOnly ==
  ASSUME Bl!BillingAssumption
  PROVE  Bl!Spec => []Bl!OnceAtStripe
  <1>1. BillInv => Bl!OnceAtStripe
    <2>1. SUFFICES ASSUME BillInv, NEW u \in Users
                   PROVE  /\ u \notin reopened => Bl!Cardinality(Bl!Billed(u)) <= 1
                          /\ u \notin missed => Bl!Cardinality(Bl!CustomersOf(u)) <= 1
      BY DEF Bl!OnceAtStripe
    <2>2. OnceOK
      BY <2>1 DEF BillInv
    <2>3. ASSUME u \notin reopened PROVE Bl!Cardinality(Bl!Billed(u)) <= 1
      <3>1. \A s, t \in Bl!Billed(u) : s = t
        BY <2>2, <2>3 DEF OnceOK, OneSubscription, Bl!Billed
      <3> QED BY <3>1, AtMostOne
    <2>4. ASSUME u \notin missed PROVE Bl!Cardinality(Bl!CustomersOf(u)) <= 1
      <3>1. \A c, d \in Bl!CustomersOf(u) : c = d
        BY <2>2, <2>4 DEF OnceOK, OneCustomer
      <3> QED BY <3>1, AtMostOne
    <2> QED BY <2>3, <2>4
  <1> QED BY <1>1, BillInvariant, PTL

=============================================================================
