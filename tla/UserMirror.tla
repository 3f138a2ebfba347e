------------------------------ MODULE UserMirror ------------------------------
(***************************************************************************)
(* The users table as a mirror of Clerk's accounts.                         *)
(*                                                                         *)
(* A row comes into being in two ways: the first authenticated request of a *)
(* Clerk user inserts it (security.get_current_user), and so does the       *)
(* webhook for user.created and user.updated (clerk_webhook.py).  Both look *)
(* first and insert later; the unique indexes on clerk_user_id and email    *)
(* decide.  The row, the personal organization and the membership are one   *)
(* transaction, which the webhook commits itself and a request commits at   *)
(* the end of whatever endpoint it called, if that does not raise.          *)
(*                                                                         *)
(* Clerk and svix are external: accounts come, change their address and go, *)
(* each change is one event, delivered at least once, in any order, until   *)
(* it is answered with 200.                                                 *)
(***************************************************************************)
EXTENDS Integers, FiniteSets

CONSTANTS
    ClerkIds,      \* accounts at Clerk
    Emails,        \* their e-mail addresses
    Handlers,      \* requests and webhook calls open at the same time
    None,          \* Python's None
    MaxEvents,     \* bound on the events Clerk sends
    MaxRows,       \* bound on the rows ever inserted
    MaxDuplicates  \* bound on events delivered again after their answer

ASSUME ConstantsAssumption ==
    /\ ClerkIds \cap Emails = {}
    /\ None \notin ClerkIds \cup Emails
    /\ None \notin [id: 1..MaxRows, clerk: ClerkIds, email: Emails \cup ClerkIds]
    /\ {MaxEvents, MaxRows, MaxDuplicates} \subseteq Nat

VARIABLES
    clerk,      \* life of each account at Clerk
    address,    \* its address there
    events,     \* number of events sent
    pending,    \* events not yet answered with 200
    duplicates, \* events kept for another delivery
    rows,       \* committed rows of users
    inserted,   \* number of row ids used
    personal,   \* row ids for which a personal organization was created
    members,    \* row ids that own their personal organization
    handler,    \* what each open request or webhook call is doing
    applied,    \* the newest event that was applied, by account
    buried,     \* accounts whose user.deleted has been handled
    revived,    \* accounts inserted again after that
    overtaken,  \* accounts with an event applied after a newer one
    overlapped, \* accounts whose row changed under an open handler
    left        \* accounts whose user deleted the row through the API
vars == <<clerk, address, events, pending, duplicates, rows, inserted, personal,
          members, handler, applied, buried, revived, overtaken, overlapped, left>>

clerkVars == <<clerk, address, events>>
tableVars == <<rows, personal, members>>
ghostVars == <<applied, buried, revived, overtaken, overlapped, left>>

\* f"{clerk_id}@clerk.local": an address per account that nobody else has.
Placeholder(c) == c
Addresses == Emails \cup ClerkIds

Row   == [id: 1..MaxRows, clerk: ClerkIds, email: Addresses]
Event == [n: 1..MaxEvents, clerk: ClerkIds, email: Emails,
          kind: {"created", "updated", "deleted"}]
\* kind: what the handler serves; c: for whom; found: the row it has loaded;
\* new: the row it has inserted and not committed.
Handler == [pc: {"idle", "loaded", "inserted"},
            kind: {"none", "event", "request", "leave"},
            event: Event \cup {None}, c: ClerkIds \cup {None},
            email: Addresses \cup {None},
            found: Row \cup {None}, new: Row \cup {None}]
Idle == [pc |-> "idle", kind |-> "none", event |-> None, c |-> None,
         email |-> None, found |-> None, new |-> None]

RowsOf(c) == {r \in rows : r.clerk = c}
\* select(User).where(User.clerk_user_id == clerk_id), scalar_one_or_none.
Lookup(c) == IF RowsOf(c) = {} THEN None ELSE CHOOSE r \in RowsOf(c) : TRUE

\* The unique indexes.  A statement waits for the open transaction that has
\* inserted the same key and fails on a committed row.
MustWait(h, c, e) ==
    \E g \in Handlers \ {h} : /\ handler[g].pc = "inserted"
                              /\ handler[g].new.clerk = c \/ handler[g].new.email = e
Conflicts_NoIndex(c, e) == \E r \in rows : r.email = e
Conflicts(c, e) == \E r \in rows : r.clerk = c \/ r.email = e
Taken(c, e) == \E r \in rows : r.clerk # c /\ r.email = e

Finish(h) == handler' = [handler EXCEPT ![h] = Idle]

-----------------------------------------------------------------------------
Init ==
    /\ clerk = [c \in ClerkIds |-> "none"]
    /\ address = [c \in ClerkIds |-> None]
    /\ events = 0
    /\ pending = {}
    /\ duplicates = 0
    /\ rows = {}
    /\ inserted = 0
    /\ personal = {}
    /\ members = {}
    /\ handler = [h \in Handlers |-> Idle]
    /\ applied = [c \in ClerkIds |-> 0]
    /\ buried = {}
    /\ revived = {}
    /\ overtaken = {}
    /\ overlapped = {}
    /\ left = {}

(* Clerk *)
Emit(c, kind, e) ==
    /\ events < MaxEvents
    /\ events' = events + 1
    /\ pending' = pending \cup
         {[n |-> events + 1, clerk |-> c, kind |-> kind, email |-> e]}
    /\ UNCHANGED <<duplicates, inserted, handler>>
    /\ UNCHANGED <<tableVars, ghostVars>>

\* Clerk does not give an address to two accounts.
FreeAtClerk(e) == \A d \in ClerkIds : clerk[d] = "live" => address[d] # e

SignUp(c) == \E e \in Emails :
    /\ clerk[c] = "none"
    /\ FreeAtClerk(e)
    /\ clerk' = [clerk EXCEPT ![c] = "live"]
    /\ address' = [address EXCEPT ![c] = e]
    /\ Emit(c, "created", e)

ChangeAddress(c) == \E e \in Emails :
    /\ clerk[c] = "live"
    /\ FreeAtClerk(e)
    /\ address' = [address EXCEPT ![c] = e]
    /\ UNCHANGED clerk
    /\ Emit(c, "updated", e)

CloseAccount(c) ==
    /\ clerk[c] = "live"
    /\ clerk' = [clerk EXCEPT ![c] = "gone"]
    /\ UNCHANGED address
    /\ Emit(c, "deleted", address[c])

-----------------------------------------------------------------------------
(* The answer 200 ends an event, or svix does not see it and sends it again. *)
Answer(e) ==
    \/ /\ pending' = pending \ {e}
       /\ UNCHANGED duplicates
    \/ /\ duplicates < MaxDuplicates
       /\ duplicates' = duplicates + 1
       /\ UNCHANGED pending

\* History: event e has taken effect.
Apply(e) ==
    /\ applied' = [applied EXCEPT ![e.clerk] = IF e.n > @ THEN e.n ELSE @]
    /\ overtaken' = IF e.n < applied[e.clerk]
                    THEN overtaken \cup {e.clerk} ELSE overtaken
    /\ buried' = IF e.kind = "deleted" THEN buried \cup {e.clerk} ELSE buried

\* clerk_webhook: the signature is verified, the row looked up.  A deletion
\* that finds nothing is answered at once.
ReceiveEvent(h, e) ==
    /\ handler[h].pc = "idle"
    /\ e \in pending
    /\ IF e.kind = "deleted" /\ Lookup(e.clerk) = None
       THEN /\ Answer(e)
            /\ Apply(e)
            /\ UNCHANGED handler
       ELSE /\ handler' = [handler EXCEPT ![h] =
                 [Idle EXCEPT !.pc = "loaded", !.kind = "event", !.event = e,
                              !.c = e.clerk, !.email = e.email,
                              !.found = Lookup(e.clerk)]]
            /\ UNCHANGED <<pending, duplicates, applied, buried, overtaken>>
    /\ UNCHANGED <<clerkVars, tableVars, inserted, revived, overlapped, left>>

\* get_current_user for a token of c that has not expired (the account may be
\* gone).  A request that finds its row changes nothing here.  The token has an
\* e-mail claim if the session template says so.
FirstRequest(h, c) ==
    /\ handler[h].pc = "idle"
    /\ clerk[c] # "none"
    /\ Lookup(c) = None
    /\ \E e \in {Placeholder(c), address[c]} :
         handler' = [handler EXCEPT ![h] =
            [Idle EXCEPT !.pc = "loaded", !.kind = "request", !.c = c, !.email = e]]
    /\ UNCHANGED <<clerkVars, tableVars, pending, duplicates, inserted, ghostVars>>

\* delete_my_account has loaded the caller's row.
AskToLeave(h, c) ==
    /\ handler[h].pc = "idle"
    /\ clerk[c] # "none"
    /\ Lookup(c) # None
    /\ handler' = [handler EXCEPT ![h] =
         [Idle EXCEPT !.pc = "loaded", !.kind = "leave", !.c = c, !.found = Lookup(c)]]
    /\ UNCHANGED <<clerkVars, tableVars, pending, duplicates, inserted, ghostVars>>

Inserts(h) ==
    /\ handler[h].pc = "loaded"
    /\ handler[h].found = None

\* db.add(user); flush.
InsertUser(h) ==
    LET c == handler[h].c  e == handler[h].email IN
    /\ Inserts(h)
    /\ inserted < MaxRows
    /\ ~MustWait(h, c, e)
    /\ ~Conflicts(c, e)
    /\ inserted' = inserted + 1
    /\ handler' = [handler EXCEPT ![h] =
         [@ EXCEPT !.pc = "inserted",
                   !.new = [id |-> inserted + 1, clerk |-> c, email |-> e]]]
    /\ UNCHANGED <<clerkVars, tableVars, pending, duplicates, ghostVars>>

InsertFails_Answered(h) ==
    /\ Inserts(h)
    /\ Conflicts(handler[h].c, handler[h].email)
    /\ IF handler[h].kind = "event"
       THEN Answer(handler[h].event) /\ Apply(handler[h].event)
       ELSE UNCHANGED <<pending, duplicates, applied, buried, overtaken>>
    /\ Finish(h)
    /\ UNCHANGED <<clerkVars, tableVars, inserted, revived, overlapped, left>>

\* IntegrityError: the transaction is rolled back and the call answered with
\* 500.  svix keeps the event.
InsertFails(h) ==
    LET c == handler[h].c  e == handler[h].email IN
    /\ Inserts(h)
    /\ ~MustWait(h, c, e)
    /\ Conflicts(c, e)
    /\ Finish(h)
    /\ UNCHANGED <<clerkVars, tableVars, pending, duplicates, inserted, ghostVars>>

\* The endpoint of a first request raises: get_db rolls the new user back.
RequestFails(h) ==
    /\ handler[h].pc = "inserted"
    /\ handler[h].kind = "request"
    /\ Finish(h)
    /\ UNCHANGED <<clerkVars, tableVars, pending, duplicates, inserted, ghostVars>>

\* The commit of user, personal organization and membership.
CommitInsert(h) ==
    LET new == handler[h].new IN
    /\ handler[h].pc = "inserted"
    /\ rows' = rows \cup {new}
    /\ personal' = personal \cup {new.id}
    /\ members' = members \cup {new.id}
    /\ revived' = IF new.clerk \in buried THEN revived \cup {new.clerk} ELSE revived
    /\ IF handler[h].kind = "event"
       THEN Answer(handler[h].event) /\ Apply(handler[h].event)
       ELSE UNCHANGED <<pending, duplicates, applied, buried, overtaken>>
    /\ Finish(h)
    /\ UNCHANGED <<clerkVars, inserted, overlapped, left>>

\* A row that is no longer what the handler loaded.
Moved(h) == Lookup(handler[h].c) # handler[h].found
NoteOverlap(h) ==
    overlapped' = IF Moved(h) THEN overlapped \cup {handler[h].c} ELSE overlapped

\* existing.email = email; commit.  The UPDATE names the row by its id and is
\* sent only if the address differs from the one loaded; it raises
\* StaleDataError if the row is gone and IntegrityError if another has the
\* address (UpdateFails).
Dirty(h) == handler[h].email # handler[h].found.email
Updates(h) ==
    /\ handler[h].pc = "loaded"
    /\ handler[h].kind = "event"
    /\ handler[h].event.kind # "deleted"
    /\ handler[h].found # None
Present(h) == \E r \in rows : r.id = handler[h].found.id
UpdateRejected(h) ==
    Dirty(h) /\ (~Present(h) \/ Taken(handler[h].c, handler[h].email))

CommitUpdate(h) ==
    LET e == handler[h].email  id == handler[h].found.id IN
    /\ Updates(h)
    /\ ~MustWait(h, None, e)
    /\ ~UpdateRejected(h)
    /\ rows' = IF Dirty(h)
               THEN {IF r.id = id THEN [r EXCEPT !.email = e] ELSE r : r \in rows}
               ELSE rows
    /\ Answer(handler[h].event)
    /\ Apply(handler[h].event)
    /\ NoteOverlap(h)
    /\ Finish(h)
    /\ UNCHANGED <<clerkVars, inserted, personal, members, revived, left>>

UpdateFails(h) ==
    /\ Updates(h)
    /\ ~MustWait(h, None, handler[h].email)
    /\ UpdateRejected(h)
    /\ Finish(h)
    /\ UNCHANGED <<clerkVars, tableVars, pending, duplicates, inserted, ghostVars>>

\* db.delete(existing); commit.  The membership goes with the row, the personal
\* organization stays.  Deleting a row that is gone already is no error.
DeleteRow(h) ==
    LET id == handler[h].found.id IN
    /\ rows' = {r \in rows : r.id # id}
    /\ members' = members \ {id}
    /\ NoteOverlap(h)
    /\ Finish(h)
    /\ UNCHANGED <<clerkVars, inserted, personal, revived>>

CommitDelete(h) ==
    /\ handler[h].pc = "loaded"
    /\ handler[h].kind = "event"
    /\ handler[h].event.kind = "deleted"
    /\ Answer(handler[h].event)
    /\ Apply(handler[h].event)
    /\ UNCHANGED left
    /\ DeleteRow(h)

CommitLeave(h) ==
    /\ handler[h].pc = "loaded"
    /\ handler[h].kind = "leave"
    /\ left' = left \cup {handler[h].c}
    /\ UNCHANGED <<pending, duplicates, applied, buried, overtaken>>
    /\ DeleteRow(h)

-----------------------------------------------------------------------------
HandlerStep(h) ==
    \/ InsertUser(h) \/ InsertFails(h) \/ RequestFails(h) \/ CommitInsert(h)
    \/ CommitUpdate(h) \/ UpdateFails(h) \/ CommitDelete(h) \/ CommitLeave(h)

Next ==
    \/ \E c \in ClerkIds : SignUp(c) \/ ChangeAddress(c) \/ CloseAccount(c)
    \/ \E h \in Handlers :
         \/ \E e \in pending : ReceiveEvent(h, e)
         \/ \E c \in ClerkIds : FirstRequest(h, c) \/ AskToLeave(h, c)
         \/ HandlerStep(h)

Spec == Init /\ [][Next]_vars

-----------------------------------------------------------------------------
(* Properties                                                              *)

\* The type invariant.
TypeOK ==
    /\ clerk \in [ClerkIds -> {"none", "live", "gone"}]
    /\ address \in [ClerkIds -> Emails \cup {None}]
    /\ events \in 0..MaxEvents
    /\ pending \subseteq Event
    /\ duplicates \in 0..MaxDuplicates
    /\ rows \subseteq Row
    /\ inserted \in 0..MaxRows
    /\ personal \subseteq 1..inserted
    /\ members \subseteq personal
    /\ handler \in [Handlers -> Handler]
    /\ applied \in [ClerkIds -> 0..MaxEvents]
    /\ {buried, revived, overtaken, overlapped, left} \subseteq SUBSET ClerkIds

\* However requests and events race for the first insert, an account has one
\* row, an address one user, and every row its personal workspace, which it owns.
OneRowPerAccount ==
    /\ \A r, s \in rows : r.clerk = s.clerk \/ r.email = s.email => r = s
    /\ members = {r.id : r \in rows}

Working(c) == \E h \in Handlers : handler[h].c = c
Awaiting(c) == \E e \in pending : e.clerk = c
Settled(c) == ~Working(c) /\ ~Awaiting(c)

\* The table is "in lockstep with Clerk" once the events of an account have
\* been answered: a live account has a row with its address, a closed one has
\* none.  The exceptions are the events that overtook each other, handlers that
\* overlapped, users who deleted their row and came back, and rows inserted
\* after the deletion was handled.
InLockstep ==
    \A c \in ClerkIds \ (overtaken \cup overlapped \cup left \cup revived) :
        Settled(c) =>
            CASE clerk[c] = "live" -> \E r \in RowsOf(c) : r.email = address[c]
              [] clerk[c] = "gone" -> RowsOf(c) = {}
              [] OTHER -> RowsOf(c) = {}

=============================================================================
