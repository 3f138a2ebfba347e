-------------------------- MODULE UserMirror_proofs --------------------------
(***************************************************************************)
(* Proofs about UserMirror, for any number of accounts, addresses, events   *)
(* and overlapping handlers.                                                *)
(***************************************************************************)
EXTENDS UserMirror, TLAPS

-----------------------------------------------------------------------------
(* The inductive invariant                                                 *)

\* What a handler's state is made of, whatever the table holds.
FieldsOK(s) ==
    /\ s.pc # "idle" => s.c \in ClerkIds /\ s.kind # "none"
    /\ s.kind = "event" => s.event \in Event
    /\ s.kind \in {"event", "request"} => s.email \in Addresses
    /\ s.kind = "leave" => s.pc = "loaded" /\ s.found # None
    /\ s.pc = "inserted" => s.new \in Row

\* A row once loaded keeps its account, if it is still there; ids are not used
\* twice (every id that was ever committed is in personal).
FoundOK(s) ==
    s.found # None => /\ s.found.id \in personal
                      /\ s.found.clerk = s.c
                      /\ \A r \in rows : r.id = s.found.id => r.clerk = s.c

\* An open insert has a fresh id, and the unique indexes keep its account and
\* its address out of the table.
NewOK(s) ==
    s.pc = "inserted" => /\ s.new.id \in (1..inserted) \ personal
                         /\ \A r \in rows : /\ r.clerk # s.new.clerk
                                            /\ r.email # s.new.email

HandlerOK(s) == FieldsOK(s) /\ FoundOK(s) /\ NewOK(s)

\* Two open inserts differ in id, account and address.
Apart(s, t) ==
    s.pc = "inserted" /\ t.pc = "inserted" =>
        /\ s.new.id # t.new.id
        /\ s.new.clerk # t.new.clerk
        /\ s.new.email # t.new.email

AddressOK == \A c \in ClerkIds : clerk[c] # "none" => address[c] \in Emails

IdsOK == \A r, s \in rows : r.id = s.id => r = s

HandlersOK ==
    /\ \A h \in Handlers : HandlerOK(handler[h])
    /\ \A g, h \in Handlers : g # h => Apart(handler[g], handler[h])

MirrorInv == TypeOK /\ AddressOK /\ IdsOK /\ OneRowPerAccount /\ HandlersOK

-----------------------------------------------------------------------------
(* Frames                                                                  *)

\* The answer and the history of an event keep their types.
LEMMA AnswerTypes ==
  ASSUME TypeOK, NEW e \in Event, Answer(e), Apply(e)
  PROVE  /\ pending' \subseteq Event
         /\ duplicates' \in 0..MaxDuplicates
         /\ applied' \in [ClerkIds -> 0..MaxEvents]
         /\ {buried', overtaken'} \subseteq SUBSET ClerkIds
<1>1. e.clerk \in ClerkIds /\ e.n \in 1..MaxEvents
  BY DEF Event
<1>2. MaxEvents \in Nat /\ MaxDuplicates \in Nat
  BY ConstantsAssumption
<1>3. pending' \subseteq Event /\ duplicates' \in 0..MaxDuplicates
  BY <1>2 DEF TypeOK, Answer
<1>4. applied' \in [ClerkIds -> 0..MaxEvents]
  BY <1>1, <1>2 DEF TypeOK, Apply
<1>5. {buried', overtaken'} \subseteq SUBSET ClerkIds
  BY <1>1 DEF TypeOK, Apply
<1> QED
  BY <1>3, <1>4, <1>5

\* The row that Lookup finds is in the table.
LEMMA LookupFinds ==
  ASSUME TypeOK, NEW c \in ClerkIds
  PROVE  /\ Lookup(c) \in Row \cup {None}
         /\ Lookup(c) # None => Lookup(c) \in rows /\ Lookup(c).clerk = c
  BY DEF Lookup, RowsOf, TypeOK

\* A step of one handler leaves the others alone.
LEMMA HandlerFrame ==
  ASSUME TypeOK, NEW h \in Handlers, NEW s \in Handler,
         handler' = [handler EXCEPT ![h] = s]
  PROVE  /\ handler' \in [Handlers -> Handler]
         /\ handler'[h] = s
         /\ \A g \in Handlers \ {h} : handler'[g] = handler[g]
  BY DEF TypeOK

LEMMA IdleOK == Idle \in Handler /\ Idle.pc = "idle" /\ Idle.found = None /\ HandlerOK(Idle)'
  BY DEF Idle, Handler, HandlerOK, FieldsOK, FoundOK, NewOK

\* The handlers stay right if the one that moves is right afterwards and no
\* other one's row or open insert is disturbed.
LEMMA HandlersKeep ==
  ASSUME MirrorInv, NEW h \in Handlers, NEW s \in Handler,
         handler' = [handler EXCEPT ![h] = s],
         HandlerOK(s)',
         \A g \in Handlers \ {h} : Apart(s, handler[g]),
         \A g \in Handlers \ {h} : FoundOK(handler[g])' /\ NewOK(handler[g])'
  PROVE  handler' \in [Handlers -> Handler] /\ HandlersOK'
<1>1. /\ handler' \in [Handlers -> Handler]
      /\ handler'[h] = s
      /\ \A g \in Handlers \ {h} : handler'[g] = handler[g]
  BY HandlerFrame DEF MirrorInv
<1>2. ASSUME NEW g \in Handlers
      PROVE  HandlerOK(handler[g])'
  <2>1. CASE g = h
    BY <1>1, <2>1 DEF HandlerOK, FieldsOK, FoundOK, NewOK
  <2>2. CASE g # h
    <3>1. FieldsOK(handler[g])
      BY DEF MirrorInv, HandlersOK, HandlerOK
    <3>2. handler'[g] = handler[g]
      BY <1>1, <2>2
    <3>3. FoundOK(handler[g])' /\ NewOK(handler[g])'
      BY <2>2
    <3> QED
      BY <3>1, <3>2, <3>3 DEF HandlerOK, FieldsOK, FoundOK, NewOK
  <2> QED
    BY <2>1, <2>2
<1>3. ASSUME NEW f \in Handlers, NEW g \in Handlers, f # g
      PROVE  Apart(handler[f], handler[g])'
  <2>1. CASE f = h
    BY <1>1, <1>3, <2>1 DEF Apart
  <2>2. CASE g = h
    BY <1>1, <1>3, <2>2 DEF Apart
  <2>3. CASE f # h /\ g # h
    <3>1. Apart(handler[f], handler[g])
      BY <1>3 DEF MirrorInv, HandlersOK
    <3> QED
      BY <1>1, <2>3, <3>1 DEF Apart
  <2> QED
    BY <2>1, <2>2, <2>3
<1> QED
  BY <1>1, <1>2, <1>3 DEF HandlersOK

\* A step that leaves the table alone and opens no insert.
LEMMA QuietStep ==
  ASSUME MirrorInv, NEW h \in Handlers, NEW s \in Handler,
         handler' = [handler EXCEPT ![h] = s],
         UNCHANGED <<rows, personal, members, inserted>>,
         HandlerOK(s), s.pc # "inserted"
  PROVE  /\ handler' \in [Handlers -> Handler]
         /\ HandlersOK' /\ IdsOK' /\ OneRowPerAccount'
<1>1. HandlerOK(s)'
  BY DEF HandlerOK, FieldsOK, FoundOK, NewOK
<1>2. \A g \in Handlers \ {h} : Apart(s, handler[g])
  BY DEF Apart
<1>3. \A g \in Handlers \ {h} : handler'[g] = handler[g]
  BY HandlerFrame DEF MirrorInv
<1>4. ASSUME NEW g \in Handlers \ {h}
      PROVE  FoundOK(handler[g])' /\ NewOK(handler[g])'
  <2>1. FoundOK(handler[g]) /\ NewOK(handler[g])
    BY DEF MirrorInv, HandlersOK, HandlerOK
  <2>2. handler'[g] = handler[g]
    BY <1>3
  <2> QED
    BY <2>1, <2>2 DEF FoundOK, NewOK
<1>5. handler' \in [Handlers -> Handler] /\ HandlersOK'
  BY <1>1, <1>2, <1>4, HandlersKeep
<1>6. IdsOK' /\ OneRowPerAccount'
  BY DEF MirrorInv, IdsOK, OneRowPerAccount
<1> QED
  BY <1>5, <1>6

\* A handler that ends without touching the table.
LEMMA QuietEnd ==
  ASSUME MirrorInv, NEW h \in Handlers, Finish(h),
         UNCHANGED <<rows, personal, members, inserted>>
  PROVE  /\ handler' \in [Handlers -> Handler]
         /\ HandlersOK' /\ IdsOK' /\ OneRowPerAccount'
<1>1. HandlerOK(Idle) /\ Idle \in Handler /\ Idle.pc = "idle"
  BY IdleOK DEF Idle, HandlerOK, FieldsOK, FoundOK, NewOK
<1>2. handler' = [handler EXCEPT ![h] = Idle]
  BY DEF Finish
<1> QED
  BY <1>1, <1>2, QuietStep

-----------------------------------------------------------------------------
(* Clerk                                                                   *)

LEMMA InitMirror == Init => MirrorInv
<1> SUFFICES ASSUME Init PROVE MirrorInv
  OBVIOUS
<1>1. Idle \in Handler /\ HandlerOK(Idle) /\ Idle.pc = "idle"
  BY IdleOK DEF Idle, HandlerOK, FieldsOK, FoundOK, NewOK
<1>2. TypeOK
  BY <1>1, ConstantsAssumption DEF Init, TypeOK
<1>3. AddressOK /\ IdsOK /\ OneRowPerAccount
  BY DEF Init, AddressOK, IdsOK, OneRowPerAccount
<1>4. \A h \in Handlers : handler[h] = Idle
  BY DEF Init
<1>5. HandlersOK
  BY <1>1, <1>4 DEF HandlersOK, Apart
<1> QED
  BY <1>2, <1>3, <1>5 DEF MirrorInv

\* An event changes nothing but what Clerk keeps.
LEMMA EmitKeeps ==
  ASSUME MirrorInv, NEW c \in ClerkIds, NEW e \in Emails,
         NEW kind \in {"created", "updated", "deleted"}, Emit(c, kind, e),
         clerk' \in [ClerkIds -> {"none", "live", "gone"}],
         address' \in [ClerkIds -> Emails \cup {None}],
         AddressOK'
  PROVE  MirrorInv'
<1> DEFINE ev == [n |-> events + 1, clerk |-> c, kind |-> kind, email |-> e]
<1>1. MaxEvents \in Nat /\ events + 1 \in 1..MaxEvents
  BY ConstantsAssumption DEF MirrorInv, TypeOK, Emit
<1>2. ev \in Event
  BY <1>1 DEF Event
<1>3. events' \in 0..MaxEvents /\ pending' \subseteq Event
  BY <1>1, <1>2 DEF MirrorInv, TypeOK, Emit
<1>4. UNCHANGED <<duplicates, inserted, handler, rows, personal, members, applied,
                  buried, revived, overtaken, overlapped, left>>
  BY DEF Emit, tableVars, ghostVars
<1>5. TypeOK'
  BY <1>3, <1>4 DEF MirrorInv, TypeOK
<1>6. IdsOK' /\ OneRowPerAccount' /\ HandlersOK'
  BY <1>4 DEF MirrorInv, IdsOK, OneRowPerAccount, HandlersOK, HandlerOK, FieldsOK,
              FoundOK, NewOK, Apart
<1> QED
  BY <1>5, <1>6 DEF MirrorInv

LEMMA ClerkStep ==
  ASSUME MirrorInv, NEW c \in ClerkIds,
         SignUp(c) \/ ChangeAddress(c) \/ CloseAccount(c)
  PROVE  MirrorInv'
<1>0. TypeOK /\ AddressOK
  BY DEF MirrorInv
<1>1. CASE SignUp(c)
  <2>1. PICK e \in Emails : /\ clerk' = [clerk EXCEPT ![c] = "live"]
                            /\ address' = [address EXCEPT ![c] = e]
                            /\ Emit(c, "created", e)
    BY <1>1 DEF SignUp
  <2>2. /\ clerk' \in [ClerkIds -> {"none", "live", "gone"}]
        /\ address' \in [ClerkIds -> Emails \cup {None}]
        /\ AddressOK'
    BY <1>0, <2>1 DEF TypeOK, AddressOK
  <2> QED
    BY <2>1, <2>2, EmitKeeps
<1>2. CASE ChangeAddress(c)
  <2>1. PICK e \in Emails : /\ clerk' = clerk
                            /\ address' = [address EXCEPT ![c] = e]
                            /\ Emit(c, "updated", e)
    BY <1>2 DEF ChangeAddress
  <2>2. /\ clerk' \in [ClerkIds -> {"none", "live", "gone"}]
        /\ address' \in [ClerkIds -> Emails \cup {None}]
        /\ AddressOK'
    BY <1>0, <2>1 DEF TypeOK, AddressOK
  <2> QED
    BY <2>1, <2>2, EmitKeeps
<1>3. CASE CloseAccount(c)
  <2>1. /\ clerk' = [clerk EXCEPT ![c] = "gone"] /\ address' = address
        /\ Emit(c, "deleted", address[c])
        /\ address[c] \in Emails
    BY <1>0, <1>3 DEF CloseAccount, AddressOK
  <2>2. /\ clerk' \in [ClerkIds -> {"none", "live", "gone"}]
        /\ address' \in [ClerkIds -> Emails \cup {None}]
        /\ AddressOK'
    BY <1>0, <2>1 DEF TypeOK, AddressOK
  <2> QED
    BY <2>1, <2>2, EmitKeeps
<1> QED
  BY <1>1, <1>2, <1>3

-----------------------------------------------------------------------------
(* Looking first                                                           *)

LEMMA ReceiveStep ==
  ASSUME MirrorInv, NEW h \in Handlers, NEW e \in pending, ReceiveEvent(h, e)
  PROVE  MirrorInv'
<1>0. TypeOK /\ AddressOK
  BY DEF MirrorInv
<1>1. e \in Event /\ e.clerk \in ClerkIds /\ e.email \in Emails
  BY <1>0 DEF TypeOK, Event
<1>2. UNCHANGED <<clerk, address, events, rows, personal, members, inserted, revived,
                  overlapped, left>>
  BY DEF ReceiveEvent, clerkVars, tableVars
<1>3. CASE handler' = handler /\ Answer(e) /\ Apply(e)
  <2>1. TypeOK'
    BY <1>0, <1>1, <1>2, <1>3, AnswerTypes DEF TypeOK
  <2>2. AddressOK' /\ IdsOK' /\ OneRowPerAccount' /\ HandlersOK'
    BY <1>2, <1>3 DEF MirrorInv, AddressOK, IdsOK, OneRowPerAccount, HandlersOK,
                      HandlerOK, FieldsOK, FoundOK, NewOK, Apart
  <2> QED
    BY <2>1, <2>2 DEF MirrorInv
<1>4. CASE ~(handler' = handler /\ Answer(e) /\ Apply(e))
  <2> DEFINE s == [Idle EXCEPT !.pc = "loaded", !.kind = "event", !.event = e,
                              !.c = e.clerk, !.email = e.email,
                              !.found = Lookup(e.clerk)]
  <2>1. /\ handler' = [handler EXCEPT ![h] = s]
        /\ UNCHANGED <<pending, duplicates, applied, buried, overtaken>>
    BY <1>4 DEF ReceiveEvent
  <2>2. /\ Lookup(e.clerk) \in Row \cup {None}
        /\ Lookup(e.clerk) # None => /\ Lookup(e.clerk) \in rows
                                     /\ Lookup(e.clerk).clerk = e.clerk
    BY <1>0, <1>1, LookupFinds
  <2>3. /\ s.pc = "loaded" /\ s.kind = "event" /\ s.event = e /\ s.c = e.clerk
        /\ s.email = e.email /\ s.found = Lookup(e.clerk)
    BY DEF Idle
  <2>4. s \in Handler
    BY <1>1, <2>2 DEF Handler, Addresses, Idle
  <2>5. HandlerOK(s)
    <3>1. FieldsOK(s)
      BY <1>1, <2>3 DEF FieldsOK, Addresses
    <3>2. FoundOK(s)
      BY <2>2, <2>3 DEF FoundOK, MirrorInv, IdsOK, OneRowPerAccount, TypeOK
    <3> QED
      BY <2>3, <3>1, <3>2 DEF HandlerOK, NewOK
  <2>6. s.pc # "inserted"
    BY <2>3
  <2> HIDE DEF s
  <2>7. handler' \in [Handlers -> Handler] /\ HandlersOK' /\ IdsOK' /\ OneRowPerAccount'
    BY <1>2, <2>1, <2>4, <2>5, <2>6, QuietStep
  <2>8. TypeOK' /\ AddressOK'
    BY <1>0, <1>2, <2>1, <2>7 DEF TypeOK, AddressOK
  <2> QED
    BY <2>7, <2>8 DEF MirrorInv
<1> QED
  BY <1>3, <1>4

\* A step that only changes what one handler is doing.
LEMMA LocalStep ==
  ASSUME MirrorInv, NEW h \in Handlers, NEW s \in Handler,
         handler' = [handler EXCEPT ![h] = s], HandlerOK(s), s.pc # "inserted",
         UNCHANGED <<clerkVars, tableVars, pending, duplicates, inserted, ghostVars>>
  PROVE  MirrorInv'
<1>1. UNCHANGED <<clerk, address, events, rows, personal, members, inserted, revived,
                  overlapped, left, pending, duplicates, applied, buried, overtaken>>
  BY DEF clerkVars, tableVars, ghostVars
<1>2. handler' \in [Handlers -> Handler] /\ HandlersOK' /\ IdsOK' /\ OneRowPerAccount'
  BY <1>1, QuietStep
<1>3. TypeOK' /\ AddressOK'
  BY <1>1, <1>2 DEF MirrorInv, TypeOK, AddressOK
<1> QED
  BY <1>2, <1>3 DEF MirrorInv

LEMMA LocalEnd ==
  ASSUME MirrorInv, NEW h \in Handlers, Finish(h),
         UNCHANGED <<clerkVars, tableVars, pending, duplicates, inserted, ghostVars>>
  PROVE  MirrorInv'
<1>1. HandlerOK(Idle) /\ Idle \in Handler /\ Idle.pc = "idle"
  BY IdleOK DEF Idle, HandlerOK, FieldsOK, FoundOK, NewOK
<1> QED
  BY <1>1, LocalStep DEF Finish

LEMMA RequestStep ==
  ASSUME MirrorInv, NEW h \in Handlers, NEW c \in ClerkIds,
         FirstRequest(h, c) \/ AskToLeave(h, c)
  PROVE  MirrorInv'
<1>0. TypeOK /\ AddressOK
  BY DEF MirrorInv
<1>1. CASE FirstRequest(h, c)
  <2>1. PICK e \in {Placeholder(c), address[c]} :
          handler' = [handler EXCEPT ![h] =
            [Idle EXCEPT !.pc = "loaded", !.kind = "request", !.c = c, !.email = e]]
    BY <1>1 DEF FirstRequest
  <2>2. e \in Addresses
    BY <1>0, <1>1, <2>1 DEF FirstRequest, AddressOK, Addresses, Placeholder
  <2> DEFINE s == [Idle EXCEPT !.pc = "loaded", !.kind = "request", !.c = c, !.email = e]
  <2>3. /\ s.pc = "loaded" /\ s.kind = "request" /\ s.c = c /\ s.email = e
        /\ s.found = None
    BY DEF Idle
  <2>4. s \in Handler
    BY <2>2 DEF Handler, Idle
  <2>5. HandlerOK(s) /\ s.pc # "inserted"
    BY <2>2, <2>3 DEF HandlerOK, FieldsOK, FoundOK, NewOK
  <2> HIDE DEF s
  <2> QED
    BY <1>1, <2>1, <2>4, <2>5, LocalStep DEF FirstRequest, s
<1>2. CASE AskToLeave(h, c)
  <2> DEFINE s == [Idle EXCEPT !.pc = "loaded", !.kind = "leave", !.c = c, !.found = Lookup(c)]
  <2>1. Lookup(c) # None /\ Lookup(c) \in Row /\ Lookup(c) \in rows /\ Lookup(c).clerk = c
    BY <1>0, <1>2, LookupFinds DEF AskToLeave, TypeOK
  <2>3. /\ s.pc = "loaded" /\ s.kind = "leave" /\ s.c = c /\ s.found = Lookup(c)
    BY DEF Idle
  <2>4. s \in Handler
    BY <2>1 DEF Handler, Idle
  <2>5. FieldsOK(s) /\ NewOK(s) /\ s.pc # "inserted"
    BY <2>1, <2>3 DEF FieldsOK, NewOK
  <2>6. FoundOK(s)
    BY <2>1, <2>3 DEF FoundOK, MirrorInv, IdsOK, OneRowPerAccount, TypeOK
  <2> HIDE DEF s
  <2> QED
    BY <1>2, <2>4, <2>5, <2>6, LocalStep DEF AskToLeave, HandlerOK, s
<1> QED
  BY <1>1, <1>2

-----------------------------------------------------------------------------
(* Writing the table                                                       *)

LEMMA InsertStep ==
  ASSUME MirrorInv, NEW h \in Handlers, InsertUser(h)
  PROVE  MirrorInv'
<1> DEFINE c == handler[h].c
           e == handler[h].email
<1>0. TypeOK /\ AddressOK /\ handler[h] \in Handler /\ HandlerOK(handler[h])
  BY DEF MirrorInv, HandlersOK, TypeOK
<1>1. /\ handler[h].pc = "loaded" /\ handler[h].found = None
      /\ handler[h].kind \in {"event", "request"}
  BY <1>0 DEF InsertUser, Inserts, HandlerOK, FieldsOK, Handler
<1>2. c \in ClerkIds /\ e \in Addresses
  BY <1>0, <1>1 DEF HandlerOK, FieldsOK
<1>3. /\ MaxRows \in Nat /\ inserted \in Nat /\ inserted + 1 \in 1..MaxRows
      /\ inserted' = inserted + 1 /\ personal \subseteq 1..inserted
  BY <1>0, ConstantsAssumption DEF InsertUser, TypeOK
<1>4. PICK new \in Row : new = [id |-> inserted + 1, clerk |-> c, email |-> e]
  BY <1>2, <1>3 DEF Row
<1>5. PICK s \in Handler : /\ s = [handler[h] EXCEPT !.pc = "inserted", !.new = new]
                           /\ handler' = [handler EXCEPT ![h] = s]
  <2>1. [handler[h] EXCEPT !.pc = "inserted", !.new = new] \in Handler
    BY <1>0, <1>4 DEF Handler
  <2>2. handler' = [handler EXCEPT ![h] =
                     [handler[h] EXCEPT !.pc = "inserted", !.new = new]]
    BY <1>4 DEF InsertUser
  <2> QED
    BY <2>1, <2>2
<1>6. /\ s.pc = "inserted" /\ s.new = new /\ s.c = c /\ s.email = e
      /\ s.kind = handler[h].kind /\ s.event = handler[h].event /\ s.found = None
  BY <1>0, <1>1, <1>5 DEF Handler
<1>7. UNCHANGED <<clerk, address, events, rows, personal, members, pending, duplicates,
                  applied, buried, revived, overtaken, overlapped, left>>
  BY DEF InsertUser, clerkVars, tableVars, ghostVars
<1>8. /\ new.id = inserted + 1 /\ new.clerk = c /\ new.email = e
  BY <1>4
<1>9. HandlerOK(s)'
  <2>1. FieldsOK(s)
    BY <1>0, <1>1, <1>2, <1>4, <1>6 DEF HandlerOK, FieldsOK
  <2>2. FoundOK(s)'
    BY <1>6 DEF FoundOK
  <2>3. new.id \in (1..inserted') \ personal'
    BY <1>3, <1>7, <1>8
  <2>4. \A r \in rows' : r.clerk # new.clerk /\ r.email # new.email
    BY <1>7, <1>8 DEF InsertUser, Conflicts
  <2>5. NewOK(s)'
    BY <1>6, <2>3, <2>4 DEF NewOK
  <2> QED
    BY <2>1, <2>2, <2>5 DEF HandlerOK, FieldsOK
<1>10. \A g \in Handlers \ {h} : handler'[g] = handler[g]
  BY <1>0, <1>5, HandlerFrame
<1>11. ASSUME NEW g \in Handlers \ {h}
       PROVE  FoundOK(handler[g])' /\ NewOK(handler[g])' /\ Apart(s, handler[g])
  <2>1. FoundOK(handler[g]) /\ NewOK(handler[g]) /\ handler'[g] = handler[g]
    BY <1>10 DEF MirrorInv, HandlersOK, HandlerOK
  <2>2. FoundOK(handler[g])'
    BY <1>7, <2>1 DEF FoundOK
  <2>3. NewOK(handler[g])'
    BY <1>3, <1>7, <2>1 DEF NewOK
  <2>4. handler[g].pc = "inserted" => /\ handler[g].new.id # new.id
                                     /\ handler[g].new.clerk # new.clerk
                                     /\ handler[g].new.email # new.email
    BY <1>3, <1>8, <2>1 DEF NewOK, InsertUser, MustWait
  <2> QED
    BY <1>6, <2>2, <2>3, <2>4 DEF Apart
<1>12. handler' \in [Handlers -> Handler] /\ HandlersOK'
  BY <1>5, <1>9, <1>11, HandlersKeep
<1>13. IdsOK' /\ OneRowPerAccount' /\ AddressOK'
  BY <1>7 DEF MirrorInv, IdsOK, OneRowPerAccount, AddressOK
<1>14. TypeOK'
  BY <1>0, <1>3, <1>7, <1>12 DEF TypeOK
<1> QED
  BY <1>12, <1>13, <1>14 DEF MirrorInv

\* What the handlers that go on keep when one of them commits.
LEMMA CommitFrame ==
  ASSUME MirrorInv, NEW h \in Handlers, Finish(h),
         UNCHANGED <<clerk, address, events, inserted, left>>,
         rows' \subseteq Row, personal' \subseteq 1..inserted, members' \subseteq personal',
         pending' \subseteq Event, duplicates' \in 0..MaxDuplicates,
         applied' \in [ClerkIds -> 0..MaxEvents],
         {buried', overtaken', revived', overlapped'} \subseteq SUBSET ClerkIds,
         IdsOK', OneRowPerAccount',
         \A g \in Handlers \ {h} : FoundOK(handler[g])' /\ NewOK(handler[g])'
  PROVE  MirrorInv'
<1>1. /\ Idle \in Handler /\ HandlerOK(Idle)'
      /\ \A g \in Handlers \ {h} : Apart(Idle, handler[g])
  BY IdleOK DEF Apart
<1>2. handler' \in [Handlers -> Handler] /\ HandlersOK'
  BY <1>1, HandlersKeep DEF Finish
<1>3. TypeOK' /\ AddressOK'
  BY <1>2 DEF MirrorInv, TypeOK, AddressOK
<1> QED
  BY <1>2, <1>3 DEF MirrorInv

LEMMA CommitInsertStep ==
  ASSUME MirrorInv, NEW h \in Handlers, CommitInsert(h)
  PROVE  MirrorInv'
<1>0. TypeOK /\ handler[h] \in Handler /\ HandlerOK(handler[h]) /\ handler[h].pc = "inserted"
  BY DEF MirrorInv, HandlersOK, TypeOK, CommitInsert
<1> DEFINE new == handler[h].new
<1>1. /\ new \in Row /\ new.clerk \in ClerkIds /\ new.id \in (1..inserted) \ personal
      /\ \A r \in rows : r.clerk # new.clerk /\ r.email # new.email
  BY <1>0 DEF HandlerOK, FieldsOK, NewOK, Row
<1>2. /\ rows' = rows \cup {new} /\ personal' = personal \cup {new.id}
      /\ members' = members \cup {new.id}
      /\ Finish(h)
      /\ UNCHANGED <<clerk, address, events, inserted, left, overlapped>>
  BY DEF CommitInsert, clerkVars
<1>3. /\ pending' \subseteq Event /\ duplicates' \in 0..MaxDuplicates
      /\ applied' \in [ClerkIds -> 0..MaxEvents]
      /\ {buried', overtaken'} \subseteq SUBSET ClerkIds
  <2>1. CASE handler[h].kind = "event"
    BY <1>0, <2>1, AnswerTypes DEF CommitInsert, HandlerOK, FieldsOK
  <2>2. CASE handler[h].kind # "event"
    BY <1>0, <2>2 DEF CommitInsert, TypeOK
  <2> QED
    BY <2>1, <2>2
<1>4. revived' \subseteq ClerkIds
  BY <1>0, <1>1 DEF CommitInsert, TypeOK
<1>5. \A r \in rows : r.id \in personal /\ r.id # new.id
  BY <1>0, <1>1 DEF MirrorInv, OneRowPerAccount, TypeOK
<1> HIDE DEF new
<1>6. IdsOK'
  BY <1>2, <1>5 DEF MirrorInv, IdsOK
<1>7. OneRowPerAccount'
  <2>1. members' = {r.id : r \in rows'}
    BY <1>2 DEF MirrorInv, OneRowPerAccount
  <2>2. \A r, t \in rows' : r.clerk = t.clerk \/ r.email = t.email => r = t
    BY <1>1, <1>2 DEF MirrorInv, OneRowPerAccount
  <2> QED
    BY <2>1, <2>2 DEF OneRowPerAccount
<1>8. ASSUME NEW g \in Handlers \ {h}
      PROVE  FoundOK(handler[g])' /\ NewOK(handler[g])'
  <2>1. FoundOK(handler[g]) /\ NewOK(handler[g]) /\ Apart(handler[h], handler[g])
    BY DEF MirrorInv, HandlersOK, HandlerOK
  <2>2. handler'[g] = handler[g]
    BY <1>0, <1>2, IdleOK, HandlerFrame DEF Finish
  <2>3. FoundOK(handler[g])'
    BY <1>1, <1>2, <2>1, <2>2 DEF FoundOK
  <2>4. NewOK(handler[g])'
    BY <1>0, <1>2, <2>1, <2>2 DEF NewOK, Apart, new
  <2> QED
    BY <2>3, <2>4
<1>9. rows' \subseteq Row /\ personal' \subseteq 1..inserted /\ members' \subseteq personal'
  BY <1>0, <1>1, <1>2 DEF TypeOK
<1>10. {buried', overtaken', revived', overlapped'} \subseteq SUBSET ClerkIds
  BY <1>0, <1>2, <1>3, <1>4 DEF TypeOK
<1> QED
  BY <1>2, <1>3, <1>6, <1>7, <1>8, <1>9, <1>10, CommitFrame

\* The handler that loaded a row is about to delete it.
LEMMA DeleteRowStep ==
  ASSUME MirrorInv, NEW h \in Handlers, handler[h].pc = "loaded", handler[h].c \in ClerkIds,
         DeleteRow(h), left' \subseteq ClerkIds,
         pending' \subseteq Event, duplicates' \in 0..MaxDuplicates,
         applied' \in [ClerkIds -> 0..MaxEvents],
         {buried', overtaken'} \subseteq SUBSET ClerkIds
  PROVE  MirrorInv'
<1> DEFINE id == handler[h].found.id
<1>0. TypeOK
  BY DEF MirrorInv
<1>1. /\ rows' = {r \in rows : r.id # id} /\ members' = members \ {id} /\ Finish(h)
      /\ UNCHANGED <<clerk, address, events, inserted, personal, revived>>
  BY DEF DeleteRow, clerkVars
<1> HIDE DEF id
<1>2. overlapped' \subseteq ClerkIds
  BY <1>0 DEF DeleteRow, NoteOverlap, TypeOK
<1>3. IdsOK' /\ OneRowPerAccount'
  BY <1>1 DEF MirrorInv, IdsOK, OneRowPerAccount
<1>4. /\ Idle \in Handler /\ HandlerOK(Idle)'
      /\ \A g \in Handlers \ {h} : Apart(Idle, handler[g])
  BY IdleOK DEF Apart
<1>5. ASSUME NEW g \in Handlers \ {h}
      PROVE  FoundOK(handler[g])' /\ NewOK(handler[g])'
  <2>1. FoundOK(handler[g]) /\ NewOK(handler[g])
    BY DEF MirrorInv, HandlersOK, HandlerOK
  <2>2. handler'[g] = handler[g]
    BY <1>0, <1>1, <1>4, HandlerFrame DEF Finish
  <2> QED
    BY <1>1, <2>1, <2>2 DEF FoundOK, NewOK
<1>6. handler' \in [Handlers -> Handler] /\ HandlersOK'
  BY <1>1, <1>4, <1>5, HandlersKeep DEF Finish
<1>7. TypeOK' /\ AddressOK'
  BY <1>0, <1>1, <1>2, <1>6 DEF MirrorInv, TypeOK, AddressOK
<1> QED
  BY <1>3, <1>6, <1>7 DEF MirrorInv

LEMMA DeletingStep ==
  ASSUME MirrorInv, NEW h \in Handlers, CommitDelete(h) \/ CommitLeave(h)
  PROVE  MirrorInv'
<1>0. /\ TypeOK /\ FieldsOK(handler[h]) /\ handler[h].pc = "loaded"
      /\ handler[h].c \in ClerkIds
  BY DEF MirrorInv, HandlersOK, HandlerOK, FieldsOK, CommitDelete, CommitLeave
<1>1. CASE CommitDelete(h)
  BY <1>0, <1>1, AnswerTypes, DeleteRowStep DEF CommitDelete, FieldsOK, TypeOK
<1>2. CASE CommitLeave(h)
  BY <1>0, <1>2, DeleteRowStep DEF CommitLeave, TypeOK
<1> QED
  BY <1>1, <1>2

LEMMA UpdateStep ==
  ASSUME MirrorInv, NEW h \in Handlers, CommitUpdate(h)
  PROVE  MirrorInv'
<1> DEFINE id == handler[h].found.id
           e == handler[h].email
           c == handler[h].c
           New(r) == IF r.id = id THEN [r EXCEPT !.email = e] ELSE r
<1>0. /\ TypeOK /\ HandlerOK(handler[h]) /\ handler[h].kind = "event"
      /\ handler[h].pc = "loaded" /\ handler[h].found # None
  BY DEF MirrorInv, HandlersOK, CommitUpdate, Updates
<1>1. handler[h].event \in Event /\ c \in ClerkIds /\ e \in Addresses
  BY <1>0 DEF HandlerOK, FieldsOK
<1>2. \A r \in rows : r.id = id => r.clerk = c
  BY <1>0 DEF HandlerOK, FoundOK
<1>3. /\ Finish(h)
      /\ UNCHANGED <<clerk, address, events, inserted, personal, members, revived, left>>
      /\ Answer(handler[h].event) /\ Apply(handler[h].event) /\ NoteOverlap(h)
  BY DEF CommitUpdate, clerkVars
<1>4. /\ pending' \subseteq Event /\ duplicates' \in 0..MaxDuplicates
      /\ applied' \in [ClerkIds -> 0..MaxEvents]
      /\ {buried', overtaken'} \subseteq SUBSET ClerkIds
  BY <1>0, <1>1, <1>3, AnswerTypes
<1>5. overlapped' \subseteq ClerkIds
  BY <1>0, <1>1, <1>3 DEF NoteOverlap, TypeOK
<1>6. ASSUME NEW g \in Handlers \ {h}
      PROVE  /\ FoundOK(handler[g]) /\ NewOK(handler[g]) /\ handler'[g] = handler[g]
  <2>1. handler'[g] = handler[g]
    BY <1>0, <1>3, IdleOK, HandlerFrame DEF Finish
  <2> QED
    BY <2>1 DEF MirrorInv, HandlersOK, HandlerOK
<1>7. CASE ~Dirty(h)
  <2>1. rows' = rows
    BY <1>7 DEF CommitUpdate
  <2>2. IdsOK' /\ OneRowPerAccount'
    BY <1>3, <2>1 DEF MirrorInv, IdsOK, OneRowPerAccount
  <2>3. \A g \in Handlers \ {h} : FoundOK(handler[g])' /\ NewOK(handler[g])'
    BY <1>3, <1>6, <2>1 DEF FoundOK, NewOK
  <2> QED
    BY <1>0, <1>3, <1>4, <1>5, <2>1, <2>2, <2>3, CommitFrame DEF TypeOK
<1>8. CASE Dirty(h)
  <2>1. rows' = {New(r) : r \in rows}
    BY <1>8 DEF CommitUpdate
  <2>2. \A r \in rows : r.clerk # c => r.email # e
    BY <1>8 DEF CommitUpdate, UpdateRejected, Taken
  <2>3. \A r \in rows : /\ New(r) \in Row /\ New(r).id = r.id /\ New(r).clerk = r.clerk
                        /\ New(r).email = IF r.id = id THEN e ELSE r.email
    BY <1>0, <1>1 DEF TypeOK, Row
  <2>4. \A r, t \in rows : r.id = t.id => r = t
    BY DEF MirrorInv, IdsOK
  <2>5. \A r, t \in rows : r.clerk = t.clerk \/ r.email = t.email => r = t
    BY DEF MirrorInv, OneRowPerAccount
  <2> HIDE DEF New
  <2>6. rows' \subseteq Row
    BY <2>1, <2>3
  <2>7. IdsOK'
    BY <2>1, <2>3, <2>4 DEF IdsOK
  <2>8. OneRowPerAccount'
    <3>1. members' = {r.id : r \in rows'}
      BY <1>3, <2>1, <2>3 DEF MirrorInv, OneRowPerAccount
    <3>2. ASSUME NEW r \in rows, NEW t \in rows,
                 New(r).clerk = New(t).clerk \/ New(r).email = New(t).email
          PROVE  New(r) = New(t)
      <4>1. r.clerk = t.clerk \/ r.email = t.email \/ (r.id = id /\ t.id = id)
              \/ (r.id = id /\ t.email = e) \/ (t.id = id /\ r.email = e)
        BY <2>3, <3>2
      <4> QED
        BY <1>2, <2>2, <2>4, <2>5, <4>1
    <3> QED
      BY <2>1, <3>1, <3>2 DEF OneRowPerAccount
  <2>9. ASSUME NEW g \in Handlers \ {h}
        PROVE  FoundOK(handler[g])' /\ NewOK(handler[g])'
    <3>1. handler[g].pc = "inserted" => handler[g].new.email # e
      BY DEF CommitUpdate, MustWait
    <3>2. FoundOK(handler[g])'
      BY <1>3, <1>6, <2>1, <2>3 DEF FoundOK
    <3>3. NewOK(handler[g])'
      BY <1>3, <1>6, <2>1, <2>3, <3>1 DEF NewOK
    <3> QED
      BY <3>2, <3>3
  <2> QED
    BY <1>0, <1>3, <1>4, <1>5, <2>6, <2>7, <2>8, <2>9, CommitFrame DEF TypeOK
<1> QED
  BY <1>7, <1>8

-----------------------------------------------------------------------------
(* The theorems                                                            *)

LEMMA NextKeeps == MirrorInv /\ [Next]_vars => MirrorInv'
<1> SUFFICES ASSUME MirrorInv, [Next]_vars PROVE MirrorInv'
  OBVIOUS
<1>1. ASSUME NEW c \in ClerkIds, SignUp(c) \/ ChangeAddress(c) \/ CloseAccount(c)
      PROVE  MirrorInv'
  BY <1>1, ClerkStep
<1>2. ASSUME NEW h \in Handlers, NEW e \in pending, ReceiveEvent(h, e)
      PROVE  MirrorInv'
  BY <1>2, ReceiveStep
<1>3. ASSUME NEW h \in Handlers, NEW c \in ClerkIds, FirstRequest(h, c) \/ AskToLeave(h, c)
      PROVE  MirrorInv'
  BY <1>3, RequestStep
<1>4. ASSUME NEW h \in Handlers, HandlerStep(h)
      PROVE  MirrorInv'
  <2>1. CASE InsertFails(h) \/ RequestFails(h) \/ UpdateFails(h)
    BY <2>1, LocalEnd DEF InsertFails, RequestFails, UpdateFails
  <2>2. CASE InsertUser(h)
    BY <2>2, InsertStep
  <2>3. CASE CommitInsert(h)
    BY <2>3, CommitInsertStep
  <2>4. CASE CommitUpdate(h)
    BY <2>4, UpdateStep
  <2>5. CASE CommitDelete(h) \/ CommitLeave(h)
    BY <2>5, DeletingStep
  <2> QED
    BY <1>4, <2>1, <2>2, <2>3, <2>4, <2>5 DEF HandlerStep
<1>5. CASE UNCHANGED vars
  BY <1>5 DEF vars, MirrorInv, TypeOK, AddressOK, IdsOK, OneRowPerAccount, HandlersOK,
              HandlerOK, FieldsOK, FoundOK, NewOK, Apart
<1> QED
  BY <1>1, <1>2, <1>3, <1>4, <1>5 DEF Next

\* The strengthening that makes the properties inductive: fresh ids and keys of
\* the open inserts, rows that keep their account, addresses Clerk has given.
THEOREM MirrorInvariant == Spec => []MirrorInv
BY InitMirror, NextKeeps, PTL DEF Spec

\* Type correctness, whatever the numbers of accounts, handlers and events.
THEOREM TypeCorrect == Spec => []TypeOK
<1>1. MirrorInv => TypeOK
  BY DEF MirrorInv
<1> QED
  BY <1>1, MirrorInvariant, PTL

\* However many requests and webhook calls race for the first insert, update an
\* address or delete a row: one row per account, one user per address, and every
\* row owns its personal workspace.
THEOREM OneRow == Spec => []OneRowPerAccount
<1>1. MirrorInv => OneRowPerAccount
  BY DEF MirrorInv
<1> QED
  BY <1>1, MirrorInvariant, PTL

-----------------------------------------------------------------------------
(* The table follows Clerk                                                 *)

Excepted(c) == c \in overtaken \cup overlapped \cup left \cup revived

\* A handler works for the account of its event, and inserts what it was given.
SourceOK(s) ==
    /\ s.pc = "idle" => s.kind = "none" /\ s.c = None
    /\ s.kind = "event" => /\ s.c = s.event.clerk /\ s.email = s.event.email
                           /\ s.event.kind = "deleted" => s.found # None
    /\ s.pc = "inserted" => /\ s.found = None
                            /\ s.new.clerk = s.c /\ s.new.email = s.email

\* An event that may still take effect, and one that says what Clerk says now.
Held(e) == \/ e \in pending
           \/ \E h \in Handlers : handler[h].kind = "event" /\ handler[h].event = e
Current(e) == IF clerk[e.clerk] = "gone" THEN e.kind = "deleted"
              ELSE e.kind # "deleted" /\ e.email = address[e.clerk]

Matches(c) == IF clerk[c] = "gone" THEN c \in buried /\ \A r \in rows : r.clerk # c
              ELSE \E r \in rows : r.clerk = c /\ r.email = address[c]

\* The newest event of an account is number n: it says what Clerk says now, it
\* is applied or still to come, and once it is applied the table says the same.
Newest(c, n) ==
    /\ applied[c] <= n /\ n <= events
    /\ \A e \in Event : Held(e) /\ e.clerk = c => e.n <= n /\ (e.n = n => Current(e))
    /\ applied[c] = n \/ \E e \in pending : e.clerk = c /\ e.n = n
    /\ applied[c] = n => Matches(c) \/ Excepted(c)

\* Nothing is known of an account that never signed up.
Unknown(c) == /\ applied[c] = 0
              /\ \A r \in rows : r.clerk # c
              /\ \A e \in pending : e.clerk # c
              /\ \A h \in Handlers : handler[h].c # c

Tracked(c) == IF clerk[c] = "none" THEN Unknown(c)
              ELSE \E n \in 1..MaxEvents : Newest(c, n)

LockInv == /\ MirrorInv
           /\ \A h \in Handlers : SourceOK(handler[h])
           /\ \A c \in ClerkIds : Tracked(c)

\* What the steps below need of the invariant.
LEMMA LockTypes ==
  ASSUME LockInv
  PROVE  /\ TypeOK /\ MaxEvents \in Nat /\ events \in Nat
         /\ handler \in [Handlers -> Handler]
         /\ \A h \in Handlers : HandlerOK(handler[h]) /\ SourceOK(handler[h])
         /\ \A e \in Event : e.clerk \in ClerkIds /\ e.n \in Nat
         /\ \A c \in ClerkIds : applied[c] \in Nat
         /\ \A e \in pending : e \in Event /\ Held(e)
<1>1. TypeOK /\ MaxEvents \in Nat
  BY ConstantsAssumption DEF LockInv, MirrorInv
<1>2. \A e \in Event : e.clerk \in ClerkIds /\ e.n \in Nat
  BY <1>1 DEF Event
<1> QED
  BY <1>1, <1>2 DEF LockInv, MirrorInv, HandlersOK, TypeOK, Held

\* Whoever has an event or a handler has signed up.
LEMMA HeldIsKnown ==
  ASSUME LockInv, NEW e \in Event, Held(e)
  PROVE  clerk[e.clerk] # "none"
<1> SUFFICES ASSUME clerk[e.clerk] = "none" PROVE FALSE
  OBVIOUS
<1>1. Unknown(e.clerk)
  BY LockTypes DEF LockInv, Tracked
<1>2. PICK h \in Handlers : handler[h].kind = "event" /\ handler[h].event = e
  BY <1>1 DEF Held, Unknown
<1>3. handler[h].c = e.clerk
  BY <1>2, LockTypes DEF SourceOK
<1> QED
  BY <1>1, <1>3 DEF Unknown

\* A step that leaves Clerk and the history of an account alone, and adds no
\* event of it.
LEMMA TrackedKept ==
  ASSUME LockInv, NEW d \in ClerkIds, UNCHANGED <<clerk, address, events>>,
         applied'[d] = applied[d],
         \A e \in Event : e.clerk = d /\ Held(e)' => Held(e),
         \A e \in pending \cup pending' : e.clerk = d => e \in pending /\ e \in pending',
         clerk[d] # "none" /\ (Matches(d) \/ Excepted(d)) => Matches(d)' \/ Excepted(d)',
         clerk[d] = "none" => /\ \A r \in rows' : r.clerk # d
                              /\ \A h \in Handlers : handler'[h].c # d
  PROVE  Tracked(d)'
<1>1. CASE clerk[d] = "none"
  BY <1>1 DEF LockInv, Tracked, Unknown
<1>2. CASE clerk[d] # "none"
  <2>1. PICK n \in 1..MaxEvents : Newest(d, n)
    BY <1>2 DEF LockInv, Tracked
  <2>2. \A e \in Event : Held(e)' /\ e.clerk = d => e.n <= n /\ (e.n = n => Current(e)')
    BY <2>1 DEF Newest, Current
  <2>3. applied'[d] = n \/ \E e \in pending' : e.clerk = d /\ e.n = n
    BY <2>1 DEF Newest
  <2>4. Newest(d, n)'
    BY <1>2, <2>1, <2>2, <2>3 DEF Newest
  <2> QED
    BY <1>2, <2>4 DEF Tracked
<1> QED
  BY <1>1, <1>2

\* The events of Clerk: the new one is the newest.
LEMMA ClerkTracked ==
  ASSUME LockInv, NEW c \in ClerkIds,
         SignUp(c) \/ ChangeAddress(c) \/ CloseAccount(c)
  PROVE  \A d \in ClerkIds : Tracked(d)'
<1>1. PICK a \in Emails, kind \in {"created", "updated", "deleted"} :
          /\ Emit(c, kind, a)
          /\ clerk'[c] \in {"live", "gone"}
          /\ IF clerk'[c] = "gone" THEN kind = "deleted"
             ELSE kind # "deleted" /\ a = address'[c]
          /\ \A d \in ClerkIds \ {c} : clerk'[d] = clerk[d] /\ address'[d] = address[d]
  <2>1. TypeOK /\ AddressOK
    BY DEF LockInv, MirrorInv
  <2>2. CASE SignUp(c)
    BY <2>1, <2>2 DEF SignUp, TypeOK
  <2>3. CASE ChangeAddress(c)
    BY <2>1, <2>3 DEF ChangeAddress, TypeOK
  <2>4. CASE CloseAccount(c)
    BY <2>1, <2>4 DEF CloseAccount, TypeOK, AddressOK
  <2> QED
    BY <2>2, <2>3, <2>4
<1>2. PICK n \in 1..MaxEvents : n = events + 1 /\ events' = n
  BY <1>1, LockTypes DEF Emit
<1>3. PICK ev \in Event :
          /\ ev.n = n /\ ev.clerk = c /\ ev.kind = kind /\ ev.email = a
          /\ pending' = pending \cup {ev}
          /\ UNCHANGED <<rows, handler, applied, overtaken, overlapped, left, revived,
                         buried>>
  <2>1. [n |-> n, clerk |-> c, kind |-> kind, email |-> a] \in Event
    BY DEF Event
  <2> QED
    BY <1>1, <1>2, <2>1 DEF Emit, tableVars, ghostVars
<1>4. \A e \in Event : Held(e)' => Held(e) \/ e = ev
  BY <1>3 DEF Held
<1>5. ASSUME NEW e \in Event, Held(e) PROVE e.n <= events
  <2>1. PICK m \in 1..MaxEvents : Newest(e.clerk, m)
    BY <1>5, HeldIsKnown, LockTypes DEF LockInv, Tracked
  <2> QED
    BY <1>5, <2>1, LockTypes DEF Newest
<1>6. applied[c] <= events
  <2>1. CASE clerk[c] = "none"
    BY <2>1, LockTypes DEF LockInv, Tracked, Unknown
  <2>2. CASE clerk[c] # "none"
    BY <2>2, LockTypes DEF LockInv, Tracked, Newest
  <2> QED
    BY <2>1, <2>2
<1>7. Tracked(c)'
  <2>1. Current(ev)'
    BY <1>1, <1>3 DEF Current
  <2>2. \A e \in Event : Held(e)' /\ e.clerk = c =>
            e.n <= n /\ (e.n = n => Current(e)')
    BY <1>2, <1>3, <1>4, <1>5, <2>1, LockTypes
  <2>3. applied'[c] < n
    BY <1>2, <1>3, <1>6, LockTypes
  <2>4. Newest(c, n)'
    BY <1>2, <1>3, <2>2, <2>3, LockTypes DEF Newest
  <2> QED
    BY <1>1, <2>4 DEF Tracked
<1>8. ASSUME NEW d \in ClerkIds, d # c PROVE Tracked(d)'
  <2>1. Tracked(d) /\ clerk'[d] = clerk[d] /\ address'[d] = address[d]
    BY <1>1, <1>8 DEF LockInv
  <2>2. CASE clerk[d] = "none"
    BY <1>3, <1>8, <2>1, <2>2 DEF Tracked, Unknown
  <2>3. CASE clerk[d] # "none"
    <3>1. PICK m \in 1..MaxEvents : Newest(d, m)
      BY <2>1, <2>3 DEF Tracked
    <3>2. \A e \in Event : Held(e)' /\ e.clerk = d => e.n <= m /\ (e.n = m => Current(e)')
      BY <1>3, <1>4, <1>8, <2>1, <3>1 DEF Newest, Current
    <3>3. Matches(d) \/ Excepted(d) => Matches(d)' \/ Excepted(d)'
      BY <1>3, <2>1 DEF Matches, Excepted
    <3>4. m <= events'
      BY <1>2, <3>1, LockTypes DEF Newest
    <3>5. Newest(d, m)'
      BY <1>2, <1>3, <3>1, <3>2, <3>3, <3>4 DEF Newest
    <3> QED
      BY <2>1, <2>3, <3>5 DEF Tracked
  <2> QED
    BY <2>2, <2>3
<1> QED
  BY <1>7, <1>8

\* An event that takes effect: it is the newest, or a newer one comes, or it has
\* been overtaken.
LEMMA ApplyTracked ==
  ASSUME LockInv, NEW e \in Event, Held(e), Answer(e), Apply(e),
         UNCHANGED <<clerk, address, events>>,
         \A x \in Event : Held(x)' => Held(x),
         Excepted(e.clerk) => Excepted(e.clerk)',
         Current(e) => Matches(e.clerk)' \/ Excepted(e.clerk)'
  PROVE  Tracked(e.clerk)'
<1>1. PICK c \in ClerkIds : c = e.clerk
  BY LockTypes
<1>2. clerk[c] # "none"
  BY <1>1, HeldIsKnown
<1>3. PICK n \in 1..MaxEvents : Newest(c, n)
  BY <1>2 DEF LockInv, Tracked
<1>4. /\ applied[c] \in Nat /\ e.n \in Nat /\ n \in Nat
      /\ applied'[c] = IF e.n > applied[c] THEN e.n ELSE applied[c]
      /\ e.n < applied[c] => c \in overtaken'
  BY <1>1, LockTypes DEF Apply, TypeOK
<1>5. e.n <= n /\ (e.n = n => Current(e)) /\ applied[c] <= n
  BY <1>1, <1>3 DEF Newest
<1>6. \A x \in Event : Held(x)' /\ x.clerk = c => x.n <= n /\ (x.n = n => Current(x)')
  BY <1>3 DEF Newest, Current
<1>7. applied'[c] <= n
  BY <1>4, <1>5
<1>8. applied'[c] = n \/ \E x \in pending' : x.clerk = c /\ x.n = n
  <2>1. CASE e.n = n
    BY <1>4, <1>5, <2>1
  <2>2. CASE e.n # n
    <3>1. applied[c] = n \/ \E x \in pending : x.clerk = c /\ x.n = n /\ x # e
      BY <1>3, <2>2 DEF Newest
    <3>2. pending \ {e} \subseteq pending'
      BY DEF Answer
    <3> QED
      BY <1>4, <1>5, <3>1, <3>2
  <2> QED
    BY <2>1, <2>2
<1>9. ASSUME applied'[c] = n PROVE Matches(c)' \/ Excepted(c)'
  <2>1. e.n = n \/ (e.n < n /\ applied[c] = n)
    BY <1>4, <1>5, <1>9
  <2> QED
    BY <1>1, <1>4, <1>5, <2>1 DEF Excepted
<1>10. Newest(c, n)'
  BY <1>3, <1>6, <1>7, <1>8, <1>9 DEF Newest
<1> QED
  BY <1>1, <1>2, <1>10 DEF Tracked

\* A step that only changes what a handler does, for an account that is known.
LEMMA LocalTracked ==
  ASSUME LockInv, NEW h \in Handlers,
         UNCHANGED <<clerkVars, tableVars, pending, duplicates, ghostVars>>,
         \A g \in Handlers \ {h} : handler'[g] = handler[g],
         handler'[h].kind = "event" => Held(handler'[h].event),
         \A d \in ClerkIds : handler'[h].c = d => clerk[d] # "none"
  PROVE  \A d \in ClerkIds : Tracked(d)'
<1>1. UNCHANGED <<clerk, address, events, rows, applied, overtaken, overlapped, left,
                  revived, buried, pending>>
  BY DEF clerkVars, tableVars, ghostVars
<1> SUFFICES ASSUME NEW d \in ClerkIds PROVE Tracked(d)'
  OBVIOUS
<1>2. \A e \in Event : Held(e)' => Held(e)
  BY <1>1 DEF Held
<1>3. Matches(d) \/ Excepted(d) => Matches(d)' \/ Excepted(d)'
  BY <1>1 DEF Matches, Excepted
<1>4. clerk[d] = "none" => /\ \A r \in rows' : r.clerk # d
                           /\ \A g \in Handlers : handler'[g].c # d
  BY <1>1 DEF LockInv, Tracked, Unknown
<1> QED
  BY <1>1, <1>2, <1>3, <1>4, TrackedKept

\* A handler that ends forgets its event; the others keep theirs.
LEMMA FinishHeld ==
  ASSUME LockInv, NEW h \in Handlers, Finish(h), pending' \subseteq pending
  PROVE  /\ \A e \in Event : Held(e)' => Held(e)
         /\ handler'[h] = Idle /\ \A g \in Handlers \ {h} : handler'[g] = handler[g]
         /\ SourceOK(handler'[h])
<1>1. handler'[h] = Idle /\ \A g \in Handlers \ {h} : handler'[g] = handler[g]
  BY LockTypes DEF Finish
<1>2. SourceOK(Idle) /\ Idle.kind = "none"
  BY DEF Idle, SourceOK
<1> QED
  BY <1>1, <1>2 DEF Held

\* Receiving an event: it is held, or a deletion finds nothing to delete.
LEMMA ReceiveTracked ==
  ASSUME LockInv, NEW h \in Handlers, NEW e \in pending, ReceiveEvent(h, e)
  PROVE  /\ \A d \in ClerkIds : Tracked(d)'
         /\ \A g \in Handlers : SourceOK(handler'[g])
<1>1. /\ e \in Event /\ Held(e) /\ e.clerk \in ClerkIds /\ clerk[e.clerk] # "none"
      /\ TypeOK
  BY LockTypes, HeldIsKnown
<1>2. CASE e.kind = "deleted" /\ Lookup(e.clerk) = None
  <2>1. /\ Answer(e) /\ Apply(e) /\ pending' \subseteq pending
        /\ UNCHANGED <<clerk, address, events, rows, handler, overlapped, left, revived>>
    BY <1>2 DEF ReceiveEvent, Answer, clerkVars, tableVars
  <2>2. \A x \in Event : Held(x)' => Held(x)
    BY <2>1 DEF Held
  <2>3. \A r \in rows : r.clerk # e.clerk
    <3>1. ASSUME NEW r \in rows, r.clerk = e.clerk PROVE FALSE
      <4>1. r \in RowsOf(e.clerk) /\ Lookup(e.clerk) \in RowsOf(e.clerk)
        BY <3>1 DEF RowsOf, Lookup
      <4> QED
        BY <1>1, <1>2, <4>1, ConstantsAssumption DEF RowsOf, TypeOK, Row, Addresses
    <3> QED
      BY <3>1
  <2>4. \A d \in ClerkIds : Excepted(d) => Excepted(d)'
    BY <2>1 DEF Excepted, Apply
  <2>5. Current(e) => Matches(e.clerk)'
    BY <1>1, <1>2, <2>1, <2>3 DEF Current, Matches, Apply
  <2>6. Tracked(e.clerk)'
    BY <1>1, <2>1, <2>2, <2>4, <2>5, ApplyTracked
  <2>7. ASSUME NEW d \in ClerkIds, d # e.clerk PROVE Tracked(d)'
    <3>1. applied'[d] = applied[d] /\ (d \in buried => d \in buried')
      BY <1>1, <2>1, <2>7 DEF Apply, TypeOK
    <3>2. \A x \in pending \cup pending' : x.clerk = d => x \in pending /\ x \in pending'
      BY <2>1, <2>7 DEF Answer
    <3>3. Matches(d) \/ Excepted(d) => Matches(d)' \/ Excepted(d)'
      BY <2>1, <2>4, <3>1 DEF Matches
    <3>4. clerk[d] = "none" => /\ \A r \in rows' : r.clerk # d
                               /\ \A g \in Handlers : handler'[g].c # d
      BY <2>1 DEF LockInv, Tracked, Unknown
    <3> QED
      BY <2>1, <2>2, <3>1, <3>2, <3>3, <3>4, TrackedKept
  <2> QED
    BY <2>1, <2>6, <2>7, LockTypes
<1>3. CASE ~(e.kind = "deleted" /\ Lookup(e.clerk) = None)
  <2> DEFINE s == [Idle EXCEPT !.pc = "loaded", !.kind = "event", !.event = e,
                              !.c = e.clerk, !.email = e.email,
                              !.found = Lookup(e.clerk)]
  <2>1. handler' = [handler EXCEPT ![h] = s]
    BY <1>3 DEF ReceiveEvent
  <2>2. /\ UNCHANGED <<pending, duplicates, applied, buried, overtaken>>
        /\ UNCHANGED <<clerkVars, tableVars, inserted, revived, overlapped, left>>
    BY <1>3 DEF ReceiveEvent
  <2>3. /\ s.pc = "loaded" /\ s.kind = "event" /\ s.event = e /\ s.c = e.clerk
        /\ s.email = e.email /\ s.found = Lookup(e.clerk)
    BY DEF Idle
  <2> HIDE DEF s
  <2>4. handler'[h] = s /\ \A g \in Handlers \ {h} : handler'[g] = handler[g]
    BY <2>1, LockTypes
  <2>5. SourceOK(s)
    BY <1>3, <2>3 DEF SourceOK
  <2>6. UNCHANGED ghostVars
    BY <2>2 DEF ghostVars
  <2>7. \A d \in ClerkIds : Tracked(d)'
    BY <1>1, <2>2, <2>3, <2>4, <2>6, LocalTracked
  <2> QED
    BY <2>4, <2>5, <2>7, LockTypes
<1> QED
  BY <1>2, <1>3

\* A request for an account that has signed up, and the insert of its row.
LEMMA RequestTracked ==
  ASSUME LockInv, NEW h \in Handlers,
         \/ \E c \in ClerkIds : FirstRequest(h, c) \/ AskToLeave(h, c)
         \/ InsertUser(h)
  PROVE  /\ \A d \in ClerkIds : Tracked(d)'
         /\ \A g \in Handlers : SourceOK(handler'[g])
<1>1. UNCHANGED <<clerkVars, tableVars, pending, duplicates, ghostVars>>
  BY DEF FirstRequest, AskToLeave, InsertUser
<1> DEFINE Becomes(s) == /\ handler' = [handler EXCEPT ![h] = s]
                         /\ SourceOK(s)
                         /\ s.kind = "event" => Held(s.event)
                         /\ \A d \in ClerkIds : s.c = d => clerk[d] # "none"
<1>2. PICK s \in Handler : Becomes(s)
  <2>1. ASSUME NEW c \in ClerkIds, FirstRequest(h, c) PROVE \E s \in Handler : Becomes(s)
    <3>1. PICK e \in {Placeholder(c), address[c]} :
            handler' = [handler EXCEPT ![h] =
              [Idle EXCEPT !.pc = "loaded", !.kind = "request", !.c = c, !.email = e]]
      BY <2>1 DEF FirstRequest
    <3>2. PICK s : s = [Idle EXCEPT !.pc = "loaded", !.kind = "request", !.c = c,
                                    !.email = e]
      OBVIOUS
    <3>3. e \in Addresses /\ clerk[c] # "none"
      BY <2>1, LockTypes DEF FirstRequest, LockInv, MirrorInv, AddressOK, Addresses,
                             Placeholder
    <3>4. /\ s \in Handler /\ s.pc = "loaded" /\ s.kind = "request" /\ s.c = c
      BY <3>2, <3>3 DEF Idle, Handler
    <3> QED
      BY <3>1, <3>2, <3>3, <3>4 DEF SourceOK
  <2>2. ASSUME NEW c \in ClerkIds, AskToLeave(h, c) PROVE \E s \in Handler : Becomes(s)
    <3>1. PICK s : s = [Idle EXCEPT !.pc = "loaded", !.kind = "leave", !.c = c,
                                    !.found = Lookup(c)]
      OBVIOUS
    <3>2. Lookup(c) \in Row \cup {None}
      BY LockTypes, LookupFinds
    <3>3. s \in Handler /\ s.pc = "loaded" /\ s.kind = "leave" /\ s.c = c
      BY <3>1, <3>2 DEF Idle, Handler
    <3> QED
      BY <2>2, <3>1, <3>3 DEF AskToLeave, SourceOK
  <2>3. CASE InsertUser(h)
    <3> DEFINE c == handler[h].c
               new == [id |-> inserted + 1, clerk |-> c, email |-> handler[h].email]
               s == [handler[h] EXCEPT !.pc = "inserted", !.new = new]
    <3>1. /\ handler[h] \in Handler /\ handler[h].pc = "loaded" /\ handler[h].found = None
          /\ handler[h].kind \in {"event", "request"}
          /\ c \in ClerkIds /\ handler[h].email \in Addresses
          /\ SourceOK(handler[h])
      BY <2>3, LockTypes DEF InsertUser, Inserts, HandlerOK, FieldsOK, Handler
    <3>2. new \in Row
      BY <2>3, <3>1, LockTypes, ConstantsAssumption DEF InsertUser, TypeOK, Row
    <3>3. new.clerk = c /\ new.email = handler[h].email
      OBVIOUS
    <3>4. handler' = [handler EXCEPT ![h] = s]
      BY <2>3 DEF InsertUser
    <3> HIDE DEF new
    <3>5. /\ s \in Handler /\ s.pc = "inserted" /\ s.new = new /\ s.c = c
          /\ s.email = handler[h].email /\ s.kind = handler[h].kind
          /\ s.event = handler[h].event /\ s.found = None
      BY <3>1, <3>2 DEF Handler
    <3>6. SourceOK(s)
      BY <3>1, <3>3, <3>5 DEF SourceOK
    <3>7. s.kind = "event" => Held(s.event)
      BY <3>5 DEF Held
    <3>8. clerk[c] # "none"
      BY <3>1 DEF LockInv, Tracked, Unknown
    <3> HIDE DEF s
    <3> QED
      BY <3>4, <3>5, <3>6, <3>7, <3>8
  <2> QED
    BY <2>1, <2>2, <2>3
<1>3. handler'[h] = s /\ \A g \in Handlers \ {h} : handler'[g] = handler[g]
  BY <1>2, LockTypes
<1>4. \A d \in ClerkIds : Tracked(d)'
  BY <1>1, <1>2, <1>3, LocalTracked
<1> QED
  BY <1>2, <1>3, <1>4, LockTypes

\* A handler that gives up.
LEMMA EndTracked ==
  ASSUME LockInv, NEW h \in Handlers, InsertFails(h) \/ RequestFails(h) \/ UpdateFails(h)
  PROVE  /\ \A d \in ClerkIds : Tracked(d)'
         /\ \A g \in Handlers : SourceOK(handler'[g])
<1>1. Finish(h) /\ UNCHANGED <<clerkVars, tableVars, pending, duplicates, ghostVars>>
  BY DEF InsertFails, RequestFails, UpdateFails
<1>2. /\ handler'[h] = Idle /\ \A g \in Handlers \ {h} : handler'[g] = handler[g]
      /\ SourceOK(handler'[h])
  BY <1>1, FinishHeld
<1>3. Idle.kind = "none" /\ Idle.c \notin ClerkIds
  BY ConstantsAssumption DEF Idle
<1>4. \A d \in ClerkIds : Tracked(d)'
  BY <1>1, <1>2, <1>3, LocalTracked
<1> QED
  BY <1>2, <1>4, LockTypes

\* A handler that commits: the other accounts do not notice.
LEMMA OthersTracked ==
  ASSUME LockInv, NEW h \in Handlers, NEW c \in ClerkIds, handler[h].c = c, Finish(h),
         UNCHANGED <<clerk, address, events>>,
         \A r \in rows \cup rows' : r.clerk # c => r \in rows /\ r \in rows',
         \A d \in ClerkIds \ {c} :
             /\ applied'[d] = applied[d] /\ (Excepted(d) => Excepted(d)')
             /\ d \in buried => d \in buried'
             /\ \A x \in pending \cup pending' : x.clerk = d => x \in pending /\ x \in pending',
         pending' \subseteq pending
  PROVE  \A d \in ClerkIds \ {c} : Tracked(d)'
<1> SUFFICES ASSUME NEW d \in ClerkIds \ {c} PROVE Tracked(d)'
  OBVIOUS
<1>1. /\ \A x \in Event : Held(x)' => Held(x)
      /\ handler'[h] = Idle /\ \A g \in Handlers \ {h} : handler'[g] = handler[g]
  BY FinishHeld
<1>2. Idle.c \notin ClerkIds
  BY ConstantsAssumption DEF Idle
<1>3. Matches(d) \/ Excepted(d) => Matches(d)' \/ Excepted(d)'
  BY DEF Matches
<1>4. clerk[d] = "none" => /\ \A r \in rows' : r.clerk # d
                           /\ \A g \in Handlers : handler'[g].c # d
  BY <1>1, <1>2 DEF LockInv, Tracked, Unknown
<1> QED
  BY <1>1, <1>3, <1>4, TrackedKept

\* What the history of an event says of other accounts than its own.
LEMMA ApplyOthers ==
  ASSUME LockInv, NEW e \in Event, Answer(e), Apply(e), UNCHANGED <<left>>,
         overlapped \subseteq overlapped', revived \subseteq revived'
  PROVE  /\ pending' \subseteq pending
         /\ \A d \in ClerkIds : /\ Excepted(d) => Excepted(d)'
                                /\ d \in buried => d \in buried'
         /\ \A d \in ClerkIds \ {e.clerk} :
              /\ applied'[d] = applied[d]
              /\ \A x \in pending \cup pending' :
                    x.clerk = d => x \in pending /\ x \in pending'
<1>1. TypeOK
  BY LockTypes
<1>2. pending' \subseteq pending /\ pending \ {e} \subseteq pending'
  BY DEF Answer
<1>3. \A d \in ClerkIds : (Excepted(d) => Excepted(d)') /\ (d \in buried => d \in buried')
  BY DEF Apply, Excepted
<1>4. \A d \in ClerkIds \ {e.clerk} : applied'[d] = applied[d]
  BY <1>1 DEF Apply, TypeOK
<1> QED
  BY <1>2, <1>3, <1>4

\* What a handler's commit starts from.
LEMMA Committing ==
  ASSUME LockInv, NEW h \in Handlers, handler[h].pc # "idle"
  PROVE  /\ handler[h].c \in ClerkIds /\ clerk[handler[h].c] # "none"
         /\ FieldsOK(handler[h]) /\ FoundOK(handler[h]) /\ NewOK(handler[h])
         /\ SourceOK(handler[h])
         /\ handler[h].kind = "event" => /\ handler[h].event \in Event
                                         /\ Held(handler[h].event)
                                         /\ handler[h].c = handler[h].event.clerk
                                         /\ handler[h].email = handler[h].event.email
<1>1. /\ FieldsOK(handler[h]) /\ FoundOK(handler[h]) /\ NewOK(handler[h])
      /\ SourceOK(handler[h]) /\ handler[h].c \in ClerkIds
  BY LockTypes DEF HandlerOK, FieldsOK
<1>2. clerk[handler[h].c] # "none"
  BY <1>1 DEF LockInv, Tracked, Unknown
<1> QED
  BY <1>1, <1>2 DEF FieldsOK, SourceOK, Held

\* The first insert: by an event with the address Clerk sent, or by a request for
\* an account whose newest event is still to come.
LEMMA InsertTracked ==
  ASSUME LockInv, NEW h \in Handlers, CommitInsert(h)
  PROVE  /\ \A d \in ClerkIds : Tracked(d)'
         /\ \A g \in Handlers : SourceOK(handler'[g])
<1>1. PICK c \in ClerkIds : handler[h].c = c
  BY Committing DEF CommitInsert
<1>2. PICK new \in Row : new = handler[h].new
  BY Committing DEF CommitInsert, FieldsOK
<1>3. /\ clerk[c] # "none" /\ new.clerk = c /\ new.email = handler[h].email
      /\ handler[h].found = None /\ \A r \in rows : r.clerk # c
  BY <1>1, <1>2, Committing DEF CommitInsert, SourceOK, NewOK
<1>4. /\ rows' = rows \cup {new} /\ Finish(h)
      /\ UNCHANGED <<clerk, address, events, overlapped, left>>
      /\ revived' = IF c \in buried THEN revived \cup {c} ELSE revived
  BY <1>1, <1>2, <1>3 DEF CommitInsert, clerkVars
<1>5. /\ pending' \subseteq pending
      /\ \A d \in ClerkIds : /\ Excepted(d) => Excepted(d)'
                             /\ d \in buried => d \in buried'
      /\ \A d \in ClerkIds \ {c} :
           /\ applied'[d] = applied[d]
           /\ \A x \in pending \cup pending' : x.clerk = d => x \in pending /\ x \in pending'
  <2>1. CASE handler[h].kind = "event"
    <3>1. /\ handler[h].event \in Event /\ handler[h].event.clerk = c
          /\ Answer(handler[h].event) /\ Apply(handler[h].event)
      BY <1>1, <2>1, Committing DEF CommitInsert
    <3>2. overlapped \subseteq overlapped' /\ revived \subseteq revived'
      BY <1>4
    <3> QED
      BY <1>4, <3>1, <3>2, ApplyOthers
  <2>2. CASE handler[h].kind # "event"
    BY <1>4, <2>2 DEF CommitInsert, Excepted
  <2> QED
    BY <2>1, <2>2
<1>6. \A d \in ClerkIds \ {c} : Tracked(d)'
  <2>1. \A r \in rows \cup rows' : r.clerk # c => r \in rows /\ r \in rows'
    BY <1>3, <1>4
  <2> QED
    BY <1>1, <1>4, <1>5, <2>1, OthersTracked
<1>7. \A x \in Event : Held(x)' => Held(x)
  BY <1>4, <1>5, FinishHeld
<1>8. CASE handler[h].kind = "event"
  <2>1. PICK e \in Event : e = handler[h].event
    BY <1>8, Committing DEF CommitInsert
  <2>2. /\ Held(e) /\ e.clerk = c /\ new.email = e.email /\ e.kind # "deleted"
        /\ Answer(e) /\ Apply(e)
    BY <1>1, <1>3, <1>8, <2>1, Committing DEF CommitInsert, SourceOK
  <2>3. Current(e) => Matches(c)'
    BY <1>3, <1>4, <2>2 DEF Current, Matches
  <2>4. Tracked(c)'
    BY <1>4, <1>5, <1>7, <2>2, <2>3, ApplyTracked
  <2> QED
    BY <1>4, <1>5, <1>6, <2>4, FinishHeld, LockTypes
<1>9. CASE handler[h].kind # "event"
  <2>1. UNCHANGED <<pending, applied, buried, overtaken>>
    BY <1>9 DEF CommitInsert
  <2>2. Matches(c) \/ Excepted(c) => Excepted(c)'
    BY <1>3, <1>4, <1>5 DEF Matches, Excepted
  <2>3. Tracked(c)'
    BY <1>3, <1>4, <1>7, <2>1, <2>2, TrackedKept
  <2> QED
    BY <1>4, <1>5, <1>6, <2>3, FinishHeld, LockTypes
<1> QED
  BY <1>8, <1>9

\* The row that is still what the handler loaded.
LEMMA NotMoved ==
  ASSUME LockInv, NEW h \in Handlers, handler[h].pc = "loaded", handler[h].found # None
  PROVE  ~Moved(h) => handler[h].found \in rows /\ handler[h].found.clerk = handler[h].c
BY LockTypes, LookupFinds, Committing DEF Moved

\* An update writes the address of its event, and only into its account's row.
LEMMA UpdateTracked ==
  ASSUME LockInv, NEW h \in Handlers, CommitUpdate(h)
  PROVE  /\ \A d \in ClerkIds : Tracked(d)'
         /\ \A g \in Handlers : SourceOK(handler'[g])
<1>1. /\ handler[h].kind = "event" /\ handler[h].pc = "loaded"
      /\ handler[h].found # None /\ handler[h].event.kind # "deleted"
  BY DEF CommitUpdate, Updates
<1>2. PICK e \in Event : e = handler[h].event
  BY <1>1, Committing
<1>3. PICK c \in ClerkIds : c = e.clerk
  BY LockTypes
<1>4. /\ Held(e) /\ handler[h].c = c /\ handler[h].email = e.email
      /\ FoundOK(handler[h])
  BY <1>1, <1>2, <1>3, Committing
<1>5. /\ Answer(e) /\ Apply(e) /\ Finish(h) /\ NoteOverlap(h)
      /\ UNCHANGED <<clerk, address, events, left, revived>>
  BY <1>2 DEF CommitUpdate, clerkVars
<1>6. overlapped \subseteq overlapped' /\ (Moved(h) => c \in overlapped')
  BY <1>4, <1>5 DEF NoteOverlap
<1>7. /\ pending' \subseteq pending
      /\ \A d \in ClerkIds : /\ Excepted(d) => Excepted(d)'
                             /\ d \in buried => d \in buried'
      /\ \A d \in ClerkIds \ {c} :
           /\ applied'[d] = applied[d]
           /\ \A x \in pending \cup pending' : x.clerk = d => x \in pending /\ x \in pending'
  BY <1>3, <1>5, <1>6, ApplyOthers
<1> DEFINE id == handler[h].found.id
           Written(r) == IF r.id = id THEN [r EXCEPT !.email = e.email] ELSE r
<1>8. rows' = IF Dirty(h) THEN {Written(r) : r \in rows} ELSE rows
  BY <1>4 DEF CommitUpdate
<1>9. \A r \in rows : /\ Written(r).clerk = r.clerk
                      /\ r.clerk # c => Written(r) = r
                      /\ r.id = id => Written(r).email = e.email
  <2>1. \A r \in rows : r.id = id => r.clerk = c
    BY <1>1, <1>4 DEF FoundOK
  <2> QED
    BY <2>1, LockTypes DEF TypeOK, Row
<1> HIDE DEF Written
<1>10. \A d \in ClerkIds \ {c} : Tracked(d)'
  <2>1. \A r \in rows \cup rows' : r.clerk # c => r \in rows /\ r \in rows'
    BY <1>8, <1>9
  <2> QED
    BY <1>4, <1>5, <1>7, <2>1, OthersTracked
<1>11. Current(e) => Matches(c)' \/ Excepted(c)'
  <2>1. CASE Moved(h)
    BY <1>6, <2>1 DEF Excepted
  <2>2. CASE ~Moved(h)
    <3>1. handler[h].found \in rows /\ handler[h].found.clerk = c
      BY <1>1, <1>4, <2>2, NotMoved
    <3>2. \E r \in rows' : r.clerk = c /\ r.email = e.email
      <4>1. CASE Dirty(h)
        BY <1>8, <1>9, <3>1, <4>1
      <4>2. CASE ~Dirty(h)
        BY <1>4, <1>8, <3>1, <4>2 DEF Dirty
      <4> QED
        BY <4>1, <4>2
    <3> QED
      BY <1>1, <1>2, <1>3, <1>5, <3>2 DEF Current, Matches
  <2> QED
    BY <2>1, <2>2
<1>12. \A x \in Event : Held(x)' => Held(x)
  BY <1>5, <1>7, FinishHeld
<1>13. Tracked(c)'
  BY <1>3, <1>4, <1>5, <1>7, <1>11, <1>12, ApplyTracked
<1> QED
  BY <1>5, <1>7, <1>10, <1>13, FinishHeld, LockTypes

\* A deletion takes the account's only row, or overlapped with another handler.
LEMMA DeleteTracked ==
  ASSUME LockInv, NEW h \in Handlers, CommitDelete(h) \/ CommitLeave(h)
  PROVE  /\ \A d \in ClerkIds : Tracked(d)'
         /\ \A g \in Handlers : SourceOK(handler'[g])
<1>1. /\ handler[h].pc = "loaded" /\ handler[h].found # None /\ DeleteRow(h)
      /\ FoundOK(handler[h])
  BY Committing DEF CommitDelete, CommitLeave, SourceOK, FieldsOK
<1>2. PICK c \in ClerkIds : c = handler[h].c
  BY <1>1, Committing
<1> DEFINE id == handler[h].found.id
<1>3. /\ rows' = {r \in rows : r.id # id} /\ Finish(h) /\ NoteOverlap(h)
      /\ UNCHANGED <<clerk, address, events, revived>>
  BY <1>1 DEF DeleteRow, clerkVars
<1>4. /\ overlapped \subseteq overlapped' /\ (Moved(h) => c \in overlapped')
      /\ \A r \in rows : r.id = id => r.clerk = c
  BY <1>1, <1>2, <1>3 DEF NoteOverlap, FoundOK
<1>5. \A r \in rows \cup rows' : r.clerk # c => r \in rows /\ r \in rows'
  BY <1>3, <1>4
<1>6. CASE CommitDelete(h)
  <2>1. PICK e \in Event : e = handler[h].event
    BY <1>1, <1>6, Committing DEF CommitDelete
  <2>2. /\ Held(e) /\ c = e.clerk /\ e.kind = "deleted" /\ Answer(e) /\ Apply(e)
        /\ UNCHANGED left
    BY <1>1, <1>2, <1>6, <2>1, Committing DEF CommitDelete
  <2>3. /\ pending' \subseteq pending
        /\ \A d \in ClerkIds : /\ Excepted(d) => Excepted(d)'
                               /\ d \in buried => d \in buried'
        /\ \A d \in ClerkIds \ {c} :
             /\ applied'[d] = applied[d]
             /\ \A x \in pending \cup pending' :
                   x.clerk = d => x \in pending /\ x \in pending'
    BY <1>3, <1>4, <2>2, ApplyOthers
  <2>4. \A d \in ClerkIds \ {c} : Tracked(d)'
    BY <1>2, <1>3, <1>5, <2>3, OthersTracked
  <2>5. Current(e) => Matches(c)' \/ Excepted(c)'
    <3>1. CASE Moved(h)
      BY <1>4, <3>1 DEF Excepted
    <3>2. CASE ~Moved(h)
      <4>1. handler[h].found \in rows /\ handler[h].found.clerk = c
        BY <1>1, <1>2, <3>2, NotMoved
      <4>2. \A r \in rows : r.clerk = c => r.id = id
        BY <4>1 DEF LockInv, MirrorInv, OneRowPerAccount
      <4>3. c \in buried' /\ \A r \in rows' : r.clerk # c
        BY <1>3, <2>2, <4>2 DEF Apply
      <4> QED
        BY <1>3, <2>2, <4>3 DEF Current, Matches
    <3> QED
      BY <3>1, <3>2
  <2>6. \A x \in Event : Held(x)' => Held(x)
    BY <1>3, <2>3, FinishHeld
  <2>7. Tracked(c)'
    BY <1>3, <2>2, <2>3, <2>5, <2>6, ApplyTracked
  <2> QED
    BY <1>3, <2>3, <2>4, <2>7, FinishHeld, LockTypes
<1>7. CASE CommitLeave(h)
  <2>1. /\ left' = left \cup {c} /\ UNCHANGED <<pending, applied, buried, overtaken>>
    BY <1>2, <1>7 DEF CommitLeave
  <2>2. \A d \in ClerkIds : Excepted(d) => Excepted(d)'
    BY <1>3, <1>4, <2>1 DEF Excepted
  <2>3. \A d \in ClerkIds \ {c} : Tracked(d)'
    BY <1>2, <1>3, <1>5, <2>1, <2>2, OthersTracked
  <2>4. \A x \in Event : Held(x)' => Held(x)
    BY <1>3, <2>1, FinishHeld
  <2>5. clerk[c] # "none" /\ Excepted(c)'
    BY <1>1, <1>2, <2>1, Committing DEF Excepted
  <2>6. Tracked(c)'
    BY <1>3, <2>1, <2>4, <2>5, TrackedKept
  <2> QED
    BY <1>3, <2>1, <2>3, <2>6, FinishHeld, LockTypes
<1> QED
  BY <1>6, <1>7

LEMMA InitLock == Init => LockInv
<1> SUFFICES ASSUME Init PROVE LockInv
  OBVIOUS
<1>1. \A h \in Handlers : SourceOK(handler[h])
  BY DEF Init, Idle, SourceOK
<1>2. \A h \in Handlers : handler[h].c \notin ClerkIds
  BY ConstantsAssumption DEF Init, Idle
<1>3. \A c \in ClerkIds : Tracked(c)
  BY <1>2 DEF Init, Tracked, Unknown
<1> QED
  BY <1>1, <1>3, InitMirror DEF LockInv

LEMMA NextLock == LockInv /\ [Next]_vars => LockInv'
<1> SUFFICES ASSUME LockInv, [Next]_vars PROVE LockInv'
  OBVIOUS
<1>1. MirrorInv'
  BY NextKeeps DEF LockInv
<1> DEFINE Rest == /\ \A d \in ClerkIds : Tracked(d)'
                   /\ \A g \in Handlers : SourceOK(handler'[g])
<1>2. ASSUME NEW c \in ClerkIds, SignUp(c) \/ ChangeAddress(c) \/ CloseAccount(c)
      PROVE  Rest
  <2>1. UNCHANGED handler
    BY <1>2 DEF SignUp, ChangeAddress, CloseAccount, Emit
  <2> QED
    BY <1>2, <2>1, ClerkTracked, LockTypes
<1>3. ASSUME NEW h \in Handlers, NEW e \in pending, ReceiveEvent(h, e)
      PROVE  Rest
  BY <1>3, ReceiveTracked
<1>4. ASSUME NEW h \in Handlers,
             \/ \E c \in ClerkIds : FirstRequest(h, c) \/ AskToLeave(h, c)
             \/ HandlerStep(h)
      PROVE  Rest
  <2>1. CASE (\E c \in ClerkIds : FirstRequest(h, c) \/ AskToLeave(h, c)) \/ InsertUser(h)
    BY <2>1, RequestTracked
  <2>2. CASE InsertFails(h) \/ RequestFails(h) \/ UpdateFails(h)
    BY <2>2, EndTracked
  <2>3. CASE CommitInsert(h)
    BY <2>3, InsertTracked
  <2>4. CASE CommitUpdate(h)
    BY <2>4, UpdateTracked
  <2>5. CASE CommitDelete(h) \/ CommitLeave(h)
    BY <2>5, DeleteTracked
  <2> QED
    BY <1>4, <2>1, <2>2, <2>3, <2>4, <2>5 DEF HandlerStep
<1>5. ASSUME UNCHANGED vars PROVE Rest
  <2>1. /\ UNCHANGED <<clerk, address, events, pending, rows, handler>>
        /\ UNCHANGED <<applied, buried, overtaken, overlapped, left, revived>>
    BY <1>5 DEF vars
  <2>2. ASSUME NEW d \in ClerkIds PROVE Tracked(d)'
    BY <2>1 DEF LockInv, Tracked, Unknown, Newest, Held, Current, Matches, Excepted
  <2> QED
    BY <2>1, <2>2, LockTypes
<1> HIDE DEF Rest
<1>6. Rest
  BY <1>2, <1>3, <1>4, <1>5 DEF Next
<1> QED
  BY <1>1, <1>6 DEF LockInv, Rest

\* Once the events of an account are answered the table says what Clerk says,
\* for every order of events, requests and overlapping handlers, with the
\* exceptions the property names.
THEOREM Lockstep == Spec => []InLockstep
<1>1. LockInv => InLockstep
  <2> SUFFICES ASSUME LockInv, NEW c \in ClerkIds, ~Excepted(c), Settled(c)
               PROVE  CASE clerk[c] = "live" -> \E r \in RowsOf(c) : r.email = address[c]
                        [] clerk[c] = "gone" -> RowsOf(c) = {}
                        [] OTHER -> RowsOf(c) = {}
    BY DEF InLockstep, Excepted
  <2>1. Tracked(c) /\ clerk[c] \in {"none", "live", "gone"}
    BY LockTypes DEF LockInv, TypeOK
  <2>2. CASE clerk[c] = "none"
    BY <2>1, <2>2 DEF Tracked, Unknown, RowsOf
  <2>3. CASE clerk[c] # "none"
    <3>1. Matches(c)
      BY <2>1, <2>3 DEF Tracked, Newest, Settled, Awaiting
    <3>2. CASE clerk[c] = "live"
      BY <3>1, <3>2 DEF Matches, RowsOf
    <3>3. CASE clerk[c] = "gone"
      BY <3>1, <3>3 DEF Matches, RowsOf
    <3> QED
      BY <2>1, <2>3, <3>2, <3>3
  <2> QED
    BY <2>2, <2>3
<1>2. Spec => []LockInv
  BY InitLock, NextLock, PTL DEF Spec
<1> QED
  BY <1>1, <1>2, PTL

=============================================================================
