-------------------------- MODULE RateLimits_proofs --------------------------
(***************************************************************************)
(* Proofs about RateLimits, for any endpoints, limits, window, tiers and    *)
(* number of overlapping requests; and, at the end, about AiRequests, the   *)
(* other limit on what a caller may ask for.                                *)
(***************************************************************************)
EXTENDS RateLimits, FiniteSetTheorems, WellFoundedInduction, TLAPS

-----------------------------------------------------------------------------
(* The inductive invariant                                                 *)

\* A request that was stamped has an endpoint and a stamp of the past.
StampsOK ==
    \A q \in Requests : request[q].pc \in {"stamped", "refused"} =>
        request[q].prefix \in Prefixes

\* The key holds the requests served since some moment, which is no later than one
\* of them -- or it is full: a refused request may prune with its later stamp.
MembersOK(p) ==
    p \notin late /\ window[p] # NoWindow =>
        \E c \in Int :
            /\ window[p].members = Recent(served[p], c)
            /\ \/ \E e \in served[p] : c <= e.stamp
               \/ Cardinality(window[p].members) >= Limit[p]

\* Nothing in Redis has outlived its time; a counter that was renewed lives a day
\* from its last touch.
ExpiryOK ==
    /\ fails.n = 0 => fails = NoKey
    /\ fails.expires # None => now < fails.expires
    /\ lock # 0 => now < lock
    /\ fails.n > 0 /\ ~cut /\ (\A q \in Requests : ~At(q, "counted"))
         => fails.expires = last + Day

FiniteOK == \A p \in Prefixes : IsFiniteSet(served[p])

LimitsInv ==
    /\ TypeOK /\ FiniteOK /\ StampsOK
    /\ \A p \in Prefixes : MembersOK(p)
    /\ WindowHolds /\ ExpiryOK

LEMMA Bounds ==
  /\ \A p \in Prefixes : Limit[p] \in Nat /\ Limit[p] >= 1
  /\ Window \in Nat /\ Window >= 1 /\ Second \in Nat /\ Second >= 1 /\ Second <= Window
  /\ Day \in Nat /\ Day >= 1
  /\ MaxServed \in Nat /\ MaxFailures \in Nat /\ MaxErrors \in Nat /\ MaxTime \in Nat
  /\ Time \subseteq Nat /\ None \notin Nat
  BY ConstantsAssumption DEF Time

-----------------------------------------------------------------------------
(* Extreme values                                                          *)

\* Among the tiers a caller has reached one has the longest ban.
LEMMA LongestBan ==
  ASSUME NEW S, S \subseteq Tiers, S # {}
  PROVE  \E m \in S : \A t \in S : m.ban >= t.ban
<1> DEFINE HasLongest(U) == \E m \in U : \A t \in U : m.ban >= t.ban
           Bad == {U \in FiniteSubsetsOf(Tiers) : U # {} /\ ~HasLongest(U)}
<1>1. \A t \in Tiers : t.ban \in Nat
  BY ConstantsAssumption
<1>2. \A U : U \subseteq Tiers => U \in FiniteSubsetsOf(Tiers)
  BY ConstantsAssumption, FS_Subset DEF FiniteSubsetsOf
<1>3. Bad = {}
  <2> SUFFICES ASSUME Bad # {} PROVE FALSE
    OBVIOUS
  <2>1. IsWellFoundedOn(StrictSubsetOrdering(Tiers), FiniteSubsetsOf(Tiers))
    BY FS_StrictSubsetOrderingWellFounded
  <2>2. Bad \subseteq FiniteSubsetsOf(Tiers)
    OBVIOUS
  <2> HIDE DEF Bad
  <2>3. PICK U \in Bad : \A V \in Bad : ~(<<V, U>> \in StrictSubsetOrdering(Tiers))
    BY <2>1, <2>2, WFMin
  <2>4. U \subseteq Tiers /\ U # {} /\ ~HasLongest(U)
    BY <2>3 DEF Bad, FiniteSubsetsOf
  <2>5. PICK x \in U : TRUE
    BY <2>4
  <2> DEFINE V == U \ {x}
  <2>6. V \subseteq Tiers /\ V \subseteq U /\ V # U
    BY <2>4, <2>5
  <2>7. V \notin Bad
    BY <2>3, <2>4, <2>6 DEF StrictSubsetOrdering
  <2>8. V = {} \/ HasLongest(V)
    BY <1>2, <2>6, <2>7 DEF Bad
  <2>9. CASE V = {}
    <3>1. \A t \in U : t = x
      BY <2>9
    <3> QED
      BY <1>1, <2>4, <2>5, <3>1
  <2>10. CASE HasLongest(V)
    <3>1. PICK m \in V : \A t \in V : m.ban >= t.ban
      BY <2>10
    <3>2. m.ban \in Nat /\ x.ban \in Nat /\ \A t \in U : t.ban \in Nat
      BY <1>1, <2>4, <2>5
    <3>3. CASE m.ban >= x.ban
      <4>1. \A t \in U : m.ban >= t.ban
        BY <3>1, <3>3
      <4> QED
        BY <2>4, <3>1, <4>1
    <3>4. CASE ~(m.ban >= x.ban)
      <4>1. \A t \in U : x.ban >= t.ban
        BY <3>1, <3>2, <3>4
      <4> QED
        BY <2>4, <2>5, <4>1
    <3> QED
      BY <3>3, <3>4
  <2> QED
    BY <2>8, <2>9, <2>10
<1> QED
  BY <1>2, <1>3

LEMMA BanIsNumber == \A n : Ban(n) \in Nat
<1> SUFFICES ASSUME NEW n PROVE Ban(n) \in Nat
  OBVIOUS
<1> DEFINE S == {u \in Tiers : u.fails <= n}
           B == {0} \cup {t.ban : t \in S}
<1>1. \A b \in B : b \in Nat
  BY ConstantsAssumption
<1>2. \E m \in B : \A b \in B : m >= b
  <2>1. CASE S = {}
    <3>1. B = {0}
      BY <2>1
    <3> QED
      BY <3>1
  <2>2. CASE S # {}
    <3>1. S \subseteq Tiers
      OBVIOUS
    <3> HIDE DEF S
    <3>2. PICK m \in S : \A t \in S : m.ban >= t.ban
      BY <2>2, <3>1, LongestBan
    <3>3. m.ban \in B
      BY <3>2
    <3>4. \A b \in B : b = 0 \/ \E t \in S : b = t.ban
      OBVIOUS
    <3>5. m.ban \in Nat
      BY <1>1, <3>3
    <3>6. \A b \in B : m.ban >= b
      BY <3>2, <3>4, <3>5
    <3> QED
      BY <3>3, <3>6
  <2> QED
    BY <2>1, <2>2
<1>3. Max(B) \in B
  BY <1>2 DEF Max
<1> QED
  BY <1>1, <1>3 DEF Ban

LEMMA MinIsNumber ==
  ASSUME NEW S, S \subseteq Nat, S # {}
  PROVE  Min(S) \in S /\ Min(S) \in Nat
<1> DEFINE R == OpToRel(<, Nat)
<1>0. IsWellFoundedOn(R, Nat)
  BY NatLessThanWellFounded
<1> HIDE DEF R
<1>1. PICK x \in S : \A y \in S : ~(<<y, x>> \in R)
  BY <1>0, WFMin
<1>2. \A y \in S : x <= y
  <2> SUFFICES ASSUME NEW y \in S, ~(x <= y) PROVE FALSE
    OBVIOUS
  <2>1. x \in Nat /\ y \in Nat /\ y < x
    OBVIOUS
  <2> DEFINE s == <<y, x>>
  <2>2. s \in Nat \X Nat /\ s[1] < s[2]
    BY <2>1
  <2> HIDE DEF s
  <2>3. s \in R
    BY <2>2 DEF OpToRel, R
  <2> QED
    BY <1>1, <2>3 DEF s
<1>3. Min(S) \in S
  BY <1>1, <1>2 DEF Min
<1> QED
  BY <1>3

LEMMA RetryAfterIsNumber ==
  ASSUME NEW rest \in Int
  PROVE  RetryAfter(rest) \in Nat
<1> DEFINE k == Max({1, rest \div Second})
<1>1. rest \div Second \in Int
  BY Bounds
<1>2. \E x \in {1, rest \div Second} : \A y \in {1, rest \div Second} : x >= y
  BY <1>1
<1>3. k \in {1, rest \div Second} /\ \A y \in {1, rest \div Second} : k >= y
  BY <1>2 DEF Max
<1>4. k \in Nat
  BY <1>1, <1>3
<1> HIDE DEF k
<1>5. Second * k \in Nat
  BY <1>4, Bounds
<1> QED
  BY <1>5 DEF RetryAfter, k

\* A refusal never names less than a second.
LEMMA RetryAfterIsLong ==
  ASSUME NEW rest \in Int
  PROVE  RetryAfter(rest) >= Second
<1> DEFINE d == rest \div Second
           k == Max({1, d})
<1>1. d \in Int
  BY Bounds
<1> HIDE DEF d
<1>2. \E x \in {1, d} : \A y \in {1, d} : x >= y
  BY <1>1
<1>3. k \in {1, d} /\ \A y \in {1, d} : k >= y
  BY <1>2 DEF Max
<1>4. k \in Int /\ k >= 1
  BY <1>1, <1>3
<1> HIDE DEF k
<1>5. Second * k >= Second
  BY <1>4, Bounds
<1> QED
  BY <1>5 DEF RetryAfter, k, d

\* TTL is a number, off by at most half a second.
LEMMA TtlIsClose ==
  ASSUME TypeOK, lock = 0 \/ now < lock
  PROVE  /\ Ttl \in Nat
         /\ 2 * (lock - (now + Second * Ttl)) < Second
         /\ lock # 0 /\ 2 * (lock - now) < Second => Ttl = 0
<1> DEFINE a == 2 * (lock - now) + Second
           b == 2 * Second
           d == a \div b
<1>1. now \in Nat /\ lock \in Nat /\ Second \in Nat /\ Second >= 1
  BY Bounds DEF TypeOK
<1>2. CASE lock = 0
  BY <1>1, <1>2 DEF Ttl
<1>3. CASE lock # 0
  <2>1. a \in Nat /\ b \in Nat /\ b > 0 /\ now < lock
    BY <1>1, <1>3
  <2>2. Ttl = d
    BY <1>3 DEF Ttl
  <2> HIDE DEF a, b
  <2>3. d \in Int /\ a % b \in 0..(b - 1) /\ a = (b * d) + (a % b)
    BY <2>1
  <2> HIDE DEF d
  <2>4. d >= 0
    <3> SUFFICES ASSUME d <= -1 PROVE FALSE
      BY <2>3
    <3>1. b * d <= -b
      BY <2>1, <2>3
    <3> QED
      BY <2>1, <2>3, <3>1
  <2>5. a < (b * d) + b
    BY <2>1, <2>3
  <2>6. b * d = 2 * (Second * d) /\ Second * d \in Int
    BY <1>1, <2>3 DEF b
  <2>7. 2 * (lock - (now + Second * d)) < Second
    <3> DEFINE x == Second * d
    <3>1. x \in Int /\ b * d = 2 * x
      BY <2>6
    <3> HIDE DEF x
    <3>2. 2 * (lock - (now + x)) < Second
      BY <1>1, <2>5, <3>1 DEF a, b
    <3> QED
      BY <3>2 DEF x
  <2>8. ASSUME 2 * (lock - now) < Second PROVE d = 0
    <3>1. a < b
      BY <1>1, <2>8 DEF a, b
    <3> SUFFICES ASSUME d >= 1 PROVE FALSE
      BY <2>3, <2>4
    <3>2. b * d >= b
      BY <2>1, <2>3
    <3> QED
      BY <2>1, <2>3, <3>1, <3>2
  <2> QED
    BY <2>2, <2>3, <2>4, <2>7, <2>8
<1> QED
  BY <1>2, <1>3

-----------------------------------------------------------------------------
(* The sliding window                                                      *)

LEMMA WindowFacts ==
  ASSUME LimitsInv, NEW p \in Prefixes
  PROVE  /\ IsFiniteSet(served[p]) /\ Cardinality(served[p]) \in Nat
         /\ served[p] \subseteq Member /\ \A e \in served[p] : e.stamp \in Nat
         /\ window[p] \in [members: SUBSET Member, expires: Nat \cup {None}]
         /\ window[p].members \subseteq served[p]
         /\ IsFiniteSet(window[p].members) /\ Cardinality(window[p].members) \in Nat
         /\ Cardinality(window[p].members) <= Limit[p]
<1>1. /\ served[p] \subseteq Member /\ window[p].members \subseteq served[p]
      /\ window[p] \in [members: SUBSET Member, expires: Nat \cup {None}]
      /\ Cardinality(window[p].members) <= Limit[p]
  BY DEF LimitsInv, TypeOK
<1>2. \A e \in served[p] : e.stamp \in Nat
  BY <1>1, Bounds DEF Member
<1>3. IsFiniteSet(served[p])
  BY DEF LimitsInv, FiniteOK
<1>4. IsFiniteSet(window[p].members)
  BY <1>1, <1>3, FS_Subset
<1> QED
  BY <1>1, <1>2, <1>3, <1>4, FS_CardinalityType

\* Whom nobody overtook sees every request of its window that was served.
LEMMA KeptIsComplete ==
  ASSUME LimitsInv, NEW p \in Prefixes, NEW s \in Nat, p \notin late,
         \A e \in served[p] : ~(e.stamp > s),
         window[p] = NoWindow => Recent(served[p], s) = {},
         HasRoom(p, Recent(window[p].members, s))
  PROVE  Recent(window[p].members, s) = Recent(served[p], s)
<1>1. CASE window[p] = NoWindow
  BY <1>1 DEF NoWindow, Recent
<1>2. CASE window[p] # NoWindow
  <2>1. PICK c \in Int :
            /\ window[p].members = Recent(served[p], c)
            /\ \/ \E e \in served[p] : c <= e.stamp
               \/ Cardinality(window[p].members) >= Limit[p]
    BY <1>2 DEF LimitsInv, MembersOK
  <2>2. \A e \in served[p] : e.stamp \in Nat
    BY WindowFacts
  <2>3. CASE c <= s
    <3>1. \A e \in served[p] : e.stamp > s - Window => e.stamp > c - Window
      BY <2>2, <2>3, Bounds
    <3> QED
      BY <2>1, <3>1 DEF Recent
  <2>4. CASE ~(c <= s)
    <3>1. \A e \in served[p] : ~(c <= e.stamp)
      BY <2>2, <2>4
    <3>2. Cardinality(window[p].members) >= Limit[p]
      BY <2>1, <3>1
    <3>3. \A e \in served[p] : e.stamp > c - Window => e.stamp > s - Window
      BY <2>2, <2>4, Bounds
    <3>4. Recent(window[p].members, s) = window[p].members
      BY <2>1, <3>3 DEF Recent
    <3> QED
      BY <3>2, <3>4, Bounds, WindowFacts DEF HasRoom
  <2> QED
    BY <2>3, <2>4
<1> QED
  BY <1>1, <1>2

\* A request is let through.
LEMMA AdmitKeepsWindow ==
  ASSUME LimitsInv, NEW p \in Prefixes, NEW s \in Time, NEW new \in Member,
         new.stamp = s, HasRoom(p, Recent(window[p].members, s)),
         window' = [window EXCEPT ![p] = [members |-> Recent(window[p].members, s) \cup {new},
                                          expires |-> now + Window]],
         served' = [served EXCEPT ![p] = @ \cup {new}],
         late' = IF \/ \E e \in served[p] : e.stamp > s
                    \/ window[p] = NoWindow /\ Recent(served[p], s) # {}
                 THEN late \cup {p} ELSE late
  PROVE  /\ window' \in [Prefixes -> [members: SUBSET Member, expires: Nat \cup {None}]]
         /\ served' \in [Prefixes -> SUBSET Member]
         /\ \A r \in Prefixes : /\ IsFiniteSet(served'[r])
                                /\ window'[r].members \subseteq served'[r]
                                /\ Cardinality(window'[r].members) <= Limit[r]
                                /\ MembersOK(r)'
         /\ WindowHolds'
<1> DEFINE kept == Recent(window[p].members, s)
<1>0. now \in Nat /\ s \in Nat /\ TypeOK
  BY Bounds DEF LimitsInv, TypeOK
<1>1. /\ kept \subseteq window[p].members /\ IsFiniteSet(kept) /\ Cardinality(kept) \in Nat
      /\ Cardinality(kept) < Limit[p]
  <2>1. kept \subseteq window[p].members
    BY DEF Recent
  <2>2. IsFiniteSet(kept)
    BY <2>1, WindowFacts, FS_Subset
  <2>3. Cardinality(kept) < Limit[p]
    BY DEF HasRoom
  <2> QED
    BY <2>1, <2>2, <2>3, FS_CardinalityType
<1>2. /\ window'[p].members = kept \cup {new} /\ window'[p] # NoWindow
      /\ served'[p] = served[p] \cup {new}
      /\ \A r \in Prefixes \ {p} : window'[r] = window[r] /\ served'[r] = served[r]
  <2>1. /\ window'[p] = [members |-> kept \cup {new}, expires |-> now + Window]
        /\ served'[p] = served[p] \cup {new}
        /\ \A r \in Prefixes \ {p} : window'[r] = window[r] /\ served'[r] = served[r]
    BY <1>0 DEF TypeOK
  <2>2. new \in window'[p].members /\ window'[p].members = kept \cup {new}
    BY <2>1
  <2> QED
    BY <2>1, <2>2 DEF NoWindow
<1>3. /\ IsFiniteSet(kept \cup {new})
      /\ Cardinality(kept \cup {new}) \in Nat
      /\ Cardinality(kept \cup {new}) <= Limit[p]
  <2> HIDE DEF kept
  <2>1. /\ IsFiniteSet(kept \cup {new})
        /\ \/ Cardinality(kept \cup {new}) = Cardinality(kept)
           \/ Cardinality(kept \cup {new}) = Cardinality(kept) + 1
    BY <1>1, FS_AddElement
  <2> QED
    BY <1>1, <2>1, Bounds
<1>4. /\ window' \in [Prefixes -> [members: SUBSET Member, expires: Nat \cup {None}]]
      /\ served' \in [Prefixes -> SUBSET Member]
  <2>1. kept \cup {new} \in SUBSET Member /\ now + Window \in Nat
    BY <1>0, <1>1, WindowFacts, Bounds
  <2>2. [members |-> kept \cup {new}, expires |-> now + Window]
          \in [members: SUBSET Member, expires: Nat \cup {None}]
    BY <2>1
  <2>3. window' = [window EXCEPT ![p] = [members |-> kept \cup {new}, expires |-> now + Window]]
    OBVIOUS
  <2> HIDE DEF kept
  <2>4. window' \in [Prefixes -> [members: SUBSET Member, expires: Nat \cup {None}]]
    BY <1>0, <2>2, <2>3 DEF TypeOK
  <2>5. served' \in [Prefixes -> SUBSET Member]
    BY <1>0 DEF TypeOK
  <2> QED
    BY <2>4, <2>5
<1>5. ASSUME p \notin late'
      PROVE  /\ p \notin late /\ \A e \in served[p] : ~(e.stamp > s)
             /\ kept = Recent(served[p], s)
  <2>1. /\ p \notin late /\ \A e \in served[p] : ~(e.stamp > s)
        /\ window[p] = NoWindow => Recent(served[p], s) = {}
    BY <1>5
  <2> QED
    BY <1>0, <2>1, KeptIsComplete
<1>6. \A r \in Prefixes \ {p} : r \notin late' => r \notin late
  OBVIOUS
<1>7. ASSUME NEW r \in Prefixes
      PROVE  /\ IsFiniteSet(served'[r])
             /\ window'[r].members \subseteq served'[r]
             /\ Cardinality(window'[r].members) <= Limit[r]
  <2>1. CASE r # p
    BY <1>2, <2>1, WindowFacts
  <2>2. CASE r = p
    <3>1. IsFiniteSet(served[p] \cup {new})
      BY WindowFacts, FS_AddElement
    <3>2. kept \subseteq served[p]
      BY <1>1, WindowFacts
    <3> QED
      BY <1>2, <1>3, <2>2, <3>1, <3>2
  <2> QED
    BY <2>1, <2>2
<1>8. ASSUME NEW r \in Prefixes PROVE MembersOK(r)'
  <2>1. CASE r # p
    BY <1>2, <1>6, <2>1 DEF LimitsInv, MembersOK
  <2>2. CASE r = p
    <3> SUFFICES ASSUME p \notin late'
                 PROVE  \E c \in Int :
                          /\ window'[p].members = Recent(served'[p], c)
                          /\ \E e \in served'[p] : c <= e.stamp
      BY <2>2 DEF MembersOK
    <3>1. s > s - Window
      BY <1>0, Bounds
    <3>2. Recent(served'[p], s) = Recent(served[p], s) \cup {new}
      BY <1>2, <3>1 DEF Recent
    <3>3. new \in served'[p] /\ s <= new.stamp
      BY <1>0, <1>2
    <3>4. window'[p].members = Recent(served'[p], s)
      <4>1. kept = Recent(served[p], s)
        BY <1>5
      <4> HIDE DEF kept
      <4> QED
        BY <1>2, <3>2, <4>1
    <3>5. s \in Int
      BY <1>0
    <3> QED
      BY <3>3, <3>4, <3>5
  <2> QED
    BY <2>1, <2>2
<1>9. WindowHolds'
  <2> SUFFICES ASSUME NEW r \in Prefixes, r \notin late', NEW t \in Time
               PROVE  Cardinality({e \in served'[r] : e.stamp > t - Window /\ e.stamp <= t})
                        <= Limit[r]
    BY DEF WindowHolds
  <2>1. CASE r # p
    BY <1>2, <1>6, <2>1 DEF LimitsInv, WindowHolds
  <2>2. CASE r = p /\ t < s
    <3>1. {e \in served'[p] : e.stamp > t - Window /\ e.stamp <= t}
            = {e \in served[p] : e.stamp > t - Window /\ e.stamp <= t}
      BY <1>0, <1>2, <2>2, Bounds
    <3> QED
      BY <1>5, <2>2, <3>1 DEF LimitsInv, WindowHolds
  <2>3. CASE r = p /\ ~(t < s)
    <3>1. \A e \in served[p] : e.stamp > t - Window => e.stamp > s - Window
      BY <1>0, <2>3, WindowFacts, Bounds
    <3>2. {e \in served'[p] : e.stamp > t - Window /\ e.stamp <= t}
            \subseteq kept \cup {new}
      BY <1>2, <1>5, <2>3, <3>1 DEF Recent
    <3> DEFINE W == {e \in served'[p] : e.stamp > t - Window /\ e.stamp <= t}
    <3>3. W \subseteq kept \cup {new}
      BY <3>2
    <3> HIDE DEF W, kept
    <3>4. Cardinality(W) <= Cardinality(kept \cup {new}) /\ Cardinality(W) \in Nat
      BY <1>3, <3>3, FS_Subset, FS_CardinalityType
    <3>5. Cardinality(W) <= Limit[p]
      BY <1>3, <3>4, Bounds
    <3> QED
      BY <2>3, <3>5 DEF W
  <2> QED
    BY <1>0, <2>1, <2>2, <2>3, Bounds
<1> QED
  BY <1>4, <1>7, <1>8, <1>9

\* A refused request prunes the window, by its own stamp.
LEMMA RefuseKeepsWindow ==
  ASSUME LimitsInv, NEW p \in Prefixes, NEW s \in Time,
         ~HasRoom(p, Recent(window[p].members, s)),
         window' = [window EXCEPT ![p] = [@ EXCEPT !.members = Recent(window[p].members, s)]],
         UNCHANGED <<served, late>>
  PROVE  /\ window' \in [Prefixes -> [members: SUBSET Member, expires: Nat \cup {None}]]
         /\ \A r \in Prefixes : /\ window'[r].members \subseteq served[r]
                                /\ Cardinality(window'[r].members) <= Limit[r]
                                /\ MembersOK(r)'
<1> DEFINE kept == Recent(window[p].members, s)
<1>0. s \in Nat /\ TypeOK
  BY Bounds DEF LimitsInv
<1>1. kept \subseteq window[p].members /\ IsFiniteSet(kept) /\ Cardinality(kept) \in Nat
      /\ Cardinality(kept) <= Limit[p] /\ Cardinality(kept) >= Limit[p]
  <2>1. kept \subseteq window[p].members
    BY DEF Recent
  <2> DEFINE M == window[p].members
  <2>2. IsFiniteSet(M) /\ Cardinality(M) \in Nat /\ Cardinality(M) <= Limit[p]
        /\ kept \subseteq M
    BY <2>1, WindowFacts
  <2> HIDE DEF M, kept
  <2>3. IsFiniteSet(kept) /\ Cardinality(kept) <= Cardinality(M) /\ Cardinality(kept) \in Nat
    BY <2>2, FS_Subset, FS_CardinalityType
  <2>4. ~(Cardinality(kept) < Limit[p])
    BY DEF HasRoom, kept
  <2> QED
    BY <2>1, <2>2, <2>3, <2>4, Bounds
<1>2. /\ window' \in [Prefixes -> [members: SUBSET Member, expires: Nat \cup {None}]]
      /\ window'[p].members = kept
      /\ \A r \in Prefixes \ {p} : window'[r] = window[r]
  <2>1. kept \in SUBSET Member
    BY <1>1, WindowFacts
  <2> HIDE DEF kept
  <2>2. window' = [window EXCEPT ![p] = [window[p] EXCEPT !.members = kept]]
    BY DEF kept
  <2> QED
    BY <1>0, <2>1, <2>2 DEF TypeOK
<1>3. ASSUME NEW r \in Prefixes
      PROVE  window'[r].members \subseteq served[r] /\ Cardinality(window'[r].members) <= Limit[r]
  <2>1. CASE r = p
    BY <1>1, <1>2, <2>1, WindowFacts
  <2>2. CASE r # p
    BY <1>2, <2>2, WindowFacts
  <2> QED
    BY <2>1, <2>2
<1>4. ASSUME NEW r \in Prefixes PROVE MembersOK(r)'
  <2>1. CASE r # p
    BY <1>2, <2>1 DEF LimitsInv, MembersOK
  <2>2. CASE r = p
    <3> SUFFICES ASSUME p \notin late
                 PROVE  \E c \in Int : kept = Recent(served[p], c)
      BY <1>1, <1>2, <2>2 DEF MembersOK
    <3>1. window[p] # NoWindow
      <4>1. window[p] = NoWindow => kept = {}
        BY DEF NoWindow, Recent
      <4>2. kept # {}
        BY <1>1, FS_EmptySet, Bounds
      <4> QED
        BY <4>1, <4>2
    <3>2. PICK c \in Int : window[p].members = Recent(served[p], c)
      BY <3>1 DEF LimitsInv, MembersOK
    <3>3. \A e \in served[p] : e.stamp \in Nat
      BY WindowFacts
    <3>4. CASE c <= s
      <4>1. \A e \in served[p] : e.stamp > s - Window => e.stamp > c - Window
        BY <1>0, <3>3, <3>4, Bounds
      <4>2. kept = Recent(served[p], s)
        BY <3>2, <4>1 DEF Recent
      <4> QED
        BY <1>0, <4>2
    <3>5. CASE ~(c <= s)
      <4>1. \A e \in served[p] : e.stamp > c - Window => e.stamp > s - Window
        BY <1>0, <3>3, <3>5, Bounds
      <4>2. kept = Recent(served[p], c)
        BY <3>2, <4>1 DEF Recent
      <4> QED
        BY <4>2
    <3> QED
      BY <3>4, <3>5
  <2> QED
    BY <2>1, <2>2
<1> QED
  BY <1>2, <1>3, <1>4

LEMMA WindowUntouched ==
  ASSUME LimitsInv, UNCHANGED <<window, served, late>>
  PROVE  /\ \A p \in Prefixes : MembersOK(p)'
         /\ WindowHolds' /\ FiniteOK'
  BY DEF LimitsInv, MembersOK, WindowHolds, FiniteOK

-----------------------------------------------------------------------------
(* The other steps                                                         *)

LEMMA IdleOK == Idle \in Request /\ Idle.pc = "idle"
  BY Bounds DEF Idle, Request, Time

LEMMA CallsForm ==
  ASSUME TypeOK, Reached \/ Unreachable
  PROVE  errors' \in 0..MaxErrors
<1>1. errors \in 0..MaxErrors
  BY DEF TypeOK
<1>2. CASE Reached
  BY <1>1, <1>2 DEF Reached
<1>3. CASE Unreachable
  BY <1>1, <1>3, Bounds DEF Unreachable
<1> QED
  BY <1>2, <1>3

\* An open request goes on or ends.
LEMMA RequestForm ==
  ASSUME LimitsInv, NEW q \in Requests, request[q].pc # "idle", NEW s \in Request,
         s.pc \in {"stamped", "refused"} => s.prefix \in Prefixes,
         request' = [request EXCEPT ![q] = s]
  PROVE  /\ request' \in [Requests -> Request] /\ request'[q] = s
         /\ \A r \in Requests \ {q} : request'[r] = request[r]
         /\ StampsOK'
<1>1. /\ request' \in [Requests -> Request] /\ request'[q] = s
      /\ \A r \in Requests \ {q} : request'[r] = request[r]
  BY DEF LimitsInv, TypeOK
<1>2. StampsOK'
  BY <1>1 DEF LimitsInv, StampsOK
<1> QED
  BY <1>1, <1>2

LEMMA CheckLockStep ==
  ASSUME LimitsInv, NEW q \in Requests, NEW p \in Prefixes, CheckLock(q, p)
  PROVE  LimitsInv'
<1> DEFINE s == [Idle EXCEPT !.pc = "stamped", !.prefix = p, !.stamp = now,
                             !.banned = Ttl # 0]
<1>0. /\ request[q].pc = "idle"
      /\ request' = [request EXCEPT ![q] = s]
      /\ UNCHANGED <<now, window, fails, lock, served, late, promise, told, last, cut>>
      /\ Reached \/ Unreachable
  BY DEF CheckLock, redisVars, ghostVars, At
<1>1. TypeOK /\ now \in Time /\ errors' \in 0..MaxErrors
  BY <1>0, CallsForm DEF LimitsInv, TypeOK
<1>2. s \in Request /\ s.pc = "stamped" /\ s.prefix = p
  <2>1. (Ttl # 0) \in BOOLEAN
    OBVIOUS
  <2>2. \A b \in BOOLEAN : [Idle EXCEPT !.pc = "stamped", !.prefix = p, !.stamp = now,
                                        !.banned = b] \in Request
    BY <1>1, IdleOK DEF Idle, Request
  <2>3. s.pc = "stamped" /\ s.prefix = p
    BY DEF Idle
  <2> QED
    BY <2>1, <2>2, <2>3
<1> HIDE DEF s
<1>3. /\ request' \in [Requests -> Request] /\ request'[q] = s
      /\ \A r \in Requests \ {q} : request'[r] = request[r]
  BY <1>0, <1>1, <1>2 DEF TypeOK
<1>4. TypeOK'
  BY <1>0, <1>1, <1>3 DEF TypeOK
<1>5. StampsOK'
  BY <1>2, <1>3 DEF LimitsInv, StampsOK
<1>6. ExpiryOK'
  <2>1. \A r \in Requests : At(r, "counted") => At(r, "counted")'
    BY <1>0, <1>3 DEF At
  <2> QED
    BY <1>0, <2>1 DEF LimitsInv, ExpiryOK
<1> QED
  BY <1>0, <1>4, <1>5, <1>6, WindowUntouched DEF LimitsInv

LEMMA LockedOutStep ==
  ASSUME LimitsInv, NEW q \in Requests, LockedOut(q)
  PROVE  LimitsInv'
<1>1. /\ UNCHANGED <<now, window, fails, lock, request, errors, served, late, promise,
                     last, cut>>
      /\ told' = now + Second * Ttl /\ Ttl > 0
  BY DEF LockedOut, redisVars, Reached
<1>2. told' \in Nat
  <2>1. Ttl \in Nat
    BY TtlIsClose DEF LimitsInv, ExpiryOK
  <2>2. Second * Ttl \in Nat
    BY <2>1, Bounds
  <2> QED
    BY <1>1, <2>2, Bounds DEF LimitsInv, TypeOK
<1>3. TypeOK' /\ StampsOK' /\ ExpiryOK'
  BY <1>1, <1>2 DEF LimitsInv, TypeOK, StampsOK, ExpiryOK, At
<1> QED
  BY <1>1, <1>3, WindowUntouched DEF LimitsInv

LEMMA EvaluateStep ==
  ASSUME LimitsInv, NEW q \in Requests, Evaluate(q)
  PROVE  LimitsInv'
<1> DEFINE p == request[q].prefix
           t == request[q].stamp
           kept == Recent(window[p].members, t)
           new == [n |-> Cardinality(served[p]) + 1, stamp |-> t]
<1>0. /\ request[q].pc = "stamped" /\ errors' = errors
      /\ UNCHANGED <<now, fails, lock, told, last, cut>>
  BY DEF Evaluate, At, Reached
<1>1. TypeOK /\ request[q] \in Request /\ p \in Prefixes /\ t \in Time
  BY <1>0 DEF LimitsInv, TypeOK, StampsOK, Request
<1>3. CASE HasRoom(p, kept)
  <2>1. /\ Cardinality(served[p]) < MaxServed
        /\ window' = [window EXCEPT ![p] = [members |-> kept \cup {new},
                                            expires |-> now + Window]]
        /\ served' = [served EXCEPT ![p] = @ \cup {new}]
        /\ late' = IF \/ \E e \in served[p] : e.stamp > t
                      \/ window[p] = NoWindow /\ Recent(served[p], t) # {}
                   THEN late \cup {p} ELSE late
        /\ promise' = [promise EXCEPT ![p] = None]
        /\ request' = [request EXCEPT ![q] = Idle]
    BY <1>3 DEF Evaluate, Finish
  <2>2. new \in Member /\ new.stamp = t
    <3>1. Cardinality(served[p]) + 1 \in 1..MaxServed
      BY <1>1, <2>1, WindowFacts, Bounds
    <3> QED
      BY <1>1, <3>1 DEF Member
  <2> HIDE DEF new
  <2>3. /\ window' \in [Prefixes -> [members: SUBSET Member, expires: Nat \cup {None}]]
        /\ served' \in [Prefixes -> SUBSET Member]
        /\ \A r \in Prefixes : /\ IsFiniteSet(served'[r])
                               /\ window'[r].members \subseteq served'[r]
                               /\ Cardinality(window'[r].members) <= Limit[r]
                               /\ MembersOK(r)'
        /\ WindowHolds'
    BY <1>1, <1>3, <2>1, <2>2, AdmitKeepsWindow
  <2>4. /\ request' \in [Requests -> Request] /\ request'[q] = Idle
        /\ \A r \in Requests \ {q} : request'[r] = request[r]
        /\ StampsOK'
    BY <1>0, <2>1, IdleOK, RequestForm
  <2>5. late' \subseteq Prefixes
        /\ promise' \in [Prefixes -> [until: Nat, short: BOOLEAN, banned: BOOLEAN] \cup {None}]
    <3>1. late' \subseteq Prefixes
      BY <1>1, <2>1 DEF TypeOK
    <3>2. promise' \in [Prefixes -> [until: Nat, short: BOOLEAN, banned: BOOLEAN] \cup {None}]
      BY <1>1, <2>1 DEF TypeOK
    <3> QED
      BY <3>1, <3>2
  <2>6. TypeOK'
    BY <1>0, <1>1, <2>3, <2>4, <2>5 DEF TypeOK
  <2>7. ExpiryOK'
    <3>1. \A r \in Requests : At(r, "counted") => At(r, "counted")'
      BY <1>0, <2>4 DEF At
    <3> QED
      BY <1>0, <3>1 DEF LimitsInv, ExpiryOK
  <2> QED
    BY <2>3, <2>4, <2>6, <2>7 DEF LimitsInv, FiniteOK
<1>4. CASE ~HasRoom(p, kept)
  <2> DEFINE s == [request[q] EXCEPT !.pc = "refused"]
  <2>1. /\ window' = [window EXCEPT ![p] = [@ EXCEPT !.members = kept]]
        /\ request' = [request EXCEPT ![q] = s]
        /\ UNCHANGED <<served, late, promise>>
    BY <1>4 DEF Evaluate
  <2>2. /\ window' \in [Prefixes -> [members: SUBSET Member, expires: Nat \cup {None}]]
        /\ \A r \in Prefixes : /\ window'[r].members \subseteq served[r]
                               /\ Cardinality(window'[r].members) <= Limit[r]
                               /\ MembersOK(r)'
    BY <1>1, <1>4, <2>1, RefuseKeepsWindow
  <2>3. /\ s \in Request /\ s.pc = "refused" /\ s.prefix = p
    BY <1>1 DEF Request
  <2> HIDE DEF s
  <2>4. /\ request' \in [Requests -> Request] /\ request'[q] = s
        /\ \A r \in Requests \ {q} : request'[r] = request[r]
        /\ StampsOK'
    BY <1>0, <1>1, <2>1, <2>3, RequestForm
  <2>5. TypeOK'
    BY <1>0, <1>1, <2>1, <2>2, <2>4 DEF TypeOK
  <2>6. ExpiryOK'
    <3>1. \A r \in Requests : At(r, "counted") => At(r, "counted")'
      BY <1>0, <2>4 DEF At
    <3> QED
      BY <1>0, <3>1 DEF LimitsInv, ExpiryOK
  <2>7. WindowHolds' /\ FiniteOK'
    BY <1>0, <2>1 DEF LimitsInv, WindowHolds, FiniteOK
  <2> QED
    BY <2>2, <2>4, <2>5, <2>6, <2>7 DEF LimitsInv
<1> QED
  BY <1>3, <1>4

\* A request that ends without touching a key.
LEMMA GiveUpStep ==
  ASSUME LimitsInv, NEW q \in Requests, FailOpen(q) \/ RecordFails(q)
  PROVE  LimitsInv'
<1>0. /\ request[q].pc # "idle"
      /\ request' = [request EXCEPT ![q] = Idle]
      /\ UNCHANGED <<now, window, fails, lock, served, late, promise, told, last>>
      /\ Unreachable
      /\ cut' = (cut \/ At(q, "counted"))
  <2>1. CASE FailOpen(q)
    <3>1. cut \in BOOLEAN /\ ~At(q, "counted") /\ cut' = cut
      BY <2>1 DEF LimitsInv, TypeOK, FailOpen, At, ghostVars
    <3>2. cut' = (cut \/ At(q, "counted"))
      BY <3>1, Zenon
    <3> QED
      BY <2>1, <3>2 DEF FailOpen, At, Finish, redisVars, ghostVars
  <2>2. CASE RecordFails(q)
    BY <2>2 DEF RecordFails, Finish, redisVars
  <2> QED
    BY <2>1, <2>2
<1>1. TypeOK /\ errors' \in 0..MaxErrors
  BY <1>0, CallsForm DEF LimitsInv
<1>2. /\ request' \in [Requests -> Request] /\ request'[q] = Idle
      /\ \A r \in Requests \ {q} : request'[r] = request[r]
      /\ StampsOK'
  BY <1>0, <1>1, IdleOK, RequestForm
<1>3. cut' \in BOOLEAN
  BY <1>0, <1>1 DEF TypeOK, At
<1>4. TypeOK'
  BY <1>0, <1>1, <1>2, <1>3 DEF TypeOK
<1>5. ExpiryOK'
  <2>1. ASSUME ~cut', \A r \in Requests : ~At(r, "counted")'
        PROVE  ~cut /\ \A r \in Requests : ~At(r, "counted")
    BY <1>0, <1>2, <2>1 DEF At
  <2> QED
    BY <1>0, <2>1 DEF LimitsInv, ExpiryOK
<1> QED
  BY <1>0, <1>2, <1>4, <1>5, WindowUntouched DEF LimitsInv

\* What a refusal names: the last Retry-After of an endpoint, with its history.
Wait(q) ==
    LET left == window[request[q].prefix].members
        rest == Min({e.stamp : e \in left}) + Window - request[q].stamp
    IN [until  |-> now + (IF left = {} THEN Window ELSE RetryAfter(rest)),
        short  |-> left # {} /\ Truncated(rest),
        banned |-> request[q].banned]

LEMMA WaitIsNumber ==
  ASSUME LimitsInv, NEW q \in Requests, request[q].pc = "refused"
  PROVE  /\ Wait(q) \in [until: Nat, short: BOOLEAN, banned: BOOLEAN]
         /\ Wait(q).banned = request[q].banned
         /\ Wait(q).until >= now + Second
<1> DEFINE left == window[request[q].prefix].members
           stamps == {e.stamp : e \in left}
           rest == Min(stamps) + Window - request[q].stamp
           wait == IF left = {} THEN Window ELSE RetryAfter(rest)
           short == left # {} /\ Truncated(rest)
<1>1. /\ request[q].prefix \in Prefixes /\ request[q].stamp \in Nat /\ now \in Nat
      /\ request[q].banned \in BOOLEAN
  BY Bounds DEF LimitsInv, TypeOK, StampsOK, Request
<1>2. ASSUME left # {} PROVE RetryAfter(rest) \in Nat /\ RetryAfter(rest) >= Second
  <2>1. stamps \subseteq Nat /\ stamps # {}
    BY <1>1, <1>2, WindowFacts
  <2> HIDE DEF stamps
  <2>2. Min(stamps) \in Nat
    BY <2>1, MinIsNumber
  <2>3. rest \in Int
    BY <1>1, <2>2, Bounds
  <2> HIDE DEF rest
  <2> QED
    BY <2>3, RetryAfterIsNumber, RetryAfterIsLong
<1>3. wait \in Nat /\ wait >= Second
  BY <1>2, Bounds
<1>4. short \in BOOLEAN
  BY DEF Truncated
<1>5. Wait(q) = [until |-> now + wait, short |-> short, banned |-> request[q].banned]
  BY DEF Wait
<1> HIDE DEF wait, short
<1>6. now + wait \in Nat /\ now + wait >= now + Second
  BY <1>1, <1>3, Bounds
<1> QED
  BY <1>1, <1>4, <1>5, <1>6

LEMMA ReadOldestStep ==
  ASSUME LimitsInv, NEW q \in Requests, ReadOldest(q)
  PROVE  LimitsInv'
<1> DEFINE p == request[q].prefix
           s == [request[q] EXCEPT !.pc = "failed"]
<1>0. /\ request[q].pc = "refused" /\ errors' = errors
      /\ promise' = [promise EXCEPT ![p] = Wait(q)]
      /\ request' = [request EXCEPT ![q] = s]
      /\ UNCHANGED <<now, window, fails, lock, served, late, told, last, cut>>
  BY DEF ReadOldest, At, Reached, redisVars, Wait
<1>1. TypeOK /\ request[q] \in Request /\ p \in Prefixes
  BY <1>0, Bounds DEF LimitsInv, TypeOK, StampsOK
<1>2. promise' \in [Prefixes -> [until: Nat, short: BOOLEAN, banned: BOOLEAN] \cup {None}]
  BY <1>0, <1>1, WaitIsNumber DEF TypeOK
<1>3. s \in Request /\ s.pc = "failed"
  BY <1>1 DEF Request
<1> HIDE DEF s
<1>4. /\ request' \in [Requests -> Request] /\ request'[q] = s
      /\ \A r \in Requests \ {q} : request'[r] = request[r]
      /\ StampsOK'
  BY <1>0, <1>1, <1>3, RequestForm
<1>5. TypeOK'
  BY <1>0, <1>1, <1>2, <1>4 DEF TypeOK
<1>6. ExpiryOK'
  <2>1. \A r \in Requests : At(r, "counted") => At(r, "counted")'
    BY <1>0, <1>4 DEF At
  <2> QED
    BY <1>0, <2>1 DEF LimitsInv, ExpiryOK
<1> QED
  BY <1>0, <1>4, <1>5, <1>6, WindowUntouched DEF LimitsInv

LEMMA CountFailureStep ==
  ASSUME LimitsInv, NEW q \in Requests, CountFailure(q)
  PROVE  LimitsInv'
<1> DEFINE s == [request[q] EXCEPT !.pc = "counted", !.fails = fails.n + 1]
<1>0. /\ request[q].pc = "failed" /\ errors' = errors /\ fails.n < MaxFailures
      /\ fails' = [fails EXCEPT !.n = fails.n + 1] /\ last' = now
      /\ request' = [request EXCEPT ![q] = s]
      /\ UNCHANGED <<now, window, lock, served, late, promise, told, cut>>
  BY DEF CountFailure, At, Reached
<1>1. /\ TypeOK /\ request[q] \in Request
      /\ fails \in [n: 0..MaxFailures, expires: Nat \cup {None}]
  BY <1>0 DEF LimitsInv, TypeOK
<1>2. fails.n + 1 \in 1..MaxFailures
  BY <1>0, <1>1, Bounds
<1>3. /\ fails' \in [n: 0..MaxFailures, expires: Nat \cup {None}]
      /\ fails'.n > 0 /\ fails'.expires = fails.expires
  BY <1>0, <1>1, <1>2
<1>4. s \in Request /\ s.pc = "counted"
  <2> DEFINE n == fails.n + 1
  <2>1. n \in 0..MaxFailures
    BY <1>2, Bounds
  <2> HIDE DEF n
  <2>2. [request[q] EXCEPT !.pc = "counted", !.fails = n] \in Request
    BY <1>1, <2>1 DEF Request
  <2>3. s.pc = "counted"
    BY <1>1 DEF Request
  <2> QED
    BY <2>2, <2>3 DEF n
<1> HIDE DEF s
<1>5. /\ request' \in [Requests -> Request] /\ request'[q] = s
      /\ \A r \in Requests \ {q} : request'[r] = request[r]
      /\ StampsOK'
  BY <1>0, <1>1, <1>4, RequestForm
<1>6. TypeOK'
  BY <1>0, <1>1, <1>3, <1>5 DEF TypeOK
<1>7. ExpiryOK'
  <2>1. At(q, "counted")'
    BY <1>4, <1>5 DEF At
  <2>2. fails'.expires # None => now' < fails'.expires
    BY <1>0, <1>3 DEF LimitsInv, ExpiryOK
  <2>3. lock' # 0 => now' < lock'
    BY <1>0 DEF LimitsInv, ExpiryOK
  <2> QED
    BY <1>3, <2>1, <2>2, <2>3 DEF ExpiryOK
<1> QED
  BY <1>0, <1>5, <1>6, <1>7, WindowUntouched DEF LimitsInv

LEMMA KeepCounterStep ==
  ASSUME LimitsInv, NEW q \in Requests, KeepCounter(q)
  PROVE  LimitsInv'
<1> DEFINE s == [request[q] EXCEPT !.pc = "locking"]
<1>0. /\ request[q].pc = "counted" /\ errors' = errors
      /\ fails' = RenewCounter /\ last' = now /\ cut' = FALSE
      /\ request' = [request EXCEPT ![q] = s]
      /\ UNCHANGED <<now, window, lock, served, late, promise, told>>
  BY DEF KeepCounter, At, Reached
<1>1. /\ TypeOK /\ request[q] \in Request /\ now \in Nat
      /\ fails \in [n: 0..MaxFailures, expires: Nat \cup {None}]
  BY <1>0, Bounds DEF LimitsInv, TypeOK
<1>2. \/ fails = NoKey /\ fails' = NoKey
      \/ fails.n > 0 /\ fails' = [fails EXCEPT !.expires = now + Day]
  <2>1. fails # NoKey => fails.n > 0
    BY <1>1 DEF LimitsInv, ExpiryOK
  <2> QED
    BY <1>0, <2>1 DEF RenewCounter
<1>3. /\ fails' \in [n: 0..MaxFailures, expires: Nat \cup {None}]
      /\ fails'.n = 0 => fails' = NoKey
      /\ fails'.n > 0 => fails'.expires = now + Day
      /\ fails'.expires # None => now < fails'.expires
  <2>1. CASE fails = NoKey /\ fails' = NoKey
    BY <1>1, <2>1 DEF NoKey
  <2>2. CASE fails.n > 0 /\ fails' = [fails EXCEPT !.expires = now + Day]
    <3>1. now + Day \in Nat /\ now < now + Day
      BY <1>1, Bounds
    <3>2. fails'.n = fails.n /\ fails'.expires = now + Day
      BY <1>1, <2>2
    <3>3. fails' \in [n: 0..MaxFailures, expires: Nat \cup {None}]
      BY <1>1, <2>2, <3>1
    <3>4. fails.n # 0
      BY <1>1, <2>2
    <3> QED
      BY <3>1, <3>2, <3>3, <3>4
  <2> QED
    BY <1>2, <2>1, <2>2
<1>4. s \in Request /\ s.pc = "locking"
  BY <1>1 DEF Request
<1> HIDE DEF s
<1>5. /\ request' \in [Requests -> Request] /\ request'[q] = s
      /\ \A r \in Requests \ {q} : request'[r] = request[r]
      /\ StampsOK'
  BY <1>0, <1>1, <1>4, RequestForm
<1>6. TypeOK'
  BY <1>0, <1>1, <1>3, <1>5 DEF TypeOK
<1>7. ExpiryOK'
  <2>1. lock' # 0 => now' < lock'
    BY <1>0 DEF LimitsInv, ExpiryOK
  <2> QED
    BY <1>0, <1>3, <2>1 DEF ExpiryOK
<1> QED
  BY <1>0, <1>5, <1>6, <1>7, WindowUntouched DEF LimitsInv

\* A lock is set where there is none, and all that is under way, or was told to wait,
\* did not know of it; or only the request ends.
LEMMA SetLockForm ==
  ASSUME LimitsInv, NEW q \in Requests, SetLock(q)
  PROVE  \/ /\ lock = 0 /\ lock' \in Nat /\ lock' > now /\ told' = None
            /\ request' = [r \in Requests |->
                 IF r = q \/ At(r, "idle") THEN Idle
                 ELSE [request[r] EXCEPT !.banned = TRUE]]
            /\ promise' = [p \in Prefixes |->
                 IF promise[p] = None THEN None ELSE [promise[p] EXCEPT !.banned = TRUE]]
         \/ /\ request' = [request EXCEPT ![q] = Idle]
            /\ UNCHANGED <<lock, promise, told>>
<1> DEFINE ban == Ban(request[q].fails)
<1>1. now \in Nat /\ lock \in Nat /\ ban \in Nat
  BY Bounds, BanIsNumber DEF LimitsInv, TypeOK
<1>2. lock' = IF ban > 0 THEN LockedUntil(now + ban) ELSE lock
  BY DEF SetLock
<1> HIDE DEF ban
<1>3. CASE ban > 0 /\ lock = 0
  <2>1. lock' = now + ban
    BY <1>2, <1>3 DEF LockedUntil
  <2> QED
    BY <1>1, <1>3, <2>1 DEF SetLock, ban
<1>4. CASE ~(ban > 0 /\ lock = 0)
  <2>1. lock' = lock
    BY <1>2, <1>4 DEF LockedUntil
  <2> QED
    BY <1>4, <2>1 DEF SetLock, Finish, ban
<1> QED
  BY <1>3, <1>4

LEMMA BannedForm ==
  ASSUME NEW x \in Request
  PROVE  LET b == [x EXCEPT !.banned = TRUE]
         IN  /\ b \in Request /\ b.banned = TRUE
             /\ b.pc = x.pc /\ b.prefix = x.prefix /\ b.stamp = x.stamp
  BY DEF Request

LEMMA SetLockStep ==
  ASSUME LimitsInv, NEW q \in Requests, SetLock(q)
  PROVE  LimitsInv'
<1>0. /\ request[q].pc = "locking" /\ errors' = errors
      /\ UNCHANGED <<now, window, fails, served, late, last, cut>>
  BY DEF SetLock, At, Reached
<1>1. TypeOK /\ \A r \in Requests : request[r] \in Request
  BY DEF LimitsInv, TypeOK
<1>2. /\ request' \in [Requests -> Request] /\ lock' \in Nat
      /\ promise' \in [Prefixes -> [until: Nat, short: BOOLEAN, banned: BOOLEAN] \cup {None}]
      /\ told' \in Nat \cup {None}
      /\ \A r \in Requests : \/ request'[r].pc = "idle"
                             \/ /\ request'[r].pc = request[r].pc
                                /\ request'[r].prefix = request[r].prefix
      /\ \A r \in Requests : request[r].pc = "counted" => request'[r].pc = "counted"
  <2>1. CASE /\ lock = 0 /\ lock' \in Nat /\ lock' > now /\ told' = None
             /\ request' = [r \in Requests |->
                  IF r = q \/ At(r, "idle") THEN Idle
                  ELSE [request[r] EXCEPT !.banned = TRUE]]
             /\ promise' = [p \in Prefixes |->
                  IF promise[p] = None THEN None ELSE [promise[p] EXCEPT !.banned = TRUE]]
    <3>1. \A r \in Requests :
            /\ request'[r] \in Request
            /\ \/ request'[r].pc = "idle" /\ (r = q \/ request[r].pc = "idle")
               \/ /\ request'[r].pc = request[r].pc
                  /\ request'[r].prefix = request[r].prefix
      BY <1>1, <2>1, IdleOK, BannedForm DEF At
    <3>2. ASSUME NEW p \in Prefixes
          PROVE  promise'[p] \in [until: Nat, short: BOOLEAN, banned: BOOLEAN] \cup {None}
      <4>1. /\ promise'[p] = IF promise[p] = None THEN None
                             ELSE [promise[p] EXCEPT !.banned = TRUE]
            /\ promise[p] \in [until: Nat, short: BOOLEAN, banned: BOOLEAN] \cup {None}
        BY <1>1, <2>1 DEF TypeOK
      <4> QED
        BY <4>1
    <3>3. request' \in [Requests -> Request]
      BY <2>1, <3>1
    <3>4. promise' \in [Prefixes -> [until: Nat, short: BOOLEAN, banned: BOOLEAN] \cup {None}]
      BY <2>1, <3>2
    <3> QED
      BY <1>0, <2>1, <3>1, <3>3, <3>4
  <2>2. CASE /\ request' = [request EXCEPT ![q] = Idle]
             /\ UNCHANGED <<lock, promise, told>>
    BY <1>0, <1>1, <2>2, IdleOK DEF TypeOK
  <2> QED
    BY <2>1, <2>2, SetLockForm
<1>3. StampsOK'
  BY <1>2 DEF LimitsInv, StampsOK
<1>4. TypeOK'
  BY <1>0, <1>1, <1>2 DEF TypeOK
<1>5. ExpiryOK'
  <2>1. \A r \in Requests : At(r, "counted") => At(r, "counted")'
    BY <1>2 DEF At
  <2>2. lock' # 0 => now' < lock'
    BY <1>0, SetLockForm DEF LimitsInv, ExpiryOK
  <2> QED
    BY <1>0, <2>1, <2>2 DEF LimitsInv, ExpiryOK
<1> QED
  BY <1>0, <1>3, <1>4, <1>5, WindowUntouched DEF LimitsInv

LEMMA TickStep ==
  ASSUME LimitsInv, Tick
  PROVE  LimitsInv'
<1>0. /\ now < MaxTime /\ now' = now + 1
      /\ window' = [p \in Prefixes |->
           IF window[p].expires = now + 1 THEN NoWindow ELSE window[p]]
      /\ fails' = IF fails.expires = now + 1 THEN NoKey ELSE fails
      /\ lock' = IF lock = now + 1 THEN 0 ELSE lock
      /\ last' = IF fails' = NoKey THEN 0 ELSE last
      /\ UNCHANGED <<request, errors, served, late, promise, told, cut>>
  BY DEF Tick
<1>1. /\ TypeOK /\ now \in Nat /\ lock \in Nat
      /\ fails \in [n: 0..MaxFailures, expires: Nat \cup {None}]
  BY Bounds DEF LimitsInv, TypeOK
<1>2. now' \in Time /\ last' \in Time
  <2>1. now + 1 \in Time /\ 0 \in Time
    BY <1>0, <1>1, Bounds DEF Time
  <2> QED
    BY <1>0, <1>1, <2>1 DEF TypeOK
<1>3. /\ window' \in [Prefixes -> [members: SUBSET Member, expires: Nat \cup {None}]]
      /\ \A p \in Prefixes : /\ window'[p] = NoWindow \/ window'[p] = window[p]
                             /\ window'[p].members \subseteq served'[p]
                             /\ Cardinality(window'[p].members) <= Limit[p]
  <2>1. /\ NoWindow \in [members: SUBSET Member, expires: Nat \cup {None}]
        /\ NoWindow.members = {} /\ Cardinality({}) = 0
    BY FS_EmptySet DEF NoWindow
  <2>2. \A p \in Prefixes : window'[p] = NoWindow \/ window'[p] = window[p]
    BY <1>0
  <2>3. window' \in [Prefixes -> [members: SUBSET Member, expires: Nat \cup {None}]]
    BY <1>0, <1>1, <2>1 DEF TypeOK
  <2>4. \A p \in Prefixes : /\ window'[p].members \subseteq served'[p]
                            /\ Cardinality(window'[p].members) <= Limit[p]
    <3> TAKE p \in Prefixes
    <3>1. 0 <= Limit[p] /\ served'[p] = served[p]
      BY <1>0, Bounds
    <3>2. CASE window'[p] = NoWindow
      BY <2>1, <3>1, <3>2
    <3>3. CASE window'[p] = window[p]
      BY <3>1, <3>3, WindowFacts
    <3> QED
      BY <2>2, <3>2, <3>3
  <2> QED
    BY <2>2, <2>3, <2>4
<1>4. /\ fails' \in [n: 0..MaxFailures, expires: Nat \cup {None}]
      /\ fails' = NoKey \/ (fails' = fails /\ fails.expires # now + 1)
      /\ NoKey.n = 0 /\ NoKey.expires = None
  BY <1>0, <1>1, Bounds DEF NoKey
<1>5. TypeOK'
  BY <1>0, <1>1, <1>2, <1>3, <1>4 DEF TypeOK
<1>6. ASSUME NEW p \in Prefixes PROVE MembersOK(p)'
  <2>1. CASE window'[p] = NoWindow
    BY <2>1 DEF MembersOK
  <2>2. CASE window'[p] = window[p]
    BY <1>0, <2>2 DEF LimitsInv, MembersOK
  <2> QED
    BY <1>3, <2>1, <2>2
<1>7. WindowHolds' /\ FiniteOK' /\ StampsOK'
  BY <1>0 DEF LimitsInv, WindowHolds, FiniteOK, StampsOK
<1>8. ExpiryOK'
  <2>0. lock' # 0 => now' < lock'
    BY <1>0, <1>1 DEF LimitsInv, ExpiryOK
  <2>1. CASE fails' = NoKey
    BY <1>4, <2>0, <2>1 DEF ExpiryOK
  <2>2. CASE fails' # NoKey
    <3>1. fails' = fails /\ fails.expires # now + 1 /\ last' = last /\ fails.n # 0
      BY <1>0, <1>4, <2>2 DEF LimitsInv, ExpiryOK
    <3>2. fails.expires # None => now + 1 < fails.expires
      <4> SUFFICES ASSUME fails.expires # None PROVE now + 1 < fails.expires
        OBVIOUS
      <4>1. fails.expires \in Nat /\ now < fails.expires
        BY <1>1 DEF LimitsInv, ExpiryOK
      <4> QED
        BY <1>1, <3>1, <4>1
    <3>3. (\A r \in Requests : ~At(r, "counted"))' => \A r \in Requests : ~At(r, "counted")
      BY <1>0 DEF At
    <3> QED
      BY <1>0, <2>0, <3>1, <3>2, <3>3 DEF LimitsInv, ExpiryOK
  <2> QED
    BY <2>1, <2>2
<1> QED
  BY <1>5, <1>6, <1>7, <1>8 DEF LimitsInv

-----------------------------------------------------------------------------
(* The theorems                                                            *)

LEMMA InitLimits == Init => LimitsInv
<1> SUFFICES ASSUME Init PROVE LimitsInv
  OBVIOUS
<1>1. \A p \in Prefixes : window[p] = NoWindow /\ served[p] = {}
  BY DEF Init
<1>2. NoWindow \in [members: SUBSET Member, expires: Nat \cup {None}] /\ NoWindow.members = {}
  BY DEF NoWindow
<1>3. /\ IsFiniteSet({}) /\ Cardinality({}) = 0
  BY FS_EmptySet
<1>4. 0 \in Time /\ now = 0
  BY Bounds DEF Init, Time
<1>5. NoKey \in [n: 0..MaxFailures, expires: Nat \cup {None}] /\ NoKey.expires = None
      /\ NoKey.n = 0
  BY Bounds DEF NoKey
<1>6. TypeOK
  <2>1. \A p \in Prefixes : /\ window[p].members \subseteq served[p]
                            /\ Cardinality(window[p].members) <= Limit[p]
    BY <1>1, <1>2, <1>3, Bounds
  <2>2. window \in [Prefixes -> [members: SUBSET Member, expires: Nat \cup {None}]]
    BY <1>2 DEF Init
  <2>3. /\ request \in [Requests -> Request] /\ errors \in 0..MaxErrors
        /\ fails \in [n: 0..MaxFailures, expires: Nat \cup {None}]
    BY <1>5, IdleOK, Bounds DEF Init
  <2>4. /\ served \in [Prefixes -> SUBSET Member] /\ late \subseteq Prefixes
        /\ promise \in [Prefixes -> [until: Nat, short: BOOLEAN, banned: BOOLEAN] \cup {None}]
    BY DEF Init
  <2>5. lock \in Nat /\ told \in Nat \cup {None} /\ last \in Time /\ cut \in BOOLEAN
    BY <1>4 DEF Init
  <2> QED
    BY <1>4, <2>1, <2>2, <2>3, <2>4, <2>5 DEF TypeOK
<1>7. FiniteOK /\ StampsOK
  BY <1>1, <1>3, IdleOK DEF Init, FiniteOK, StampsOK
<1>8. \A p \in Prefixes : MembersOK(p)
  BY <1>1 DEF MembersOK
<1>9. WindowHolds
  <2>1. \A p \in Prefixes, t \in Time :
          {e \in served[p] : e.stamp > t - Window /\ e.stamp <= t} = {}
    BY <1>1
  <2>2. \A p \in Prefixes, t \in Time :
          Cardinality({e \in served[p] : e.stamp > t - Window /\ e.stamp <= t}) = 0
    BY <1>3, <2>1, Zenon
  <2>3. \A p \in Prefixes : 0 <= Limit[p]
    BY Bounds
  <2> QED
    BY <2>2, <2>3 DEF WindowHolds
<1>10. ExpiryOK
  BY <1>5 DEF Init, ExpiryOK
<1> QED
  BY <1>6, <1>7, <1>8, <1>9, <1>10 DEF LimitsInv

LEMMA NextKeeps == LimitsInv /\ [Next]_vars => LimitsInv'
<1> SUFFICES ASSUME LimitsInv, [Next]_vars PROVE LimitsInv'
  OBVIOUS
<1>0. ASSUME NEW q \in Requests, LockedOut(q) PROVE LimitsInv'
  BY <1>0, LockedOutStep
<1>1. ASSUME NEW q \in Requests, NEW p \in Prefixes, CheckLock(q, p) PROVE LimitsInv'
  BY <1>1, CheckLockStep
<1>2. ASSUME NEW q \in Requests, RequestStep(q) PROVE LimitsInv'
  BY <1>2, EvaluateStep, GiveUpStep, ReadOldestStep, CountFailureStep, KeepCounterStep,
     SetLockStep DEF RequestStep
<1>3. CASE Tick
  BY <1>3, TickStep
<1>4. CASE UNCHANGED vars
  <2>1. TypeOK' /\ StampsOK' /\ ExpiryOK'
    BY <1>4 DEF vars, LimitsInv, TypeOK, StampsOK, ExpiryOK, At
  <2> QED
    BY <1>4, <2>1, WindowUntouched DEF vars, LimitsInv
<1> QED
  BY <1>0, <1>1, <1>2, <1>3, <1>4 DEF Next

-----------------------------------------------------------------------------
(* The promise of a refusal                                                *)

\* No request was stamped in the future, and a promise that was not cut is one of
\* room: what is in the window when it falls due is less than the limit.
PromisesOK ==
    /\ \A q \in Requests : request[q].stamp <= now
    /\ \A p \in Prefixes : promise[p] # None /\ ~promise[p].short =>
         Cardinality(Recent(window[p].members, promise[p].until)) < Limit[p]

\* A wait that is not cut to whole seconds covers the rest of the window.
LEMMA WaitIsEnough ==
  ASSUME NEW rest \in Int, ~Truncated(rest)
  PROVE  RetryAfter(rest) >= rest
<1> DEFINE d == rest \div Second
           k == Max({1, d})
<1>1. Second \in Nat /\ Second >= 1
  BY Bounds
<1>2. d \in Int /\ rest % Second \in 0..(Second - 1)
      /\ rest = (Second * d) + (rest % Second)
  BY <1>1
<1> HIDE DEF d
<1>3. \E x \in {1, d} : \A y \in {1, d} : x >= y
  BY <1>2
<1>4. k \in {1, d} /\ k >= 1 /\ k >= d
  <2>1. k \in {1, d} /\ \A y \in {1, d} : k >= y
    BY <1>3 DEF Max
  <2> QED
    BY <2>1
<1> HIDE DEF k
<1>5. Second * k >= Second /\ Second * k >= Second * d /\ Second * k \in Int
  BY <1>1, <1>2, <1>4
<1>6. Second * k >= rest
  <2>1. CASE rest <= Second
    BY <1>1, <1>5, <2>1
  <2>2. CASE rest % Second = 0
    <3>1. rest = Second * d
      BY <1>1, <1>2, <2>2
    <3> QED
      BY <1>5, <3>1
  <2>3. rest <= Second \/ rest % Second = 0
    BY <1>1 DEF Truncated
  <2> QED
    BY <2>1, <2>2, <2>3
<1> QED
  BY <1>6 DEF RetryAfter, k, d

\* Fewer members leave more room.
LEMMA RoomStays ==
  ASSUME LimitsInv, NEW p \in Prefixes, NEW M, M \subseteq window[p].members,
         NEW t \in Int, NEW u \in Int, t <= u,
         Cardinality(Recent(window[p].members, t)) < Limit[p]
  PROVE  Cardinality(Recent(M, u)) < Limit[p]
<1>1. Recent(M, u) \subseteq Recent(window[p].members, t)
  BY WindowFacts, Bounds DEF Recent
<1>2. IsFiniteSet(Recent(window[p].members, t))
  BY WindowFacts, FS_Subset DEF Recent
<1>3. Cardinality(Recent(M, u)) <= Cardinality(Recent(window[p].members, t))
  BY <1>1, <1>2, FS_Subset
<1>4. IsFiniteSet(Recent(M, u))
  BY <1>1, <1>2, FS_Subset
<1>5. Cardinality(Recent(M, u)) \in Nat /\ Cardinality(Recent(window[p].members, t)) \in Nat
  BY <1>2, <1>4, FS_CardinalityType
<1> QED
  BY <1>3, <1>5, Bounds

\* When the oldest member has left the window there is room.
LEMMA OldestMakesRoom ==
  ASSUME LimitsInv, NEW q \in Requests, request[q].pc = "refused",
         request[q].stamp <= now, ~Wait(q).short
  PROVE  LET p == request[q].prefix
         IN  Cardinality(Recent(window[p].members, Wait(q).until)) < Limit[p]
<1> DEFINE p == request[q].prefix
           stamp == request[q].stamp
           M == window[p].members
           S == {e.stamp : e \in M}
           rest == Min(S) + Window - stamp
           until == Wait(q).until
<1>0. /\ p \in Prefixes /\ stamp \in Nat
      /\ until = now + (IF M = {} THEN Window ELSE RetryAfter(rest))
      /\ M # {} => ~Truncated(rest)
  BY Bounds DEF LimitsInv, TypeOK, StampsOK, Request, Wait
<1>1. CASE M = {}
  <2>1. Recent(M, until) = {}
    BY <1>1 DEF Recent
  <2>2. Cardinality(Recent(M, until)) = 0
    BY <2>1, FS_EmptySet
  <2>3. Limit[p] \in Nat /\ Limit[p] >= 1
    BY <1>0, Bounds
  <2> HIDE DEF M, until, p
  <2>4. Cardinality(Recent(M, until)) < Limit[p]
    BY <2>2, <2>3
  <2> QED
    BY <2>4 DEF M, until, p
<1>2. CASE M # {}
  <2>1. IsFiniteSet(M) /\ Cardinality(M) \in Nat /\ Cardinality(M) <= Limit[p]
    BY <1>0, WindowFacts
  <2>2. S \subseteq Nat /\ S # {}
    BY <1>0, <1>2, WindowFacts
  <2>3. PICK m : m = Min(S)
    OBVIOUS
  <2>4. m \in S /\ m \in Nat
    <3> HIDE DEF S
    <3> QED
      BY <2>2, <2>3, MinIsNumber
  <2>5. PICK e \in M : e.stamp = m
    BY <2>4
  <2>6. rest = m + Window - stamp /\ rest \in Int
    BY <1>0, <2>3, <2>4, Bounds
  <2>7. RetryAfter(rest) >= rest /\ RetryAfter(rest) \in Nat
    BY <1>0, <1>2, <2>6, WaitIsEnough, RetryAfterIsNumber
  <2>8. until >= m + Window /\ until \in Nat
    <3>1. now \in Nat
      BY Bounds DEF LimitsInv, TypeOK
    <3> QED
      BY <1>0, <1>2, <2>4, <2>6, <2>7, <3>1, Bounds
  <2> HIDE DEF until
  <2>9. Recent(M, until) \subseteq M \ {e}
    BY <2>4, <2>5, <2>8, Bounds DEF Recent
  <2>10. IsFiniteSet(M \ {e}) /\ Cardinality(M \ {e}) = Cardinality(M) - 1
    BY <2>1, <2>5, FS_RemoveElement
  <2>11. /\ IsFiniteSet(Recent(M, until)) /\ Cardinality(Recent(M, until)) \in Nat
         /\ Cardinality(Recent(M, until)) <= Cardinality(M \ {e})
    BY <2>9, <2>10, FS_Subset, FS_CardinalityType
  <2>12. Limit[p] \in Nat
    BY <1>0, Bounds
  <2> HIDE DEF M, S, p, rest
  <2>13. Cardinality(Recent(M, until)) < Limit[p]
    BY <2>1, <2>10, <2>11, <2>12
  <2> QED
    BY <2>13 DEF M, p, until
<1> QED
  BY <1>1, <1>2

\* Steps that make no promise keep the promises.
LEMMA PromisesStay ==
  ASSUME LimitsInv, PromisesOK, now' \in {now, now + 1},
         \A q \in Requests : request'[q].stamp \in {request[q].stamp, 0, now},
         \A p \in Prefixes : \/ promise'[p] = None
                             \/ /\ promise[p] # None
                                /\ promise'[p].until = promise[p].until
                                /\ promise'[p].short = promise[p].short
                                /\ window'[p].members \subseteq window[p].members
  PROVE  PromisesOK'
<1>1. now \in Nat /\ promise \in [Prefixes -> [until: Nat, short: BOOLEAN, banned: BOOLEAN] \cup {None}]
  BY Bounds DEF LimitsInv, TypeOK
<1>2. \A q \in Requests : request[q].stamp \in Nat /\ request[q].stamp <= now
  BY Bounds DEF LimitsInv, TypeOK, Request, PromisesOK
<1>3. \A q \in Requests : request'[q].stamp <= now'
  BY <1>1, <1>2
<1>4. ASSUME NEW p \in Prefixes, promise'[p] # None, ~promise'[p].short
      PROVE  Cardinality(Recent(window'[p].members, promise'[p].until)) < Limit[p]
  <2>1. /\ promise[p] # None /\ ~promise[p].short /\ promise'[p].until = promise[p].until
        /\ window'[p].members \subseteq window[p].members
    BY <1>4
  <2>2. Cardinality(Recent(window[p].members, promise[p].until)) < Limit[p]
    BY <2>1 DEF PromisesOK
  <2>3. promise[p].until \in Nat
    BY <1>1, <2>1
  <2>4. PICK M, t : M = window'[p].members /\ t = promise[p].until
    OBVIOUS
  <2>5. /\ M \subseteq window[p].members /\ t \in Int /\ t <= t
        /\ Cardinality(Recent(window[p].members, t)) < Limit[p]
    BY <2>1, <2>2, <2>3, <2>4
  <2>6. Cardinality(Recent(M, t)) < Limit[p]
    BY <2>5, RoomStays
  <2> QED
    BY <2>1, <2>4, <2>6 DEF Recent
<1> QED
  BY <1>3, <1>4 DEF PromisesOK, Recent

\* The requests after a step keep their stamps, but for the one that takes it.
LEMMA OneStamp ==
  ASSUME TypeOK, NEW q \in Requests, NEW s, s.stamp \in {request[q].stamp, 0, now},
         request' = [request EXCEPT ![q] = s]
  PROVE  /\ \A r \in Requests : request'[r].stamp \in {request[r].stamp, 0, now}
         /\ request'[q] = s /\ \A r \in Requests \ {q} : request'[r] = request[r]
  BY DEF TypeOK

LEMMA EvaluatePromises ==
  ASSUME LimitsInv, PromisesOK, NEW q \in Requests, Evaluate(q)
  PROVE  PromisesOK'
<1> DEFINE p == request[q].prefix
           stamp == request[q].stamp
           kept == Recent(window[p].members, stamp)
           new == [n |-> Cardinality(served[p]) + 1, stamp |-> stamp]
<1>1. /\ TypeOK /\ p \in Prefixes /\ now' = now
      /\ promise \in [Prefixes -> [until: Nat, short: BOOLEAN, banned: BOOLEAN] \cup {None}]
      /\ \A r \in Prefixes : window[r] \in [members: SUBSET Member, expires: Nat \cup {None}]
  BY DEF Evaluate, At, LimitsInv, TypeOK, StampsOK
<1>2. CASE HasRoom(p, kept)
  <2>1. /\ window' = [window EXCEPT ![p] = [members |-> kept \cup {new},
                                            expires |-> now + Window]]
        /\ promise' = [promise EXCEPT ![p] = None]
        /\ request' = [request EXCEPT ![q] = Idle]
    BY <1>2 DEF Evaluate, Finish
  <2>2. \A r \in Requests : request'[r].stamp \in {request[r].stamp, 0, now}
    BY <1>1, <2>1, OneStamp DEF Idle
  <2>3. \A r \in Prefixes : \/ promise'[r] = None
                            \/ /\ promise[r] # None
                               /\ promise'[r].until = promise[r].until
                               /\ promise'[r].short = promise[r].short
                               /\ window'[r].members \subseteq window[r].members
    BY <1>1, <2>1 DEF LimitsInv, TypeOK
  <2> QED
    BY <1>1, <2>2, <2>3, PromisesStay
<1>3. CASE ~HasRoom(p, kept)
  <2> DEFINE s == [request[q] EXCEPT !.pc = "refused"]
  <2>1. /\ window' = [window EXCEPT ![p] = [@ EXCEPT !.members = kept]]
        /\ request' = [request EXCEPT ![q] = s] /\ promise' = promise
    BY <1>3 DEF Evaluate
  <2>2. s.stamp = request[q].stamp
    BY <1>1 DEF TypeOK, Request
  <2> HIDE DEF s
  <2>3. \A r \in Requests : request'[r].stamp \in {request[r].stamp, 0, now}
    BY <1>1, <2>1, <2>2, OneStamp
  <2>4. kept \subseteq window[p].members
    BY DEF Recent
  <2>5. \A r \in Prefixes : window'[r].members \subseteq window[r].members
    BY <1>1, <2>1, <2>4 DEF LimitsInv, TypeOK
  <2> QED
    BY <1>1, <2>1, <2>3, <2>5, PromisesStay
<1> QED
  BY <1>2, <1>3

LEMMA ReadOldestPromises ==
  ASSUME LimitsInv, PromisesOK, NEW q \in Requests, ReadOldest(q)
  PROVE  PromisesOK'
<1>1. PICK p, s, good :
        /\ p = request[q].prefix
        /\ s = [request[q] EXCEPT !.pc = "failed"]
        /\ good = Wait(q)
  OBVIOUS
<1>2. /\ promise' = [promise EXCEPT ![p] = good]
      /\ request' = [request EXCEPT ![q] = s]
      /\ UNCHANGED <<now, window>> /\ request[q].pc = "refused"
  BY <1>1 DEF ReadOldest, At, redisVars, Wait
<1>3. /\ TypeOK /\ request[q] \in Request /\ p \in Prefixes
      /\ request[q].stamp <= now
      /\ promise \in [Prefixes -> [until: Nat, short: BOOLEAN, banned: BOOLEAN] \cup {None}]
  BY <1>1, <1>2, Bounds DEF LimitsInv, TypeOK, StampsOK, Request, PromisesOK
<1>4. \A r \in Requests : request'[r].stamp <= now'
  <2>1. s.stamp = request[q].stamp
    BY <1>1, <1>3 DEF Request
  <2>2. \A r \in Requests : request'[r].stamp = request[r].stamp
    BY <1>2, <1>3, <2>1 DEF TypeOK
  <2> QED
    BY <1>2, <2>2 DEF PromisesOK
<1>5. ~good.short => Cardinality(Recent(window[p].members, good.until)) < Limit[p]
  BY <1>1, <1>2, <1>3, OldestMakesRoom
<1>6. \A r \in Prefixes : promise'[r] = IF r = p THEN good ELSE promise[r]
  BY <1>2, <1>3
<1>7. \A r \in Prefixes : promise'[r] # None /\ ~promise'[r].short =>
        Cardinality(Recent(window[r].members, promise'[r].until)) < Limit[r]
  BY <1>5, <1>6 DEF PromisesOK
<1> QED
  BY <1>2, <1>4, <1>7 DEF PromisesOK, Recent

LEMMA PromisesStep == LimitsInv /\ PromisesOK /\ [Next]_vars => PromisesOK'
<1> SUFFICES ASSUME LimitsInv, PromisesOK, [Next]_vars PROVE PromisesOK'
  OBVIOUS
<1>1. TypeOK /\ \A q \in Requests : request[q] \in Request
  BY DEF LimitsInv, TypeOK
<1>0. ASSUME NEW q \in Requests, LockedOut(q) PROVE PromisesOK'
  BY <1>0, <1>1, PromisesStay DEF LockedOut, redisVars
<1>2. ASSUME NEW q \in Requests, NEW p \in Prefixes, CheckLock(q, p) PROVE PromisesOK'
  <2>1. PICK s : s = [Idle EXCEPT !.pc = "stamped", !.prefix = p, !.stamp = now,
                                  !.banned = Ttl # 0]
    OBVIOUS
  <2>2. /\ request' = [request EXCEPT ![q] = s]
        /\ UNCHANGED <<now, window, promise>>
    BY <1>2, <2>1 DEF CheckLock, redisVars, ghostVars
  <2>3. s.stamp = now
    BY <2>1 DEF Idle
  <2>4. \A r \in Requests : request'[r].stamp \in {request[r].stamp, 0, now}
    BY <1>1, <2>2, <2>3, OneStamp
  <2> QED
    BY <2>2, <2>4, PromisesStay
<1>3. ASSUME NEW q \in Requests, FailOpen(q) \/ RecordFails(q) PROVE PromisesOK'
  <2>1. request' = [request EXCEPT ![q] = Idle] /\ UNCHANGED <<now, window, promise>>
    BY <1>3 DEF FailOpen, RecordFails, Finish, redisVars, ghostVars
  <2>2. \A r \in Requests : request'[r].stamp \in {request[r].stamp, 0, now}
    BY <1>1, <2>1, OneStamp DEF Idle
  <2> QED
    BY <2>1, <2>2, PromisesStay
<1>7. ASSUME NEW q \in Requests, SetLock(q) PROVE PromisesOK'
  <2>0. UNCHANGED <<now, window>>
    BY <1>7 DEF SetLock
  <2>1. CASE /\ request' = [r \in Requests |->
                  IF r = q \/ At(r, "idle") THEN Idle
                  ELSE [request[r] EXCEPT !.banned = TRUE]]
             /\ promise' = [p \in Prefixes |->
                  IF promise[p] = None THEN None ELSE [promise[p] EXCEPT !.banned = TRUE]]
    <3>1. \A r \in Requests : request'[r].stamp \in {request[r].stamp, 0, now}
      BY <1>1, <2>1, BannedForm DEF Idle
    <3>2. ASSUME NEW p \in Prefixes, promise[p] # None
          PROVE  promise'[p].until = promise[p].until /\ promise'[p].short = promise[p].short
      <4>1. promise[p] \in [until: Nat, short: BOOLEAN, banned: BOOLEAN]
        BY <1>1, <3>2 DEF TypeOK
      <4> QED
        BY <2>1, <3>2, <4>1
    <3>3. \A p \in Prefixes : promise[p] = None => promise'[p] = None
      BY <2>1
    <3> QED
      BY <2>0, <3>1, <3>2, <3>3, PromisesStay
  <2>2. CASE request' = [request EXCEPT ![q] = Idle] /\ promise' = promise
    <3>1. \A r \in Requests : request'[r].stamp \in {request[r].stamp, 0, now}
      BY <1>1, <2>2, OneStamp DEF Idle
    <3> QED
      BY <2>0, <2>2, <3>1, PromisesStay
  <2> QED
    BY <1>7, <2>1, <2>2, SetLockForm
<1>4. ASSUME NEW q \in Requests, CountFailure(q) \/ KeepCounter(q) PROVE PromisesOK'
  <2>1. UNCHANGED <<now, window, promise>>
    BY <1>4 DEF CountFailure, KeepCounter
  <2>2. PICK s : request' = [request EXCEPT ![q] = s] /\ s.stamp = request[q].stamp
    <3>1. CASE CountFailure(q)
      <4>1. PICK s : s = [request[q] EXCEPT !.pc = "counted", !.fails = fails.n + 1]
        OBVIOUS
      <4>2. request' = [request EXCEPT ![q] = s]
        BY <1>1, <3>1, <4>1 DEF CountFailure, TypeOK
      <4>3. s.stamp = request[q].stamp
        BY <1>1, <4>1 DEF Request
      <4> QED
        BY <4>2, <4>3
    <3>2. CASE KeepCounter(q)
      <4>1. PICK s : s = [request[q] EXCEPT !.pc = "locking"]
        OBVIOUS
      <4>2. request' = [request EXCEPT ![q] = s]
        BY <1>1, <3>2, <4>1 DEF KeepCounter, TypeOK
      <4>3. s.stamp = request[q].stamp
        BY <1>1, <4>1 DEF Request
      <4> QED
        BY <4>2, <4>3
    <3> QED
      BY <1>4, <3>1, <3>2
  <2>3. \A r \in Requests : request'[r].stamp \in {request[r].stamp, 0, now}
    BY <1>1, <2>2, OneStamp
  <2> QED
    BY <2>1, <2>3, PromisesStay
<1>5. CASE Tick
  <2>1. /\ now' = now + 1 /\ request' = request /\ promise' = promise
        /\ window' = [p \in Prefixes |->
             IF window[p].expires = now + 1 THEN NoWindow ELSE window[p]]
    BY <1>5 DEF Tick
  <2>2. \A p \in Prefixes : window'[p].members \subseteq window[p].members
    BY <2>1 DEF NoWindow
  <2> QED
    BY <2>1, <2>2, PromisesStay
<1>6. CASE UNCHANGED vars
  BY <1>6, PromisesStay DEF vars
<1> QED
  BY <1>0, <1>2, <1>3, <1>4, <1>5, <1>6, <1>7, EvaluatePromises, ReadOldestPromises
  DEF Next, RequestStep

\* Who is refused came before its promise fell due.
LEMMA RefusedTooEarly ==
  ASSUME LimitsInv, PromisesOK, Next, NEW q \in Requests, At(q, "stamped"),
         request'[q].pc = "refused"
  PROVE  LET good == promise[request[q].prefix]
         IN  good = None \/ good.short \/ request[q].stamp < good.until
<1> DEFINE p == request[q].prefix
           stamp == request[q].stamp
           kept == Recent(window[p].members, stamp)
<1>1. /\ TypeOK /\ p \in Prefixes /\ stamp \in Nat /\ request[q].pc = "stamped"
      /\ promise \in [Prefixes -> [until: Nat, short: BOOLEAN, banned: BOOLEAN] \cup {None}]
      /\ \A r \in Requests : request[r] \in Request
  BY Bounds DEF LimitsInv, TypeOK, StampsOK, Request, At
<1>2. Evaluate(q)
  <2>1. ASSUME NEW r \in Requests, NEW x \in Prefixes, CheckLock(r, x) PROVE FALSE
    <3>1. request[r].pc = "idle" /\ r # q
      BY <1>1, <2>1 DEF CheckLock, At
    <3>2. request'[q].pc = request[q].pc
      BY <1>1, <2>1, <3>1 DEF CheckLock, Request
    <3> QED
      BY <1>1, <3>2
  <2>0. ASSUME NEW r \in Requests, SetLock(r) PROVE FALSE
    <3>1. r # q
      BY <1>1, <2>0 DEF SetLock, At
    <3>2. \/ request' = [request EXCEPT ![r] = Idle]
          \/ request' = [x \in Requests |-> IF x = r \/ At(x, "idle") THEN Idle
                                            ELSE [request[x] EXCEPT !.banned = TRUE]]
      BY <2>0, SetLockForm
    <3>3. request'[q] \in {request[q], [request[q] EXCEPT !.banned = TRUE]}
      BY <1>1, <3>1, <3>2 DEF At, TypeOK
    <3>4. request'[q].pc = request[q].pc
      BY <1>1, <3>3, BannedForm
    <3> QED
      BY <1>1, <3>4
  <2>2. ASSUME NEW r \in Requests, RequestStep(r), r # q PROVE FALSE
    <3>1. request'[q] = request[q]
      BY <1>1, <2>0, <2>2 DEF RequestStep, Evaluate, FailOpen, ReadOldest, CountFailure,
                              KeepCounter, RecordFails, Finish, TypeOK
    <3> QED
      BY <1>1, <3>1
  <2>3. ASSUME FailOpen(q) PROVE FALSE
    BY <1>1, <2>3 DEF FailOpen, Finish, TypeOK, Idle
  <2>4. ASSUME RequestStep(q) PROVE Evaluate(q)
    BY <1>1, <2>0, <2>3, <2>4 DEF RequestStep, ReadOldest, CountFailure, KeepCounter,
                                  RecordFails, At
  <2>5. ~Tick
    BY <1>1 DEF Tick
  <2>6. \A r \in Requests : ~LockedOut(r)
    BY <1>1 DEF LockedOut
  <2> QED
    BY <2>1, <2>2, <2>4, <2>5, <2>6 DEF Next
<1>3. ~HasRoom(p, kept)
  BY <1>1, <1>2 DEF Evaluate, Finish, TypeOK, Idle
<1>4. SUFFICES ASSUME promise[p] # None, ~promise[p].short, ~(stamp < promise[p].until)
               PROVE  FALSE
  OBVIOUS
<1>5. promise[p].until \in Nat /\ promise[p].until <= stamp
  BY <1>1, <1>4
<1>6. Cardinality(Recent(window[p].members, promise[p].until)) < Limit[p]
  BY <1>1, <1>4 DEF PromisesOK
<1>7. Cardinality(kept) < Limit[p]
  BY <1>1, <1>5, <1>6, RoomStays
<1> QED
  BY <1>3, <1>7 DEF HasRoom

-----------------------------------------------------------------------------
(* Locks and what was told of them                                         *)

\* A lock that was not set since is the one that a request saw ending, or that a caller
\* was told of: it is over within half a second of the stamp, or of the wait.
LocksOK ==
    /\ \A q \in Requests : request[q].pc \in {"stamped", "refused"} /\ ~request[q].banned
         => lock = 0 \/ 2 * (lock - request[q].stamp) < Second
    /\ \A p \in Prefixes : promise[p] # None /\ ~promise[p].banned
         => lock = 0 \/ lock <= promise[p].until
    /\ told # None => lock = 0 \/ 2 * (lock - told) < Second

\* Steps that set no lock and tell nobody to wait.
LEMMA LocksStay ==
  ASSUME LocksOK, lock' \in {lock, 0}, told' = told,
         \A q \in Requests : request'[q].pc \in {"stamped", "refused"} =>
           /\ request[q].pc \in {"stamped", "refused"}
           /\ request'[q].stamp = request[q].stamp
           /\ request'[q].banned = request[q].banned,
         \A p \in Prefixes : promise'[p] \in {None, promise[p]}
  PROVE  LocksOK'
<1>1. ASSUME NEW q \in Requests, request'[q].pc \in {"stamped", "refused"},
             ~request'[q].banned
      PROVE  lock' = 0 \/ 2 * (lock' - request'[q].stamp) < Second
  BY <1>1 DEF LocksOK
<1>2. ASSUME NEW p \in Prefixes, promise'[p] # None, ~promise'[p].banned
      PROVE  lock' = 0 \/ lock' <= promise'[p].until
  <2>1. promise'[p] = promise[p]
    BY <1>2
  <2> QED
    BY <1>2, <2>1 DEF LocksOK
<1>3. told' # None => lock' = 0 \/ 2 * (lock' - told') < Second
  BY DEF LocksOK
<1> QED
  BY <1>1, <1>2, <1>3 DEF LocksOK

LEMMA EvaluateLocks ==
  ASSUME LimitsInv, LocksOK, NEW q \in Requests, Evaluate(q)
  PROVE  LocksOK'
<1>1. /\ request \in [Requests -> Request] /\ request[q] \in Request
      /\ request[q].pc = "stamped" /\ request[q].prefix \in Prefixes
      /\ promise \in [Prefixes -> [until: Nat, short: BOOLEAN, banned: BOOLEAN] \cup {None}]
      /\ lock' = lock /\ told' = told
  BY DEF Evaluate, At, LimitsInv, TypeOK, StampsOK
<1>2. PICK s : /\ request' = [request EXCEPT ![q] = s]
               /\ s = Idle \/ s = [request[q] EXCEPT !.pc = "refused"]
  BY DEF Evaluate, Finish
<1>3. s.pc \in {"stamped", "refused"} =>
        s.stamp = request[q].stamp /\ s.banned = request[q].banned
  BY <1>1, <1>2, IdleOK DEF Request
<1>4. \A r \in Requests : request'[r] = IF r = q THEN s ELSE request[r]
  BY <1>1, <1>2
<1>5. \A p \in Prefixes : promise'[p] \in {None, promise[p]}
  BY <1>1 DEF Evaluate
<1> QED
  BY <1>1, <1>3, <1>4, <1>5, LocksStay

\* A request that goes on, past the window, or ends.
LEMMA OtherLocks ==
  ASSUME LimitsInv, LocksOK, NEW q \in Requests,
         \/ FailOpen(q) \/ RecordFails(q) \/ CountFailure(q) \/ KeepCounter(q)
  PROVE  LocksOK'
<1>1. /\ request \in [Requests -> Request] /\ request[q] \in Request
      /\ UNCHANGED <<lock, told, promise>>
  BY DEF LimitsInv, TypeOK, FailOpen, RecordFails, CountFailure, KeepCounter, redisVars,
         ghostVars
<1>2. PICK s : /\ request' = [request EXCEPT ![q] = s]
               /\ s.pc \notin {"stamped", "refused"}
  <2>1. CASE FailOpen(q) \/ RecordFails(q)
    BY <2>1, IdleOK DEF FailOpen, RecordFails, Finish
  <2>2. CASE CountFailure(q)
    <3>1. PICK s : s = [request[q] EXCEPT !.pc = "counted", !.fails = fails.n + 1]
      OBVIOUS
    <3>2. s.pc = "counted"
      BY <1>1, <3>1 DEF Request
    <3> QED
      BY <2>2, <3>1, <3>2 DEF CountFailure
  <2>3. CASE KeepCounter(q)
    <3>1. PICK s : s = [request[q] EXCEPT !.pc = "locking"]
      OBVIOUS
    <3>2. s.pc = "locking"
      BY <1>1, <3>1 DEF Request
    <3> QED
      BY <1>1, <2>3, <3>1, <3>2 DEF KeepCounter
  <2> QED
    BY <2>1, <2>2, <2>3
<1>3. \A r \in Requests : request'[r] = IF r = q THEN s ELSE request[r]
  BY <1>1, <1>2
<1> QED
  BY <1>1, <1>2, <1>3, LocksStay

LEMMA CheckLockLocks ==
  ASSUME LimitsInv, LocksOK, NEW q \in Requests, NEW p \in Prefixes, CheckLock(q, p)
  PROVE  LocksOK'
<1>1. PICK s : s = [Idle EXCEPT !.pc = "stamped", !.prefix = p, !.stamp = now,
                                !.banned = Ttl # 0]
  OBVIOUS
<1>2. /\ request' = [request EXCEPT ![q] = s] /\ request \in [Requests -> Request]
      /\ UNCHANGED <<now, lock, told, promise>>
  BY <1>1 DEF CheckLock, redisVars, ghostVars, LimitsInv, TypeOK
<1>3. s.stamp = now /\ s.banned = (Ttl # 0)
  BY <1>1 DEF Idle
<1>4. \A r \in Requests : request'[r] = IF r = q THEN s ELSE request[r]
  BY <1>2
<1>5. ~s.banned => lock = 0 \/ 2 * (lock - s.stamp) < Second
  <2> SUFFICES ASSUME Ttl = 0 PROVE 2 * (lock - now) < Second
    BY <1>3
  <2>1. 2 * (lock - (now + Second * Ttl)) < Second
    BY TtlIsClose DEF LimitsInv, ExpiryOK
  <2>2. now \in Nat /\ Second * Ttl = 0
    BY Bounds DEF LimitsInv, TypeOK
  <2> QED
    BY <2>1, <2>2
<1>6. \A r \in Requests : request'[r].pc \in {"stamped", "refused"} /\ ~request'[r].banned
        => lock' = 0 \/ 2 * (lock' - request'[r].stamp) < Second
  BY <1>2, <1>4, <1>5 DEF LocksOK
<1> QED
  BY <1>2, <1>6 DEF LocksOK

LEMMA LockedOutLocks ==
  ASSUME LimitsInv, LocksOK, NEW q \in Requests, LockedOut(q)
  PROVE  LocksOK'
<1>1. UNCHANGED <<lock, request, promise>> /\ told' = now + Second * Ttl
  BY DEF LockedOut, redisVars
<1>2. 2 * (lock - (now + Second * Ttl)) < Second
  BY TtlIsClose DEF LimitsInv, ExpiryOK
<1> QED
  BY <1>1, <1>2 DEF LocksOK

LEMMA ReadOldestLocks ==
  ASSUME LimitsInv, PromisesOK, LocksOK, NEW q \in Requests, ReadOldest(q)
  PROVE  LocksOK'
<1>1. PICK s : s = [request[q] EXCEPT !.pc = "failed"]
  OBVIOUS
<1>2. /\ request[q].pc = "refused" /\ request' = [request EXCEPT ![q] = s]
      /\ promise' = [promise EXCEPT ![request[q].prefix] = Wait(q)]
      /\ UNCHANGED <<now, lock, told>>
  BY <1>1 DEF ReadOldest, At, redisVars, Wait
<1>3. /\ request \in [Requests -> Request] /\ request[q] \in Request
      /\ promise \in [Prefixes -> [until: Nat, short: BOOLEAN, banned: BOOLEAN] \cup {None}]
      /\ now \in Nat /\ lock \in Nat /\ request[q].stamp \in Nat
      /\ request[q].stamp <= now
  BY Bounds DEF LimitsInv, TypeOK, Request, PromisesOK
<1>4. \A r \in Requests : request'[r] = IF r = q THEN s ELSE request[r]
  BY <1>2, <1>3
<1>5. s.pc = "failed"
  BY <1>1, <1>3 DEF Request
<1>6. \A p \in Prefixes : promise'[p] = IF p = request[q].prefix THEN Wait(q) ELSE promise[p]
  BY <1>2, <1>3
<1>7. ~Wait(q).banned => lock = 0 \/ lock <= Wait(q).until
  <2> SUFFICES ASSUME ~Wait(q).banned, lock # 0 PROVE lock <= Wait(q).until
    OBVIOUS
  <2>1. ~request[q].banned /\ Wait(q).until >= now + Second /\ Wait(q).until \in Nat
    BY <1>2, WaitIsNumber
  <2>2. 2 * (lock - request[q].stamp) < Second
    BY <1>2, <2>1 DEF LocksOK
  <2> QED
    BY <1>3, <2>1, <2>2, Bounds
<1>8. \A p \in Prefixes : promise'[p] # None /\ ~promise'[p].banned
        => lock' = 0 \/ lock' <= promise'[p].until
  BY <1>2, <1>6, <1>7 DEF LocksOK
<1>9. \A r \in Requests : request'[r].pc \in {"stamped", "refused"} /\ ~request'[r].banned
        => lock' = 0 \/ 2 * (lock' - request'[r].stamp) < Second
  BY <1>2, <1>4, <1>5 DEF LocksOK
<1> QED
  BY <1>2, <1>8, <1>9 DEF LocksOK

LEMMA SetLockLocks ==
  ASSUME LimitsInv, LocksOK, NEW q \in Requests, SetLock(q)
  PROVE  LocksOK'
<1>1. /\ request \in [Requests -> Request] /\ \A r \in Requests : request[r] \in Request
      /\ promise \in [Prefixes -> [until: Nat, short: BOOLEAN, banned: BOOLEAN] \cup {None}]
  BY DEF LimitsInv, TypeOK
<1>2. CASE /\ told' = None
           /\ request' = [r \in Requests |->
                IF r = q \/ At(r, "idle") THEN Idle
                ELSE [request[r] EXCEPT !.banned = TRUE]]
           /\ promise' = [p \in Prefixes |->
                IF promise[p] = None THEN None ELSE [promise[p] EXCEPT !.banned = TRUE]]
  <2>1. \A r \in Requests : request'[r].pc \in {"stamped", "refused"} => request'[r].banned
    BY <1>1, <1>2, IdleOK, BannedForm
  <2>2. ASSUME NEW p \in Prefixes, promise'[p] # None PROVE promise'[p].banned
    <3>1. promise[p] \in [until: Nat, short: BOOLEAN, banned: BOOLEAN] /\ promise[p] # None
      BY <1>1, <1>2, <2>2
    <3> QED
      BY <1>2, <3>1
  <2> QED
    BY <1>2, <2>1, <2>2 DEF LocksOK
<1>3. CASE /\ request' = [request EXCEPT ![q] = Idle]
           /\ UNCHANGED <<lock, promise, told>>
  <2>1. \A r \in Requests : request'[r] = IF r = q THEN Idle ELSE request[r]
    BY <1>1, <1>3
  <2> QED
    BY <1>3, <2>1, IdleOK, LocksStay
<1> QED
  BY <1>2, <1>3, SetLockForm

LEMMA LocksStep == LimitsInv /\ PromisesOK /\ LocksOK /\ [Next]_vars => LocksOK'
<1> SUFFICES ASSUME LimitsInv, PromisesOK, LocksOK, [Next]_vars PROVE LocksOK'
  OBVIOUS
<1>1. CASE Tick
  <2>1. lock' \in {lock, 0} /\ UNCHANGED <<told, request, promise>>
    BY <1>1 DEF Tick
  <2> QED
    BY <2>1, LocksStay
<1>2. CASE UNCHANGED vars
  BY <1>2, LocksStay DEF vars
<1>3. ASSUME NEW q \in Requests, RequestStep(q) PROVE LocksOK'
  BY <1>3, EvaluateLocks, OtherLocks, ReadOldestLocks, SetLockLocks DEF RequestStep
<1> QED
  BY <1>1, <1>2, <1>3, CheckLockLocks, LockedOutLocks DEF Next

LEMMA LocksStart == Init => PromisesOK /\ LocksOK
  BY DEF Init, PromisesOK, LocksOK, Idle

\* No lock is in the way of who waited, if none was set since.
LEMMA NoLockInTheWay ==
  LimitsInv /\ LocksOK => \A p \in Prefixes : promise[p] # None =>
    now < promise[p].until \/ promise[p].banned \/ lock = 0
<1> SUFFICES ASSUME LimitsInv, LocksOK, NEW p \in Prefixes, promise[p] # None,
                    ~promise[p].banned, lock # 0
             PROVE  now < promise[p].until
  OBVIOUS
<1>1. now \in Nat /\ lock \in Nat /\ now < lock
  BY Bounds DEF LimitsInv, TypeOK, ExpiryOK
<1>2. promise[p].until \in Nat /\ lock <= promise[p].until
  BY DEF LimitsInv, TypeOK, LocksOK
<1> QED
  BY <1>1, <1>2

\* The strengthening that makes the properties inductive: what the key holds of the
\* requests served, how long the counter lives, and who can be alone.
THEOREM LimitsInvariant == Spec => []LimitsInv
BY InitLimits, NextKeeps, PTL DEF Spec

\* Type correctness, and no window over its limit, for any endpoints and limits.
THEOREM TypeCorrect == Spec => []TypeOK
<1>1. LimitsInv => TypeOK
  BY DEF LimitsInv
<1> QED
  BY <1>1, LimitsInvariant, PTL

\* The sliding window lets no more requests through than its limit, wherever the
\* window begins and however many requests of the caller overlap.
THEOREM WindowKept == Spec => []WindowHolds
<1>1. LimitsInv => WindowHolds
  BY DEF LimitsInv
<1> QED
  BY <1>1, LimitsInvariant, PTL

\* A caller that waits as long as a refusal told it, and whom nobody overtakes, finds
\* room in the window and no lock, for any limits, windows and tiers -- unless the wait
\* was cut to whole seconds, or a lock was set since the refused request was stamped.
THEOREM WaitIsRewarded == Spec => RetryAfterIsEnough
<1>1. LimitsInv /\ PromisesOK /\ [Next]_vars =>
        [\A q \in Requests : At(q, "stamped") /\ request'[q].pc = "refused" =>
           LET good == promise[request[q].prefix]
           IN good = None \/ good.short \/ request[q].stamp < good.until]_vars
  BY RefusedTooEarly
<1> QED
  BY <1>1, LocksStart, PromisesStep, LocksStep, NoLockInTheWay, LimitsInvariant, PTL
  DEF Spec, RetryAfterIsEnough

\* The counter of failures is gone a day after it was last touched, for any number
\* of requests -- unless the connection was lost in between.
THEOREM ResetInADay == Spec => []ResetsAfterADay
<1>1. LimitsInv => ResetsAfterADay
  <2> SUFFICES ASSUME LimitsInv, fails.n > 0, ~cut,
                      \A q \in Requests : ~At(q, "counted")
               PROVE  now < last + Day
    BY DEF ResetsAfterADay
  <2>1. fails.expires = last + Day
    BY DEF LimitsInv, ExpiryOK
  <2>2. last + Day \in Nat
    <3>1. last \in Nat
      BY Bounds DEF LimitsInv, TypeOK
    <3>2. Day \in Nat
      BY Bounds
    <3> QED
      BY <3>1, <3>2
  <2>3. fails.expires # None
    BY <2>1, <2>2, Bounds
  <2> QED
    BY <2>1, <2>3 DEF LimitsInv, ExpiryOK
<1> QED
  BY <1>1, LimitsInvariant, PTL

\* A caller that is locked out is locked out no longer than it was told, whatever the
\* requests do that were past the lock check, and however the rest is rounded.
THEOREM LockoutsEnd == Spec => []LockEndsAsTold
<1>1. LimitsInv /\ LocksOK => LockEndsAsTold
  <2> SUFFICES ASSUME LimitsInv, LocksOK, told # None, now >= told, lock # 0 PROVE Ttl = 0
    BY DEF LockEndsAsTold, Ttl
  <2>1. now \in Nat /\ lock \in Nat /\ told \in Nat
    BY Bounds DEF LimitsInv, TypeOK
  <2>2. 2 * (lock - told) < Second
    BY DEF LocksOK
  <2>3. 2 * (lock - now) < Second
    BY <2>1, <2>2, Bounds
  <2> QED
    BY <2>3, TtlIsClose DEF LimitsInv, ExpiryOK
<1> QED
  BY <1>1, LocksStart, PromisesStep, LocksStep, LimitsInvariant, PTL DEF Spec

-----------------------------------------------------------------------------
(***************************************************************************)
(* The daily quota and the model's answers (AiRequests), for any plans,     *)
(* caps, number of overlapping requests and providers, and any lengths of   *)
(* the day, of the life of a counter and of a cached answer.  What the two  *)
(* modules name alike is renamed.                                           *)
(***************************************************************************)
CONSTANTS Asked, Askers, Plans, Free, NoText, Cap, Attempts, Providers, DayLength,
          SecondLength, Minute, CacheLife, MaxStarted, MaxChanges, MaxLost, MaxClock
VARIABLES clock, plan, used, cache, asking, started, changes, lost, tally, paid

Ai == INSTANCE AiRequests
        WITH Requests <- Askers, None <- NoText, Day <- DayLength, Second <- SecondLength,
             MaxErrors <- MaxLost, MaxTime <- MaxClock,
             now <- clock, request <- asking, errors <- lost

\* A request at work has a kind, and one about to be counted a bucket and a day that
\* has begun.
AskerOK(s) ==
    /\ s.pc # "idle" => s.kind \in Ai!Kinds
    /\ s.pc = "keyed" => Ai!BucketOf(s.kind) \in Ai!Buckets /\ s.day <= clock \div DayLength

\* No text was paid for in the life of a cache entry before.
Unpaid(k) == paid[k] = NoText \/ clock >= paid[k] + CacheLife

\* A request that asks a provider, having looked in the cache since the last text
\* came, asks for one that is due.
DueOK(s) == s.pc = "asking" /\ ~s.blind /\ Ai!Cached(s.kind) => Unpaid(s.kind)

\* A text that was paid for is in the cache for the life of an entry.
KeptOK(k) ==
    /\ paid[k] # NoText => paid[k] <= clock
    /\ Ai!Cached(k) /\ ~Unpaid(k)
         => cache[k] # NoText /\ cache[k].expires >= paid[k] + CacheLife

\* The counter of a day has counted what was admitted, until it lapses, and more
\* only if some cap was used up; no day has begun before its time.
CountOK(b, d) ==
    /\ d > clock \div DayLength => tally[b][d].spent = 0
    /\ d >= clock \div DayLength /\ ~tally[b][d].lapsed
         => tally[b][d].spent <= used[b][d].n
    /\ used[b][d].n > tally[b][d].spent
         => \E cap \in tally[b][d].turned : cap <= tally[b][d].spent

AskersOK == \A q \in Askers : AskerOK(asking[q]) /\ DueOK(asking[q])
TextsOK == \A k \in Ai!Kinds : KeptOK(k)
CountsOK == \A b \in Ai!Buckets, d \in Ai!Days : CountOK(b, d)
AiInv == Ai!TypeOK /\ AskersOK /\ TextsOK /\ CountsOK

LEMMA AiBounds ==
  ASSUME Ai!ConstantsAssumption
  PROVE  /\ Free \in Plans /\ NoText \notin Ai!Buckets \cup Ai!Texts
         /\ NoText \notin [text: Ai!Texts, expires: Nat]
         /\ \A b \in Ai!Buckets, p \in Plans : Cap[b][p] \in Nat
         /\ Attempts \in Nat /\ Attempts >= 1 /\ Providers \in Nat /\ Providers >= 1
         /\ DayLength \in Nat /\ DayLength >= 1 /\ SecondLength \in Nat /\ SecondLength >= 1
         /\ Minute \in Nat /\ CacheLife \in Nat
         /\ MaxStarted \in Nat /\ MaxChanges \in Nat /\ MaxLost \in Nat /\ MaxClock \in Nat
         /\ Asked \subseteq Ai!Kinds
  BY DEF Ai!ConstantsAssumption

\* The day of a moment is a number, and it does not run backwards.
LEMMA DaysPass ==
  ASSUME NEW d \in Nat, d >= 1, NEW a \in Nat, NEW b \in Nat, a <= b
  PROVE  a \div d \in Nat /\ a \div d <= b \div d
  <1>1. a \div d \in Int /\ b \div d \in Int /\ a % d \in 0..(d - 1) /\ b % d \in 0..(d - 1)
    OBVIOUS
  <1>2. a = d * (a \div d) + (a % d) /\ b = d * (b \div d) + (b % d)
    OBVIOUS
  <1>3. ASSUME NEW x \in Int, NEW y \in Int, x >= y + 1 PROVE d * x >= d * y + d
    <2>1. PICK k \in Nat : x = y + 1 + k
      <3>1. x - y - 1 \in Nat /\ x = y + 1 + (x - y - 1)
        BY <1>3
      <3> QED BY <3>1
    <2>2. d * x = d * y + d + d * k
      BY <2>1
    <2>3. d * k >= 0 /\ d * k \in Int /\ d * y \in Int
      OBVIOUS
    <2> QED BY <2>2, <2>3
  <1>4. a \div d >= 0
    <2>1. ASSUME a \div d < 0 PROVE FALSE
      <3>1. d * 0 >= d * (a \div d) + d
        BY <1>1, <1>3, <2>1
      <3>2. d * (a \div d) \in Int
        BY <1>1
      <3> QED BY <1>1, <1>2, <3>1, <3>2
    <2> QED BY <1>1, <2>1
  <1>5. a \div d <= b \div d
    <2>1. ASSUME a \div d > b \div d PROVE FALSE
      <3>1. d * (a \div d) >= d * (b \div d) + d
        BY <1>1, <1>3, <2>1
      <3>2. d * (a \div d) \in Int /\ d * (b \div d) \in Int
        BY <1>1
      <3> QED BY <1>1, <1>2, <3>1, <3>2
    <2> QED BY <1>1, <2>1
  <1> QED BY <1>1, <1>4, <1>5

\* A counter lives a whole number of ticks.
LEMMA LifeOK ==
  ASSUME Ai!ConstantsAssumption, Ai!TypeOK
  PROVE  Ai!SecondsLeft \in Nat
  <1> DEFINE x == SecondLength * ((DayLength - (clock % DayLength)) \div SecondLength)
  <1>1. x \in Int /\ Minute \in Nat
    <2>1. clock \in Nat
      BY AiBounds DEF Ai!TypeOK
    <2>2. clock % DayLength \in Int
      BY <2>1, AiBounds
    <2>3. (DayLength - (clock % DayLength)) \div SecondLength \in Int
      BY <2>2, AiBounds
    <2> QED BY <2>3, AiBounds
  <1>2. \E y \in {Minute, x} : \A z \in {Minute, x} : y >= z
    <2> HIDE DEF x
    <2> QED BY <1>1
  <1>3. Ai!SecondsLeft = CHOOSE y \in {Minute, x} : \A z \in {Minute, x} : y >= z
    BY DEF Ai!SecondsLeft, Ai!Max
  <1>4. Ai!SecondsLeft \in {Minute, x} /\ Ai!SecondsLeft >= Minute
    <2> HIDE DEF x
    <2> QED BY <1>2, <1>3
  <1> HIDE DEF x
  <1> QED BY <1>1, <1>4

-----------------------------------------------------------------------------
(* Steps of a request to the model                                         *)

\* A step of one request that leaves the cache alone.
LEMMA OneAsks ==
  ASSUME AiInv, NEW q \in Askers, NEW s \in Ai!Request,
         asking' = [asking EXCEPT ![q] = s],
         clock' = clock, cache' = cache, paid' = paid,
         AskerOK(s), DueOK(s)
  PROVE  asking' \in [Askers -> Ai!Request] /\ AskersOK' /\ TextsOK'
  <1>1. asking \in [Askers -> Ai!Request]
    BY DEF AiInv, Ai!TypeOK
  <1>2. asking' \in [Askers -> Ai!Request]
    BY <1>1
  <1>3. \A r \in Askers : asking'[r] = IF r = q THEN s ELSE asking[r]
    BY <1>1
  <1>4. \A r \in Askers : AskerOK(asking'[r]) /\ DueOK(asking'[r])
    BY <1>3 DEF AiInv, AskersOK
  <1>5. AskersOK'
    BY <1>4 DEF AskersOK, AskerOK, DueOK, Unpaid
  <1>6. TextsOK'
    BY DEF AiInv, TextsOK, KeptOK, Unpaid
  <1> QED BY <1>2, <1>5, <1>6

\* What happened to the counters is not touched.
LEMMA CountsStay ==
  ASSUME AiInv, clock' = clock, used' = used, tally' = tally
  PROVE  CountsOK'
  BY DEF AiInv, CountsOK, CountOK, Ai!Days

LEMMA ResetIsOK ==
  ASSUME Ai!ConstantsAssumption, AiInv
  PROVE  /\ Ai!Idle \in Ai!Request /\ AskerOK(Ai!Idle)
         /\ DueOK(Ai!Idle) /\ Ai!Idle.pc = "idle" /\ Ai!Idle.text = NoText
         /\ 0 \in Ai!Days /\ clock \div DayLength \in Ai!Days
  <1>1. clock \in Nat /\ clock <= MaxClock
    BY AiBounds DEF AiInv, Ai!TypeOK
  <1>2. clock \div DayLength \in Ai!Days
    BY <1>1, AiBounds, DaysPass DEF Ai!Days
  <1>3. 0 \in Ai!Days
    BY <1>2, AiBounds, DaysPass DEF Ai!Days
  <1>4. Ai!Idle \in Ai!Request
    BY <1>3, AiBounds DEF Ai!Idle, Ai!Request
  <1> QED BY <1>2, <1>3, <1>4 DEF Ai!Idle, AskerOK, DueOK

LEMMA KindsHaveBuckets ==
  ASSUME Ai!ConstantsAssumption
  PROVE  \A k \in Ai!Kinds : Ai!BucketOf(k) # NoText => Ai!BucketOf(k) \in Ai!Buckets
  BY AiBounds DEF Ai!Kinds, Ai!BucketOf, Ai!Buckets

LEMMA EnterStep ==
  ASSUME Ai!ConstantsAssumption, AiInv, NEW q \in Askers, NEW k \in Asked, Ai!Enter(q, k)
  PROVE  AiInv'
  <1>1. k \in Ai!Kinds
    BY AiBounds
  <1>2. PICK s : s = IF Ai!BucketOf(k) = NoText
                     THEN [Ai!Idle EXCEPT !.pc = "calling", !.kind = k]
                     ELSE [Ai!Idle EXCEPT !.pc = "keyed", !.kind = k, !.plan = plan,
                                          !.day = clock \div DayLength, !.ttl = Ai!SecondsLeft]
    OBVIOUS
  <1>3. asking' = [asking EXCEPT ![q] = s]
    BY <1>2 DEF Ai!Enter
  <1>4. s \in Ai!Request /\ AskerOK(s) /\ DueOK(s)
    <2>1. Ai!SecondsLeft \in Nat /\ plan \in Plans
      BY LifeOK DEF AiInv, Ai!TypeOK
    <2>2. CASE Ai!BucketOf(k) = NoText
      <3>1. s = [Ai!Idle EXCEPT !.pc = "calling", !.kind = k]
        BY <1>2, <2>2
      <3>2. s \in Ai!Request
        BY <3>1, <1>1, ResetIsOK DEF Ai!Request
      <3>3. s.pc = "calling" /\ s.kind = k /\ s.text = NoText
        BY <3>1, ResetIsOK DEF Ai!Idle
      <3> QED BY <3>2, <3>3, <1>1 DEF AskerOK, DueOK
    <2>3. CASE Ai!BucketOf(k) # NoText
      <3>1. s = [Ai!Idle EXCEPT !.pc = "keyed", !.kind = k, !.plan = plan,
                                !.day = clock \div DayLength, !.ttl = Ai!SecondsLeft]
        BY <1>2, <2>3
      <3>2. s \in Ai!Request
        BY <3>1, <2>1, <1>1, ResetIsOK DEF Ai!Request
      <3>3. s.pc = "keyed" /\ s.kind = k /\ s.text = NoText /\ s.day = clock \div DayLength
        BY <3>1, ResetIsOK DEF Ai!Idle
      <3>4. s.day <= clock \div DayLength
        BY <3>3, ResetIsOK DEF Ai!Days
      <3> QED BY <3>2, <3>3, <3>4, <1>1, <2>3, KindsHaveBuckets DEF AskerOK, DueOK
    <2> QED BY <2>2, <2>3
  <1>5. clock' = clock /\ cache' = cache /\ used' = used /\ tally' = tally /\ paid' = paid
    BY DEF Ai!Enter
  <1>6. asking' \in [Askers -> Ai!Request] /\ AskersOK' /\ TextsOK'
    BY <1>3, <1>4, <1>5, OneAsks
  <1>7. Ai!TypeOK'
    BY <1>5, <1>6, AiBounds DEF AiInv, Ai!TypeOK, Ai!Enter
  <1> QED BY <1>5, <1>6, <1>7, CountsStay DEF AiInv

\* Having passed the quota, counted or not.
LEMMA AdmitIsOK ==
  ASSUME Ai!ConstantsAssumption, AiInv, NEW q \in Askers, Ai!At(q, "keyed")
  PROVE  \E s \in Ai!Request : Ai!Admit(q) = [asking EXCEPT ![q] = s]
                               /\ AskerOK(s) /\ DueOK(s) /\ s.pc # "idle"
  <1>1. asking[q] \in Ai!Request /\ AskerOK(asking[q]) /\ asking[q].pc = "keyed"
    BY DEF AiInv, AskersOK, Ai!TypeOK, Ai!At
  <1>2. asking[q].kind \in Ai!Kinds
    BY <1>1 DEF AskerOK
  <1>3. PICK to \in {"answered", "calling"} :
          to = IF asking[q].kind = "export" THEN "answered" ELSE "calling"
    OBVIOUS
  <1>4. PICK s : s = [Ai!Idle EXCEPT !.kind = asking[q].kind, !.pc = to]
    OBVIOUS
  <1>5. Ai!Admit(q) = [asking EXCEPT ![q] = s]
    BY <1>3, <1>4 DEF Ai!Admit
  <1>6. s \in Ai!Request
    BY <1>2, <1>4, ResetIsOK DEF Ai!Request
  <1>7. s.pc = to /\ s.kind = asking[q].kind
    BY <1>4, ResetIsOK DEF Ai!Idle
  <1> QED BY <1>2, <1>5, <1>6, <1>7 DEF AskerOK, DueOK

\* A request is counted: what the counter of a day and its history may become.
CounterRaised(b, d, e, t) ==
    /\ e \in [n: Nat, expires: Nat \cup {NoText}] /\ e.n = used[b][d].n + 1
    /\ t \in [spent: Nat, turned: SUBSET Nat, lapsed: BOOLEAN]
    /\ ~t.lapsed /\ d >= clock \div DayLength => t.spent <= e.n
    /\ e.n > t.spent => \E c \in t.turned : c <= t.spent

LEMMA CounterMoves ==
  ASSUME Ai!ConstantsAssumption, AiInv, clock' = clock,
         NEW b \in Ai!Buckets, NEW d \in Ai!Days, d <= clock \div DayLength,
         NEW e, NEW t, CounterRaised(b, d, e, t),
         used' = [used EXCEPT ![b][d] = e], tally' = [tally EXCEPT ![b][d] = t]
  PROVE  /\ used' \in [Ai!Buckets -> [Ai!Days -> [n: Nat, expires: Nat \cup {NoText}]]]
         /\ tally' \in [Ai!Buckets -> [Ai!Days ->
                          [spent: Nat, turned: SUBSET Nat, lapsed: BOOLEAN]]]
         /\ CountsOK'
  <1>1. /\ used \in [Ai!Buckets -> [Ai!Days -> [n: Nat, expires: Nat \cup {NoText}]]]
        /\ tally \in [Ai!Buckets -> [Ai!Days ->
                        [spent: Nat, turned: SUBSET Nat, lapsed: BOOLEAN]]]
        /\ clock \in Nat
        /\ e \in [n: Nat, expires: Nat \cup {NoText}]
        /\ t \in [spent: Nat, turned: SUBSET Nat, lapsed: BOOLEAN]
    BY AiBounds DEF AiInv, Ai!TypeOK, CounterRaised
  <1>2. ASSUME NEW x \in Ai!Buckets, NEW y \in Ai!Days PROVE CountOK(x, y)'
    <2>1. CASE x = b /\ y = d
      <3>1. used'[x][y] = e /\ tally'[x][y] = t
        BY <1>1, <2>1
      <3>2. ~(y > clock' \div DayLength)
        <4>1. PICK k : k = clock \div DayLength
          OBVIOUS
        <4>2. k \in Nat
          BY <1>1, <4>1, DaysPass, AiBounds
        <4>3. y \in Nat /\ y <= k
          BY <2>1, <4>1 DEF Ai!Days
        <4>4. ~(y > k)
          BY <4>2, <4>3
        <4> QED BY <4>1, <4>4
      <3>3. ~t.lapsed /\ y >= clock' \div DayLength => t.spent <= e.n
        BY <2>1 DEF CounterRaised
      <3> QED BY <3>1, <3>2, <3>3 DEF CountOK, CounterRaised
    <2>2. CASE ~(x = b /\ y = d)
      <3>1. used'[x][y] = used[x][y] /\ tally'[x][y] = tally[x][y]
        BY <1>1, <2>2
      <3>2. CountOK(x, y)
        BY DEF AiInv, CountsOK
      <3> QED BY <3>1, <3>2 DEF CountOK
    <2> QED BY <2>1, <2>2
  <1>3. CountsOK'
    BY <1>2 DEF CountsOK, Ai!Days
  <1> QED BY <1>1, <1>3

\* The counter a request is about to raise.
LEMMA CounterIsOK ==
  ASSUME Ai!ConstantsAssumption, AiInv, NEW q \in Askers, Ai!At(q, "keyed"),
         NEW b, NEW d, NEW cap, b = Ai!BucketOf(asking[q].kind), d = asking[q].day,
         cap = Cap[b][asking[q].plan]
  PROVE  /\ b \in Ai!Buckets /\ d \in Ai!Days /\ d <= clock \div DayLength /\ cap \in Nat
         /\ [n |-> used[b][d].n + 1, expires |-> clock + asking[q].ttl]
              \in [n: Nat, expires: Nat \cup {NoText}]
         /\ used[b][d].n \in Nat /\ CountOK(b, d)
         /\ tally[b][d] \in [spent: Nat, turned: SUBSET Nat, lapsed: BOOLEAN]
  <1>1. asking[q] \in Ai!Request /\ AskerOK(asking[q]) /\ asking[q].pc = "keyed"
    BY DEF AiInv, AskersOK, Ai!TypeOK, Ai!At
  <1>2. b \in Ai!Buckets /\ d \in Ai!Days /\ d <= clock \div DayLength /\ cap \in Nat
    BY <1>1, AiBounds DEF AskerOK, Ai!Request
  <1>3. /\ used \in [Ai!Buckets -> [Ai!Days -> [n: Nat, expires: Nat \cup {NoText}]]]
        /\ tally \in [Ai!Buckets -> [Ai!Days ->
                        [spent: Nat, turned: SUBSET Nat, lapsed: BOOLEAN]]]
        /\ clock \in Nat /\ asking[q].ttl \in Nat
    BY <1>1, AiBounds DEF AiInv, Ai!TypeOK, Ai!Request
  <1>4. used[b][d].n \in Nat /\ CountOK(b, d)
    BY <1>2, <1>3 DEF AiInv, CountsOK
  <1> QED BY <1>2, <1>3, <1>4

LEMMA SpentMore ==
  ASSUME NEW o \in [spent: Nat, turned: SUBSET Nat, lapsed: BOOLEAN],
         NEW t, t = [o EXCEPT !.spent = @ + 1]
  PROVE  /\ t \in [spent: Nat, turned: SUBSET Nat, lapsed: BOOLEAN]
         /\ t.spent = o.spent + 1 /\ t.lapsed = o.lapsed /\ t.turned = o.turned
  OBVIOUS

\* A request is counted and admitted.
LEMMA AdmittedMoves ==
  ASSUME Ai!ConstantsAssumption, AiInv, clock' = clock, NEW q \in Askers, Ai!At(q, "keyed"),
         NEW b, NEW d, b = Ai!BucketOf(asking[q].kind), d = asking[q].day,
         used' = [used EXCEPT ![b][d] =
                    [n |-> used[b][d].n + 1, expires |-> clock + asking[q].ttl]],
         tally' = [tally EXCEPT ![b][d].spent = @ + 1]
  PROVE  /\ used' \in [Ai!Buckets -> [Ai!Days -> [n: Nat, expires: Nat \cup {NoText}]]]
         /\ tally' \in [Ai!Buckets -> [Ai!Days ->
                          [spent: Nat, turned: SUBSET Nat, lapsed: BOOLEAN]]]
         /\ CountsOK'
  <1>1. PICK e : e = [n |-> used[b][d].n + 1, expires |-> clock + asking[q].ttl]
    OBVIOUS
  <1>2. /\ b \in Ai!Buckets /\ d \in Ai!Days /\ d <= clock \div DayLength
        /\ e \in [n: Nat, expires: Nat \cup {NoText}]
        /\ used[b][d].n \in Nat /\ CountOK(b, d)
        /\ tally[b][d] \in [spent: Nat, turned: SUBSET Nat, lapsed: BOOLEAN]
    BY <1>1, CounterIsOK
  <1>3. e.n = used[b][d].n + 1 /\ used' = [used EXCEPT ![b][d] = e]
    BY <1>1
  <1>4. PICK k \in Nat, m \in Nat : k = tally[b][d].spent /\ m = used[b][d].n
    BY <1>2
  <1>5. PICK t : t = [tally[b][d] EXCEPT !.spent = @ + 1]
    OBVIOUS
  <1>6. tally' = [tally EXCEPT ![b][d] = t]
    BY <1>2, <1>5 DEF AiInv, Ai!TypeOK
  <1>7. /\ t \in [spent: Nat, turned: SUBSET Nat, lapsed: BOOLEAN]
        /\ t.spent = k + 1 /\ t.lapsed = tally[b][d].lapsed /\ t.turned = tally[b][d].turned
    BY <1>2, <1>4, <1>5, SpentMore
  <1>11. e.n = m + 1
    BY <1>3, <1>4
  <1>12. t.spent = k + 1
    BY <1>7
  <1>8. ~t.lapsed /\ d >= clock \div DayLength => t.spent <= e.n
    <2>1. ~t.lapsed /\ d >= clock \div DayLength => k <= m
      BY <1>2, <1>4, <1>7 DEF CountOK
    <2> QED BY <2>1, <1>11, <1>12
  <1>9. e.n > t.spent => \E c \in t.turned : c <= t.spent
    <2>1. SUFFICES ASSUME e.n > t.spent PROVE \E c \in t.turned : c <= t.spent
      OBVIOUS
    <2>2. m > k
      BY <1>11, <1>12, <2>1
    <2>3. PICK c \in tally[b][d].turned : c <= k
      BY <1>2, <1>4, <2>2 DEF CountOK
    <2>4. c \in Nat
      BY <1>2, <2>3
    <2>5. c <= k + 1
      BY <2>3, <2>4
    <2>6. c \in t.turned /\ c <= t.spent
      BY <1>7, <2>3, <2>5
    <2> QED BY <2>6
  <1>10. CounterRaised(b, d, e, t)
    BY <1>2, <1>3, <1>7, <1>8, <1>9 DEF CounterRaised
  <1> QED BY <1>2, <1>3, <1>6, <1>10, CounterMoves

LEMMA CountStep ==
  ASSUME Ai!ConstantsAssumption, AiInv, NEW q \in Askers, Ai!Count(q)
  PROVE  AiInv'
  <1>1. PICK b, d, cap : /\ b = Ai!BucketOf(asking[q].kind) /\ d = asking[q].day
                         /\ cap = Cap[b][asking[q].plan]
    OBVIOUS
  <1>2. Ai!At(q, "keyed")
    BY DEF Ai!Count
  <1>3. PICK e : e = [n |-> used[b][d].n + 1, expires |-> clock + asking[q].ttl]
    OBVIOUS
  <1>4. /\ b \in Ai!Buckets /\ d \in Ai!Days /\ d <= clock \div DayLength /\ cap \in Nat
        /\ e \in [n: Nat, expires: Nat \cup {NoText}]
        /\ used[b][d].n \in Nat /\ CountOK(b, d)
        /\ tally[b][d] \in [spent: Nat, turned: SUBSET Nat, lapsed: BOOLEAN]
    BY <1>1, <1>2, <1>3, CounterIsOK
  <1>5. e.n = used[b][d].n + 1 /\ used' = [used EXCEPT ![b][d] = e]
    BY <1>1, <1>3 DEF Ai!Count
  <1>6. clock' = clock /\ cache' = cache /\ plan' = plan /\ started' = started
        /\ changes' = changes /\ lost' = lost /\ paid' = paid
    BY DEF Ai!Count
  <1>7. /\ used' \in [Ai!Buckets -> [Ai!Days -> [n: Nat, expires: Nat \cup {NoText}]]]
        /\ tally' \in [Ai!Buckets -> [Ai!Days ->
                         [spent: Nat, turned: SUBSET Nat, lapsed: BOOLEAN]]]
        /\ CountsOK'
        /\ asking' \in [Askers -> Ai!Request] /\ AskersOK' /\ TextsOK'
    <2>1. CASE Ai!Exceeded(e.n, cap)
      <3>1. PICK t : t = [tally[b][d] EXCEPT !.turned = @ \cup {cap}]
        OBVIOUS
      <3>2. tally' = [tally EXCEPT ![b][d] = t]
        <4>1. tally' = [tally EXCEPT ![b][d].turned = @ \cup {cap}]
          BY <1>1, <1>5, <2>1 DEF Ai!Count
        <4> QED BY <4>1, <3>1, <1>4 DEF AiInv, Ai!TypeOK
      <3>3. /\ t \in [spent: Nat, turned: SUBSET Nat, lapsed: BOOLEAN]
            /\ t.spent = tally[b][d].spent /\ t.lapsed = tally[b][d].lapsed
            /\ t.turned = tally[b][d].turned \cup {cap}
        BY <3>1, <1>4
      <3>4. PICK k \in Nat, m \in Nat : k = t.spent /\ m = used[b][d].n
        BY <1>4, <3>3
      <3>5. ~t.lapsed /\ d >= clock \div DayLength => t.spent <= e.n
        <4>1. ~t.lapsed /\ d >= clock \div DayLength => k <= m
          BY <1>4, <3>3, <3>4 DEF CountOK
        <4> QED BY <4>1, <1>5, <3>4
      <3>6. e.n > t.spent => \E c \in t.turned : c <= t.spent
        <4>1. CASE m > k
          BY <4>1, <1>4, <3>3, <3>4 DEF CountOK
        <4>2. CASE ~(m > k)
          <5>1. e.n > cap
            BY <2>1 DEF Ai!Exceeded
          <5>2. cap <= k
            BY <4>2, <5>1, <1>4, <1>5, <3>4
          <5> QED BY <5>2, <3>3, <3>4
        <4> QED BY <4>1, <4>2
      <3>7. asking' = [asking EXCEPT ![q] = Ai!Idle]
        BY <1>1, <1>5, <2>1 DEF Ai!Count
      <3>8. asking' \in [Askers -> Ai!Request] /\ AskersOK' /\ TextsOK'
        BY <3>7, <1>6, ResetIsOK, OneAsks
      <3>9. CounterRaised(b, d, e, t)
        BY <1>4, <1>5, <3>3, <3>5, <3>6 DEF CounterRaised
      <3> QED BY <1>4, <1>5, <1>6, <3>2, <3>8, <3>9, CounterMoves
    <2>2. CASE ~Ai!Exceeded(e.n, cap)
      <3>1. tally' = [tally EXCEPT ![b][d].spent = @ + 1] /\ asking' = Ai!Admit(q)
        BY <1>1, <1>5, <2>2 DEF Ai!Count
      <3>2. PICK s \in Ai!Request : asking' = [asking EXCEPT ![q] = s]
                                    /\ AskerOK(s) /\ DueOK(s)
        BY <1>2, <3>1, AdmitIsOK
      <3>3. asking' \in [Askers -> Ai!Request] /\ AskersOK' /\ TextsOK'
        BY <3>2, <1>6, OneAsks
      <3> QED BY <1>1, <1>2, <1>3, <1>5, <1>6, <3>1, <3>3, AdmittedMoves
    <2> QED BY <2>1, <2>2
  <1>8. Ai!TypeOK'
    BY <1>6, <1>7 DEF AiInv, Ai!TypeOK
  <1> QED BY <1>7, <1>8 DEF AiInv

LEMMA CountFailsStep ==
  ASSUME Ai!ConstantsAssumption, AiInv, NEW q \in Askers, Ai!CountFails(q)
  PROVE  AiInv'
  <1>1. Ai!At(q, "keyed") /\ clock' = clock /\ cache' = cache /\ paid' = paid
        /\ plan' = plan /\ started' = started /\ changes' = changes
    BY DEF Ai!CountFails
  <1>2. PICK s \in Ai!Request : asking' = [asking EXCEPT ![q] = s] /\ AskerOK(s) /\ DueOK(s)
    BY AdmitIsOK DEF Ai!CountFails
  <1>3. asking' \in [Askers -> Ai!Request] /\ AskersOK' /\ TextsOK'
    BY <1>1, <1>2, OneAsks
  <1>4. /\ used' \in [Ai!Buckets -> [Ai!Days -> [n: Nat, expires: Nat \cup {NoText}]]]
        /\ tally' \in [Ai!Buckets -> [Ai!Days ->
                         [spent: Nat, turned: SUBSET Nat, lapsed: BOOLEAN]]]
        /\ CountsOK'
    <2>1. CASE UNCHANGED <<used, tally>>
      BY <1>1, <2>1, CountsStay DEF AiInv, Ai!TypeOK
    <2>2. CASE ~UNCHANGED <<used, tally>>
      <3>1. PICK b, d : b = Ai!BucketOf(asking[q].kind) /\ d = asking[q].day
        OBVIOUS
      <3>2. /\ used' = [used EXCEPT ![b][d] =
                          [n |-> used[b][d].n + 1, expires |-> clock + asking[q].ttl]]
            /\ tally' = [tally EXCEPT ![b][d].spent = @ + 1]
        BY <2>2, <3>1, <1>1, CounterIsOK DEF Ai!CountFails, AiInv, Ai!TypeOK
      <3> QED BY <1>1, <3>1, <3>2, AdmittedMoves
    <2> QED BY <2>1, <2>2
  <1>5. lost' \in 0..MaxLost
    BY AiBounds DEF AiInv, Ai!TypeOK, Ai!CountFails, Ai!Unreachable
  <1>6. Ai!TypeOK'
    BY <1>1, <1>3, <1>4, <1>5 DEF AiInv, Ai!TypeOK
  <1> QED BY <1>3, <1>4, <1>6 DEF AiInv

\* The request is over.
LEMMA OverStep ==
  ASSUME Ai!ConstantsAssumption, AiInv, NEW q \in Askers,
         Ai!Unreadable(q) \/ Ai!Deliver(q) \/ Ai!Archive(q)
  PROVE  AiInv'
  <1>1. /\ asking' = [asking EXCEPT ![q] = Ai!Idle]
        /\ clock' = clock /\ cache' = cache /\ used' = used /\ tally' = tally
        /\ plan' = plan /\ started' = started /\ changes' = changes /\ lost' = lost
        /\ paid' = paid
    BY DEF Ai!Unreadable, Ai!Deliver, Ai!Archive
  <1>2. asking' \in [Askers -> Ai!Request] /\ AskersOK' /\ TextsOK'
    BY <1>1, ResetIsOK, OneAsks
  <1>3. Ai!TypeOK'
    BY <1>1, <1>2 DEF AiInv, Ai!TypeOK
  <1> QED BY <1>1, <1>2, <1>3, CountsStay DEF AiInv

LEMMA LookUpStep ==
  ASSUME Ai!ConstantsAssumption, AiInv, NEW q \in Askers, Ai!LookUp(q)
  PROVE  AiInv'
  <1>1. asking[q] \in Ai!Request /\ AskerOK(asking[q]) /\ asking[q].pc = "calling"
    BY DEF AiInv, AskersOK, Ai!TypeOK, Ai!At, Ai!LookUp
  <1>2. PICK k \in Ai!Kinds : k = asking[q].kind
    BY <1>1 DEF AskerOK
  <1>3. PICK s : s = [asking[q] EXCEPT
                        !.pc = IF Ai!Hit(k) THEN "answered" ELSE "asking",
                        !.text = IF Ai!Hit(k) THEN cache[k].text ELSE NoText,
                        !.blind = FALSE]
    OBVIOUS
  <1>4. asking' = [asking EXCEPT ![q] = s]
    BY <1>2, <1>3 DEF Ai!LookUp
  <1>5. s \in Ai!Request /\ AskerOK(s) /\ DueOK(s)
    <2>1. CASE Ai!Hit(k)
      <3>1. cache[k] \in [text: Ai!Texts \ {"empty"}, expires: Nat]
        BY <2>1 DEF Ai!Hit, AiInv, Ai!TypeOK
      <3>2. PICK t \in Ai!Texts : t = cache[k].text
        BY <3>1
      <3>3. s = [asking[q] EXCEPT !.pc = "answered", !.text = t, !.blind = FALSE]
        BY <1>3, <2>1, <3>2
      <3>4. s \in Ai!Request /\ s.pc = "answered" /\ s.kind = k
        BY <1>1, <1>2, <3>3 DEF Ai!Request
      <3> QED BY <3>4 DEF AskerOK, DueOK
    <2>2. CASE ~Ai!Hit(k)
      <3>1. s = [asking[q] EXCEPT !.pc = "asking", !.text = NoText, !.blind = FALSE]
        BY <1>3, <2>2
      <3>2. s \in Ai!Request /\ s.pc = "asking" /\ s.kind = k
        BY <1>1, <1>2, <3>1 DEF Ai!Request
      <3>3. KeptOK(k)
        BY DEF AiInv, TextsOK
      <3>4. Ai!Cached(k) => Unpaid(k)
        BY <2>2, <3>3 DEF KeptOK, Ai!Hit
      <3> QED BY <3>2, <3>4 DEF AskerOK, DueOK
    <2> QED BY <2>1, <2>2
  <1>6. clock' = clock /\ cache' = cache /\ used' = used /\ tally' = tally /\ paid' = paid
        /\ plan' = plan /\ started' = started /\ changes' = changes /\ lost' = lost
    BY DEF Ai!LookUp
  <1>7. asking' \in [Askers -> Ai!Request] /\ AskersOK' /\ TextsOK'
    BY <1>4, <1>5, <1>6, OneAsks
  <1>8. Ai!TypeOK'
    BY <1>6, <1>7 DEF AiInv, Ai!TypeOK
  <1> QED BY <1>6, <1>7, <1>8, CountsStay DEF AiInv

LEMMA LookUpFailsStep ==
  ASSUME Ai!ConstantsAssumption, AiInv, NEW q \in Askers, Ai!LookUpFails(q)
  PROVE  AiInv'
  <1>1. asking[q] \in Ai!Request /\ AskerOK(asking[q]) /\ asking[q].pc = "calling"
    BY DEF AiInv, AskersOK, Ai!TypeOK, Ai!At, Ai!LookUpFails
  <1>2. PICK s : s = [asking[q] EXCEPT !.pc = "asking", !.text = NoText, !.blind = TRUE]
    OBVIOUS
  <1>3. asking' = [asking EXCEPT ![q] = s]
    BY <1>2 DEF Ai!LookUpFails
  <1>4. s \in Ai!Request /\ s.pc = "asking" /\ s.kind = asking[q].kind /\ s.blind
    BY <1>1, <1>2 DEF Ai!Request
  <1>5. AskerOK(s) /\ DueOK(s)
    BY <1>1, <1>4 DEF AskerOK, DueOK
  <1>6. clock' = clock /\ cache' = cache /\ used' = used /\ tally' = tally /\ paid' = paid
        /\ plan' = plan /\ started' = started /\ changes' = changes
    BY DEF Ai!LookUpFails
  <1>7. asking' \in [Askers -> Ai!Request] /\ AskersOK' /\ TextsOK'
    BY <1>3, <1>4, <1>5, <1>6, OneAsks
  <1>8. Ai!TypeOK'
    BY <1>6, <1>7, AiBounds DEF AiInv, Ai!TypeOK, Ai!LookUpFails, Ai!Unreachable
  <1> QED BY <1>6, <1>7, <1>8, CountsStay DEF AiInv

\* What the requests are once one of them has its answer.
LEMMA AnsweredIsOK ==
  ASSUME Ai!ConstantsAssumption, AiInv, NEW q \in Askers, Ai!At(q, "asking"),
         NEW t \in Ai!Texts, asking' = Ai!Answered(q, t), clock' = clock
  PROVE  /\ asking' \in [Askers -> Ai!Request]
         /\ \A r \in Askers : AskerOK(asking[r])'
         /\ \A r \in Askers : asking'[r].pc = "asking" => r # q /\ asking[r].pc = "asking"
         /\ \A r \in Askers : asking'[r].pc = "asking" =>
              /\ asking'[r].kind = asking[r].kind
              /\ ~asking'[r].blind =>
                   ~asking[r].blind /\ (asking[r].kind = asking[q].kind => t = "empty")
  <1>1. asking \in [Askers -> Ai!Request] /\ asking[q].pc = "asking"
    BY DEF AiInv, Ai!TypeOK, Ai!At
  <1>2. PICK s : s = [asking[q] EXCEPT !.pc = "answered", !.text = t, !.provider = 1]
    OBVIOUS
  <1>3. s \in Ai!Request /\ s.pc = "answered" /\ s.kind = asking[q].kind
    <2>1. 1 \in 1..Providers
      BY AiBounds
    <2> QED BY <1>1, <1>2, <2>1 DEF Ai!Request
  <1>4. /\ DOMAIN asking' = Askers /\ asking' = [r \in Askers |-> asking'[r]]
        /\ asking'[q] = s
        /\ \A r \in Askers : r # q =>
             asking'[r] = IF /\ t \notin {NoText, "empty"}
                             /\ Ai!At(r, "asking") /\ asking[r].kind = asking[q].kind
                          THEN [asking[r] EXCEPT !.blind = TRUE] ELSE asking[r]
    BY <1>2 DEF Ai!Answered
  <1>5. t # NoText
    BY AiBounds
  <1>6. ASSUME NEW r \in Askers
        PROVE  /\ asking'[r] \in Ai!Request /\ AskerOK(asking[r])'
               /\ asking'[r].pc = "asking" =>
                    /\ r # q /\ asking[r].pc = "asking" /\ asking'[r].kind = asking[r].kind
                    /\ ~asking'[r].blind =>
                         ~asking[r].blind /\ (asking[r].kind = asking[q].kind => t = "empty")
    <2>1. AskerOK(asking[r]) /\ asking[r] \in Ai!Request
      BY <1>1 DEF AiInv, AskersOK
    <2>2. CASE r = q
      BY <1>1, <1>3, <1>4, <2>1, <2>2 DEF AskerOK
    <2>3. CASE r # q
      <3>1. CASE t # "empty" /\ asking[r].pc = "asking" /\ asking[r].kind = asking[q].kind
        <4>1. asking'[r] = [asking[r] EXCEPT !.blind = TRUE]
          BY <1>4, <1>5, <2>3, <3>1 DEF Ai!At
        <4>2. asking'[r] \in Ai!Request /\ asking'[r].blind
              /\ asking'[r].pc = "asking" /\ asking'[r].kind = asking[r].kind
          BY <2>1, <3>1, <4>1 DEF Ai!Request
        <4> QED BY <2>1, <2>3, <3>1, <4>2 DEF AskerOK
      <3>2. CASE ~(t # "empty" /\ asking[r].pc = "asking" /\ asking[r].kind = asking[q].kind)
        <4>1. asking'[r] = asking[r]
          BY <1>4, <2>3, <3>2 DEF Ai!At
        <4> QED BY <2>1, <2>3, <3>2, <4>1 DEF AskerOK
      <3> QED BY <3>1, <3>2
    <2> QED BY <2>2, <2>3
  <1> QED BY <1>4, <1>6

\* What an entry of the cache is.
LEMMA EntryIsOK ==
  ASSUME Ai!ConstantsAssumption, AiInv, NEW k, NEW t \in Ai!Texts, Ai!Stores(k, t)
  PROVE  /\ Ai!Entry(t) \in [text: Ai!Texts \ {"empty"}, expires: Nat]
         /\ Ai!Entry(t) # NoText /\ Ai!Entry(t).expires = clock + CacheLife
  <1>1. clock \in Nat /\ CacheLife \in Nat /\ t # "empty"
    BY AiBounds DEF AiInv, Ai!TypeOK, Ai!Stores, Ai!Cacheable
  <1>2. Ai!Entry(t) \in [text: Ai!Texts \ {"empty"}, expires: Nat]
    BY <1>1 DEF Ai!Entry
  <1>3. Ai!Entry(t) \in [text: Ai!Texts, expires: Nat]
    BY <1>2
  <1> QED BY <1>2, <1>3, AiBounds DEF Ai!Entry

LEMMA AskStep ==
  ASSUME Ai!ConstantsAssumption, AiInv, NEW q \in Askers, NEW t \in Ai!Texts, Ai!Ask(q, t)
  PROVE  AiInv'
  <1>1. PICK k : k = asking[q].kind
    OBVIOUS
  <1>2. /\ Ai!At(q, "asking") /\ asking' = Ai!Answered(q, t)
        /\ clock' = clock /\ used' = used /\ tally' = tally
        /\ plan' = plan /\ started' = started /\ changes' = changes /\ lost' = lost
    BY DEF Ai!Ask
  <1>3. k \in Ai!Kinds
    BY <1>1, <1>2 DEF AiInv, AskersOK, AskerOK, Ai!At
  <1>4. clock \in Nat /\ CacheLife \in Nat
        /\ paid \in [Ai!Kinds -> Nat \cup {NoText}]
        /\ cache \in [Ai!Kinds -> [text: Ai!Texts \ {"empty"}, expires: Nat] \cup {NoText}]
    BY AiBounds DEF AiInv, Ai!TypeOK
  <1>5. /\ paid' \in [Ai!Kinds -> Nat \cup {NoText}]
        /\ \A x \in Ai!Kinds : x # k \/ t = "empty" => paid'[x] = paid[x]
        /\ t # "empty" => paid'[k] = clock
    <2>1. CASE t # "empty"
      <3>1. paid' = [paid EXCEPT ![k] = clock]
        BY <1>1, <2>1 DEF Ai!Ask
      <3> QED BY <3>1, <2>1, <1>3, <1>4
    <2>2. CASE t = "empty"
      <3>1. paid' = paid
        BY <2>2 DEF Ai!Ask
      <3> QED BY <3>1, <2>2, <1>4
    <2> QED BY <2>1, <2>2
  <1>6. /\ cache' \in [Ai!Kinds -> [text: Ai!Texts \ {"empty"}, expires: Nat] \cup {NoText}]
        /\ \A x \in Ai!Kinds : x # k \/ t = "empty" => cache'[x] = cache[x]
        /\ t # "empty" /\ Ai!Cached(k)
             => cache'[k] # NoText /\ cache'[k].expires = clock + CacheLife
    <2>1. CASE Ai!Stores(k, t)
      <3>1. PICK e \in [text: Ai!Texts \ {"empty"}, expires: Nat] :
               e = Ai!Entry(t) /\ e # NoText /\ e.expires = clock + CacheLife
        BY <2>1, EntryIsOK
      <3>2. cache' = [cache EXCEPT ![k] = e]
        BY <1>1, <2>1, <3>1 DEF Ai!Ask
      <3>3. t # "empty"
        BY <2>1 DEF Ai!Stores, Ai!Cacheable
      <3> QED BY <3>1, <3>2, <3>3, <1>3, <1>4
    <2>2. CASE ~Ai!Stores(k, t)
      <3>1. cache' = cache
        BY <1>1, <2>2 DEF Ai!Ask
      <3> QED BY <3>1, <1>4, <2>2 DEF Ai!Stores, Ai!Cacheable
    <2> QED BY <2>1, <2>2
  <1>7. ASSUME NEW x \in Ai!Kinds PROVE KeptOK(x)'
    <2>1. CASE x # k \/ t = "empty"
      <3>1. cache'[x] = cache[x] /\ paid'[x] = paid[x] /\ KeptOK(x)
        BY <1>5, <1>6, <2>1 DEF AiInv, TextsOK
      <3> QED BY <3>1, <1>2 DEF KeptOK, Unpaid, Ai!Cached
    <2>2. CASE x = k /\ t # "empty"
      <3>1. Ai!Cached(k) => cache'[x] # NoText /\ cache'[x].expires >= paid'[x] + CacheLife
        BY <1>4, <1>5, <1>6, <2>2
      <3>2. paid'[x] <= clock'
        BY <1>2, <1>4, <1>5, <2>2
      <3> QED BY <3>1, <3>2, <2>2 DEF KeptOK, Ai!Cached
    <2> QED BY <2>1, <2>2
  <1>8. ASSUME NEW r \in Askers PROVE DueOK(asking[r])'
    <2>1. SUFFICES ASSUME asking'[r].pc = "asking", ~asking'[r].blind,
                          Ai!Cached(asking'[r].kind)
                   PROVE  Unpaid(asking[r].kind)'
      BY DEF DueOK, Ai!Cached
    <2>2. /\ asking[r].pc = "asking" /\ ~asking[r].blind /\ asking'[r].kind = asking[r].kind
          /\ asking[r].kind = k => t = "empty"
      BY <1>1, <1>2, <2>1, AnsweredIsOK
    <2>3. DueOK(asking[r]) /\ asking[r].kind \in Ai!Kinds
      BY <2>2 DEF AiInv, AskersOK, AskerOK
    <2>4. Unpaid(asking[r].kind) /\ paid'[asking[r].kind] = paid[asking[r].kind]
      BY <1>5, <2>1, <2>2, <2>3 DEF DueOK
    <2> QED BY <1>2, <2>2, <2>4 DEF Unpaid
  <1>9. asking' \in [Askers -> Ai!Request] /\ AskersOK' /\ TextsOK'
    <2>1. asking' \in [Askers -> Ai!Request] /\ \A r \in Askers : AskerOK(asking[r])'
      BY <1>2, AnsweredIsOK
    <2> QED BY <2>1, <1>7, <1>8 DEF AskersOK, TextsOK
  <1>10. Ai!TypeOK'
    BY <1>2, <1>5, <1>6, <1>9 DEF AiInv, Ai!TypeOK
  <1> QED BY <1>2, <1>9, <1>10, CountsStay DEF AiInv

LEMMA StoreFailsStep ==
  ASSUME Ai!ConstantsAssumption, AiInv, NEW q \in Askers, NEW t \in Ai!Texts,
         Ai!StoreFails(q, t)
  PROVE  AiInv'
  <1>1. PICK k : k = asking[q].kind
    OBVIOUS
  <1>2. /\ Ai!At(q, "asking") /\ asking' = Ai!Answered(q, t) /\ Ai!Stores(k, t)
        /\ clock' = clock /\ used' = used /\ tally' = tally /\ paid' = paid
        /\ plan' = plan /\ started' = started /\ changes' = changes
    BY <1>1 DEF Ai!StoreFails
  <1>3. k \in Ai!Kinds
    BY <1>1, <1>2 DEF AiInv, AskersOK, AskerOK, Ai!At
  <1>4. clock \in Nat /\ CacheLife \in Nat
        /\ paid \in [Ai!Kinds -> Nat \cup {NoText}]
        /\ cache \in [Ai!Kinds -> [text: Ai!Texts \ {"empty"}, expires: Nat] \cup {NoText}]
    BY AiBounds DEF AiInv, Ai!TypeOK
  <1>5. PICK e \in [text: Ai!Texts \ {"empty"}, expires: Nat] :
          e = Ai!Entry(t) /\ e # NoText /\ e.expires = clock + CacheLife
    BY <1>2, EntryIsOK
  <1>6. cache' = cache \/ cache' = [cache EXCEPT ![k] = e]
    BY <1>1, <1>5 DEF Ai!StoreFails
  <1>7. /\ cache' \in [Ai!Kinds -> [text: Ai!Texts \ {"empty"}, expires: Nat] \cup {NoText}]
        /\ \A x \in Ai!Kinds : cache'[x] = cache[x] \/ cache'[x] = e
    BY <1>4, <1>6
  <1>8. ASSUME NEW x \in Ai!Kinds PROVE KeptOK(x)'
    <2>1. KeptOK(x) /\ paid[x] \in Nat \cup {NoText}
      BY <1>4 DEF AiInv, TextsOK
    <2>2. CASE cache'[x] = cache[x]
      BY <1>2, <2>1, <2>2 DEF KeptOK, Unpaid, Ai!Cached
    <2>3. CASE cache'[x] = e
      <3>1. ~Unpaid(x) => clock + CacheLife >= paid[x] + CacheLife
        BY <1>4, <2>1 DEF Unpaid, KeptOK
      <3> QED BY <1>2, <1>5, <2>1, <2>3, <3>1 DEF KeptOK, Unpaid, Ai!Cached
    <2> QED BY <1>7, <2>2, <2>3
  <1>9. ASSUME NEW r \in Askers PROVE DueOK(asking[r])'
    <2>1. SUFFICES ASSUME asking'[r].pc = "asking", ~asking'[r].blind,
                          Ai!Cached(asking'[r].kind)
                   PROVE  Unpaid(asking[r].kind)'
      BY DEF DueOK, Ai!Cached
    <2>2. asking[r].pc = "asking" /\ ~asking[r].blind /\ asking'[r].kind = asking[r].kind
      BY <1>2, <2>1, AnsweredIsOK
    <2>3. Unpaid(asking[r].kind)
      BY <2>1, <2>2 DEF AiInv, AskersOK, DueOK
    <2> QED BY <1>2, <2>2, <2>3 DEF Unpaid
  <1>10. asking' \in [Askers -> Ai!Request] /\ AskersOK' /\ TextsOK'
    <2>1. asking' \in [Askers -> Ai!Request] /\ \A r \in Askers : AskerOK(asking[r])'
      BY <1>2, AnsweredIsOK
    <2> QED BY <2>1, <1>8, <1>9 DEF AskersOK, TextsOK
  <1>11. lost' \in 0..MaxLost
    BY AiBounds DEF AiInv, Ai!TypeOK, Ai!StoreFails, Ai!Unreachable
  <1>12. Ai!TypeOK'
    BY <1>2, <1>7, <1>10, <1>11 DEF AiInv, Ai!TypeOK
  <1> QED BY <1>2, <1>10, <1>12, CountsStay DEF AiInv

LEMMA ProviderFailsStep ==
  ASSUME Ai!ConstantsAssumption, AiInv, NEW q \in Askers, Ai!ProviderFails(q)
  PROVE  AiInv'
  <1>1. /\ asking[q] \in Ai!Request /\ AskerOK(asking[q]) /\ DueOK(asking[q])
        /\ asking[q].pc = "asking"
    BY DEF AiInv, AskersOK, Ai!TypeOK, Ai!At, Ai!ProviderFails
  <1>2. PICK s \in Ai!Request : /\ asking' = [asking EXCEPT ![q] = s]
                                /\ AskerOK(s) /\ DueOK(s)
    <2>1. CASE asking[q].provider < Providers
      <3>1. PICK s : s = [asking[q] EXCEPT !.provider = @ + 1]
        OBVIOUS
      <3>2. asking' = [asking EXCEPT ![q] = s]
        BY <2>1, <3>1 DEF Ai!ProviderFails
      <3>3. asking[q].provider + 1 \in 1..Providers
        BY <1>1, <2>1, AiBounds DEF Ai!Request
      <3>4. /\ s \in Ai!Request /\ s.pc = "asking" /\ s.kind = asking[q].kind
            /\ s.blind = asking[q].blind
        BY <1>1, <3>1, <3>3 DEF Ai!Request
      <3>5. AskerOK(s) /\ DueOK(s)
        BY <1>1, <3>4 DEF AskerOK, DueOK
      <3> QED BY <3>2, <3>4, <3>5
    <2>2. CASE ~(asking[q].provider < Providers)
      <3>1. PICK s : s = [asking[q] EXCEPT !.pc = "answered", !.text = NoText, !.provider = 1]
        OBVIOUS
      <3>2. asking' = [asking EXCEPT ![q] = s]
        BY <2>2, <3>1 DEF Ai!ProviderFails
      <3>3. 1 \in 1..Providers
        BY AiBounds
      <3>4. s \in Ai!Request /\ s.pc = "answered" /\ s.kind = asking[q].kind
        BY <1>1, <3>1, <3>3 DEF Ai!Request
      <3>5. AskerOK(s) /\ DueOK(s)
        BY <1>1, <3>4 DEF AskerOK, DueOK
      <3> QED BY <3>2, <3>4, <3>5
    <2> QED BY <2>1, <2>2
  <1>3. clock' = clock /\ cache' = cache /\ used' = used /\ tally' = tally /\ paid' = paid
        /\ plan' = plan /\ started' = started /\ changes' = changes /\ lost' = lost
    BY DEF Ai!ProviderFails
  <1>4. asking' \in [Askers -> Ai!Request] /\ AskersOK' /\ TextsOK'
    BY <1>2, <1>3, OneAsks
  <1>5. Ai!TypeOK'
    BY <1>3, <1>4 DEF AiInv, Ai!TypeOK
  <1> QED BY <1>3, <1>4, <1>5, CountsStay DEF AiInv

LEMMA AgainStep ==
  ASSUME Ai!ConstantsAssumption, AiInv, NEW q \in Askers, Ai!Again(q)
  PROVE  AiInv'
  <1>1. /\ asking[q] \in Ai!Request /\ AskerOK(asking[q])
        /\ asking[q].pc = "answered" /\ asking[q].kind = "parse"
        /\ asking[q].attempt < Attempts
    BY DEF AiInv, AskersOK, Ai!TypeOK, Ai!At, Ai!Again
  <1>2. PICK s : s = [asking[q] EXCEPT !.pc = "calling", !.attempt = @ + 1]
    OBVIOUS
  <1>3. asking' = [asking EXCEPT ![q] = s]
    <2>1. asking' = [asking EXCEPT ![q].pc = "calling", ![q].attempt = @ + 1]
      BY DEF Ai!Again
    <2>2. asking \in [Askers -> Ai!Request]
      BY DEF AiInv, Ai!TypeOK
    <2> QED BY <1>1, <1>2, <2>1, <2>2 DEF Ai!Request
  <1>4. asking[q].attempt + 1 \in 1..Attempts
    BY <1>1, AiBounds DEF Ai!Request
  <1>5. s \in Ai!Request /\ s.pc = "calling" /\ s.kind = "parse"
    BY <1>1, <1>2, <1>4 DEF Ai!Request
  <1>6. AskerOK(s) /\ DueOK(s)
    BY <1>5 DEF AskerOK, DueOK, Ai!Kinds
  <1>7. clock' = clock /\ cache' = cache /\ used' = used /\ tally' = tally /\ paid' = paid
        /\ plan' = plan /\ started' = started /\ changes' = changes /\ lost' = lost
    BY DEF Ai!Again
  <1>8. asking' \in [Askers -> Ai!Request] /\ AskersOK' /\ TextsOK'
    BY <1>3, <1>5, <1>6, <1>7, OneAsks
  <1>9. Ai!TypeOK'
    BY <1>7, <1>8 DEF AiInv, Ai!TypeOK
  <1> QED BY <1>7, <1>8, <1>9, CountsStay DEF AiInv

LEMMA ChangePlanStep ==
  ASSUME Ai!ConstantsAssumption, AiInv, Ai!ChangePlan
  PROVE  AiInv'
  <1>1. UNCHANGED <<clock, used, cache, asking, started, lost, tally, paid>>
    BY DEF Ai!ChangePlan
  <1>2. Ai!TypeOK'
    BY <1>1, AiBounds DEF AiInv, Ai!TypeOK, Ai!ChangePlan
  <1>3. AskersOK' /\ TextsOK'
    BY <1>1 DEF AiInv, AskersOK, AskerOK, DueOK, TextsOK, KeptOK, Unpaid, Ai!Cached
  <1> QED BY <1>1, <1>2, <1>3, CountsStay DEF AiInv

LEMMA ClockTurns ==
  ASSUME Ai!ConstantsAssumption, AiInv, Ai!Tick
  PROVE  AiInv'
  <1> DEFINE Over(e) == e # NoText /\ e.expires = clock + 1
  <1>1. /\ clock \in Nat /\ clock' = clock + 1 /\ clock' \in 0..MaxClock
        /\ plan' = plan /\ started' = started /\ changes' = changes /\ lost' = lost
        /\ asking' = asking /\ paid' = paid
    BY AiBounds DEF AiInv, Ai!TypeOK, Ai!Tick
  <1>2. /\ used \in [Ai!Buckets -> [Ai!Days -> [n: Nat, expires: Nat \cup {NoText}]]]
        /\ tally \in [Ai!Buckets -> [Ai!Days ->
                        [spent: Nat, turned: SUBSET Nat, lapsed: BOOLEAN]]]
        /\ cache \in [Ai!Kinds -> [text: Ai!Texts \ {"empty"}, expires: Nat] \cup {NoText}]
        /\ asking \in [Askers -> Ai!Request]
    BY DEF AiInv, Ai!TypeOK
  <1>3. /\ used' = [b \in Ai!Buckets |-> [d \in Ai!Days |->
                      IF Over(used[b][d]) THEN Ai!NoCount ELSE used[b][d]]]
        /\ cache' = [k \in Ai!Kinds |-> IF Over(cache[k]) THEN NoText ELSE cache[k]]
        /\ tally' = [b \in Ai!Buckets |-> [d \in Ai!Days |->
             [tally[b][d] EXCEPT !.lapsed =
                @ \/ (Over(used[b][d]) /\ (clock + 1) \div DayLength = d)]]]
    BY DEF Ai!Tick
  <1> HIDE DEF Over
  <1>4. Ai!NoCount \in [n: Nat, expires: Nat \cup {NoText}] /\ Ai!NoCount.n = 0
    BY DEF Ai!NoCount
  <1>5. used' \in [Ai!Buckets -> [Ai!Days -> [n: Nat, expires: Nat \cup {NoText}]]]
    BY <1>2, <1>3, <1>4
  <1>6. cache' \in [Ai!Kinds -> [text: Ai!Texts \ {"empty"}, expires: Nat] \cup {NoText}]
    BY <1>2, <1>3
  <1>7. clock \div DayLength <= clock' \div DayLength
        /\ clock \div DayLength \in Nat /\ clock' \div DayLength \in Nat
    BY <1>1, AiBounds, DaysPass
  <1>8. ASSUME NEW k \in Ai!Kinds PROVE KeptOK(k)'
    <2>1. KeptOK(k) /\ paid[k] \in Nat \cup {NoText} /\ CacheLife \in Nat
      BY AiBounds DEF AiInv, TextsOK, Ai!TypeOK
    <2>2. paid'[k] # NoText => paid'[k] <= clock'
      BY <1>1, <2>1 DEF KeptOK
    <2>3. ASSUME Ai!Cached(k), ~Unpaid(k)'
          PROVE  cache'[k] # NoText /\ cache'[k].expires >= paid'[k] + CacheLife
      <3>1. paid[k] \in Nat /\ clock + 1 < paid[k] + CacheLife
        BY <1>1, <2>1, <2>3 DEF Unpaid
      <3>2. ~Unpaid(k)
        BY <1>1, <2>1, <2>3, <3>1 DEF Unpaid
      <3>3. cache[k] # NoText /\ cache[k].expires >= paid[k] + CacheLife
        BY <2>1, <2>3, <3>2 DEF KeptOK
      <3>4. cache[k] \in [text: Ai!Texts \ {"empty"}, expires: Nat]
        BY <1>2, <3>3
      <3>5. ~Over(cache[k])
        BY <1>1, <3>1, <3>3, <3>4, <2>1 DEF Over
      <3>6. cache'[k] = cache[k]
        BY <1>3, <3>5
      <3> QED BY <1>1, <3>3, <3>6
    <2> QED BY <2>2, <2>3 DEF KeptOK, Ai!Cached
  <1>9. asking' \in [Askers -> Ai!Request] /\ AskersOK' /\ TextsOK'
    <2>1. ASSUME NEW q \in Askers PROVE AskerOK(asking[q])' /\ DueOK(asking[q])'
      <3>1. asking[q] \in Ai!Request /\ AskerOK(asking[q]) /\ DueOK(asking[q])
        BY <1>2 DEF AiInv, AskersOK
      <3>2. asking[q].day \in Nat
        BY <3>1 DEF Ai!Request, Ai!Days
      <3>3. asking[q].day <= clock \div DayLength => asking[q].day <= clock' \div DayLength
        BY <1>7, <3>2
      <3>4. AskerOK(asking[q])'
        BY <1>1, <3>1, <3>3 DEF AskerOK
      <3>5. CASE asking[q].pc = "asking" /\ ~asking[q].blind /\ Ai!Cached(asking[q].kind)
        <4>1. PICK k \in Ai!Kinds : k = asking[q].kind
          BY <3>1, <3>5 DEF AskerOK
        <4>2. Unpaid(k) /\ paid[k] \in Nat \cup {NoText} /\ CacheLife \in Nat
          BY <3>1, <3>5, <4>1, AiBounds DEF DueOK, AiInv, Ai!TypeOK
        <4>3. Unpaid(k)'
          BY <1>1, <4>2 DEF Unpaid
        <4> QED BY <1>1, <3>4, <4>1, <4>3 DEF DueOK, Unpaid
      <3>6. CASE ~(asking[q].pc = "asking" /\ ~asking[q].blind /\ Ai!Cached(asking[q].kind))
        BY <1>1, <3>4, <3>6 DEF DueOK, Ai!Cached
      <3> QED BY <3>5, <3>6
    <2> QED BY <1>1, <1>2, <1>8, <2>1 DEF AskersOK, TextsOK
  <1>10. ASSUME NEW b \in Ai!Buckets, NEW d \in Ai!Days
         PROVE  tally'[b][d] \in [spent: Nat, turned: SUBSET Nat, lapsed: BOOLEAN]
                /\ CountOK(b, d)'
    <2>1. PICK t \in [spent: Nat, turned: SUBSET Nat, lapsed: BOOLEAN] : t = tally[b][d]
      BY <1>2
    <2>2. PICK over \in BOOLEAN :
            over = (Over(used[b][d]) /\ (clock + 1) \div DayLength = d)
      OBVIOUS
    <2>3. PICK gone \in BOOLEAN : gone = (t.lapsed \/ over)
      OBVIOUS
    <2>4. tally'[b][d] = [t EXCEPT !.lapsed = gone]
      <3>1. tally'[b][d] = [t EXCEPT !.lapsed = @ \/ over]
        BY <1>3, <2>1, <2>2
      <3> QED BY <3>1, <2>3
    <2>5. tally'[b][d] \in [spent: Nat, turned: SUBSET Nat, lapsed: BOOLEAN]
      BY <2>1, <2>3, <2>4
    <2>6. tally'[b][d].spent = t.spent /\ tally'[b][d].turned = t.turned
      BY <2>1, <2>4
    <2>7. tally'[b][d].lapsed = gone
      BY <2>1, <2>4
    <2>8. CountOK(b, d) /\ used[b][d].n \in Nat /\ d \in Nat
          /\ t.spent \in Nat /\ t.turned \subseteq Nat
      <3>1. CountOK(b, d)
        BY DEF AiInv, CountsOK
      <3>2. used[b][d].n \in Nat
        BY <1>2
      <3>3. d \in Nat
        BY DEF Ai!Days
      <3>4. t.spent \in Nat /\ t.turned \subseteq Nat
        BY <2>1
      <3> QED BY <3>1, <3>2, <3>3, <3>4
    <2>9. d > clock' \div DayLength => t.spent = 0
      <3>1. d > clock' \div DayLength => d > clock \div DayLength
        BY <1>7, <2>8
      <3> QED BY <3>1, <2>1, <2>8 DEF CountOK
    <2>10. used'[b][d] = IF Over(used[b][d]) THEN Ai!NoCount ELSE used[b][d]
      BY <1>3
    <2>11. d >= clock' \div DayLength /\ ~gone => t.spent <= used'[b][d].n
      <3>1. SUFFICES ASSUME d >= clock' \div DayLength, ~gone
                     PROVE  t.spent <= used'[b][d].n
        OBVIOUS
      <3>2. CASE d > clock' \div DayLength
        <4>1. used'[b][d].n \in Nat
          BY <1>5
        <4> QED BY <4>1, <2>9, <3>2
      <3>3. CASE ~(d > clock' \div DayLength)
        <4>1. clock' \div DayLength = d
          <5>1. \A x, y \in Nat : x >= y /\ ~(x > y) => y = x
            OBVIOUS
          <5> QED BY <5>1, <1>7, <2>8, <3>1, <3>3
        <4>2. ~Over(used[b][d]) /\ ~t.lapsed
          BY <1>1, <2>2, <2>3, <3>1, <4>1
        <4>3. used'[b][d] = used[b][d]
          BY <2>10, <4>2
        <4>4. d >= clock \div DayLength
          BY <1>7, <4>1
        <4> QED BY <2>1, <2>8, <4>2, <4>3, <4>4 DEF CountOK
      <3> QED BY <3>2, <3>3
    <2>12. used'[b][d].n > t.spent => \E cap \in t.turned : cap <= t.spent
      <3>1. CASE Over(used[b][d])
        <4>1. used'[b][d].n = 0
          BY <1>4, <2>10, <3>1
        <4> QED BY <4>1, <2>8
      <3>2. CASE ~Over(used[b][d])
        <4>1. used'[b][d] = used[b][d]
          BY <2>10, <3>2
        <4> QED BY <4>1, <2>1, <2>8 DEF CountOK
      <3> QED BY <3>1, <3>2
    <2>13. CountOK(b, d)'
      BY <2>6, <2>7, <2>9, <2>11, <2>12 DEF CountOK
    <2> QED BY <2>5, <2>13
  <1>11. tally' \in [Ai!Buckets -> [Ai!Days ->
                       [spent: Nat, turned: SUBSET Nat, lapsed: BOOLEAN]]]
    <2>1. \A b \in Ai!Buckets : \A d \in Ai!Days :
             tally'[b][d] \in [spent: Nat, turned: SUBSET Nat, lapsed: BOOLEAN]
      BY <1>10
    <2>2. \E f : tally' = [b \in Ai!Buckets |-> [d \in Ai!Days |-> f[b][d]]]
      <3>1. tally' = [b \in Ai!Buckets |-> [d \in Ai!Days |-> tally'[b][d]]]
        BY <1>3
      <3> QED BY <3>1
    <2>3. PICK f : tally' = [b \in Ai!Buckets |-> [d \in Ai!Days |-> f[b][d]]]
      BY <2>2
    <2>4. \A b \in Ai!Buckets : \A d \in Ai!Days : tally'[b][d] = f[b][d]
      BY <2>3
    <2> QED BY <2>1, <2>3, <2>4
  <1>12. CountsOK'
    BY <1>10 DEF CountsOK, Ai!Days
  <1>13. Ai!TypeOK'
    BY <1>1, <1>2, <1>5, <1>6, <1>9, <1>11 DEF AiInv, Ai!TypeOK
  <1> QED BY <1>9, <1>12, <1>13 DEF AiInv

LEMMA AiStart ==
  ASSUME Ai!ConstantsAssumption, Ai!Init
  PROVE  AiInv
  <1>1. 0 \in Ai!Days /\ 0 \div DayLength \in Nat
    BY AiBounds, DaysPass DEF Ai!Days
  <1>2. Ai!Idle \in Ai!Request /\ Ai!Idle.pc = "idle"
    BY <1>1, AiBounds DEF Ai!Idle, Ai!Request
  <1>3. asking \in [Askers -> Ai!Request] /\ AskersOK
    BY <1>2 DEF Ai!Init, AskersOK, AskerOK, DueOK
  <1>4. used \in [Ai!Buckets -> [Ai!Days -> [n: Nat, expires: Nat \cup {NoText}]]]
    BY DEF Ai!Init, Ai!NoCount
  <1>5. tally \in [Ai!Buckets -> [Ai!Days ->
                     [spent: Nat, turned: SUBSET Nat, lapsed: BOOLEAN]]]
    BY DEF Ai!Init
  <1>6. Ai!TypeOK
    BY <1>3, <1>4, <1>5, AiBounds DEF Ai!Init, Ai!TypeOK
  <1>7. ASSUME NEW b \in Ai!Buckets, NEW d \in Ai!Days PROVE CountOK(b, d)
    <2>1. used[b][d].n = 0 /\ tally[b][d].spent = 0
      BY DEF Ai!Init, Ai!NoCount
    <2> QED BY <2>1 DEF CountOK
  <1>8. TextsOK
    BY DEF Ai!Init, TextsOK, KeptOK, Unpaid
  <1> QED BY <1>3, <1>6, <1>7, <1>8 DEF AiInv, CountsOK

LEMMA AiStep ==
  ASSUME Ai!ConstantsAssumption, AiInv, [Ai!Next]_Ai!vars
  PROVE  AiInv'
  <1>1. CASE UNCHANGED Ai!vars
    <2>1. UNCHANGED <<clock, plan, used, cache, asking, started, changes, lost, tally, paid>>
      BY <1>1 DEF Ai!vars
    <2>2. Ai!TypeOK' /\ AskersOK' /\ TextsOK'
      BY <2>1 DEF AiInv, Ai!TypeOK, AskersOK, AskerOK, DueOK, TextsOK, KeptOK, Unpaid,
                  Ai!Cached
    <2> QED BY <2>1, <2>2, CountsStay DEF AiInv
  <1>2. ASSUME NEW q \in Askers, NEW k \in Asked, Ai!Enter(q, k) PROVE AiInv'
    BY <1>2, EnterStep
  <1>3. ASSUME NEW q \in Askers, Ai!RequestStep(q) PROVE AiInv'
    <2>1. CASE Ai!Count(q)
      BY <2>1, CountStep
    <2>2. CASE Ai!CountFails(q)
      BY <2>2, CountFailsStep
    <2>3. CASE Ai!Unreadable(q) \/ Ai!Deliver(q) \/ Ai!Archive(q)
      BY <2>3, OverStep
    <2>4. CASE Ai!LookUp(q)
      BY <2>4, LookUpStep
    <2>5. CASE Ai!LookUpFails(q)
      BY <2>5, LookUpFailsStep
    <2>6. CASE Ai!ProviderFails(q)
      BY <2>6, ProviderFailsStep
    <2>7. CASE Ai!Again(q)
      BY <2>7, AgainStep
    <2>8. ASSUME NEW t \in Ai!Texts, Ai!Ask(q, t) PROVE AiInv'
      BY <2>8, AskStep
    <2>9. ASSUME NEW t \in Ai!Texts, Ai!StoreFails(q, t) PROVE AiInv'
      BY <2>9, StoreFailsStep
    <2> QED BY <1>3, <2>1, <2>2, <2>3, <2>4, <2>5, <2>6, <2>7, <2>8, <2>9
            DEF Ai!RequestStep
  <1>4. CASE Ai!ChangePlan
    BY <1>4, ChangePlanStep
  <1>5. CASE Ai!Tick
    BY <1>5, ClockTurns
  <1> QED BY <1>1, <1>2, <1>3, <1>4, <1>5 DEF Ai!Next

LEMMA AiInvariant ==
  ASSUME Ai!ConstantsAssumption
  PROVE  Ai!Spec => []AiInv
  <1>1. Ai!Init => AiInv
    BY AiStart
  <1>2. AiInv /\ [Ai!Next]_Ai!vars => AiInv'
    BY AiStep
  <1> QED BY <1>1, <1>2, PTL DEF Ai!Spec

\* What the quota, the cache and the requests to the model hold is of its type.
THEOREM AiTyped ==
  ASSUME Ai!ConstantsAssumption
  PROVE  Ai!Spec => []Ai!TypeOK
  <1>1. AiInv => Ai!TypeOK
    BY DEF AiInv
  <1> QED BY <1>1, AiInvariant, PTL

-----------------------------------------------------------------------------
(* What a step may not do                                                  *)

\* A request is moved by its own steps alone; those of others may come too late for it.
LEMMA AskersApart ==
  ASSUME AiInv, NEW q \in Askers, NEW r \in Askers, r # q,
         Ai!RequestStep(r) \/ \E k \in Asked : Ai!Enter(r, k)
  PROVE  asking'[q].pc = asking[q].pc /\ asking'[q].text = asking[q].text
  <1>1. asking \in [Askers -> Ai!Request]
    BY DEF AiInv, Ai!TypeOK
  <1>2. CASE \E k \in Asked : Ai!Enter(r, k)
    BY <1>1, <1>2 DEF Ai!Enter
  <1>3. CASE Ai!Count(r)
    BY <1>1, <1>3 DEF Ai!Count, Ai!Admit
  <1>4. CASE Ai!CountFails(r)
    BY <1>1, <1>4 DEF Ai!CountFails, Ai!Admit
  <1>5. CASE Ai!Unreadable(r) \/ Ai!Deliver(r) \/ Ai!Archive(r)
    BY <1>1, <1>5 DEF Ai!Unreadable, Ai!Deliver, Ai!Archive
  <1>6. CASE Ai!LookUp(r) \/ Ai!LookUpFails(r)
    BY <1>1, <1>6 DEF Ai!LookUp, Ai!LookUpFails
  <1>7. CASE Ai!ProviderFails(r)
    BY <1>1, <1>7 DEF Ai!ProviderFails
  <1>8. CASE \E t \in Ai!Texts : Ai!Ask(r, t) \/ Ai!StoreFails(r, t)
    <2>1. PICK t \in Ai!Texts : asking' = Ai!Answered(r, t)
      BY <1>8 DEF Ai!Ask, Ai!StoreFails
    <2>2. asking'[q] = asking[q] \/ asking'[q] = [asking[q] EXCEPT !.blind = TRUE]
      BY <2>1 DEF Ai!Answered
    <2>3. asking[q] \in Ai!Request
      BY <1>1
    <2> QED BY <2>2, <2>3 DEF Ai!Request
  <1>9. CASE Ai!Again(r)
    BY <1>1, <1>9 DEF Ai!Again
  <1> QED BY <1>2, <1>3, <1>4, <1>5, <1>6, <1>7, <1>8, <1>9 DEF Ai!RequestStep

\* Nor is it moved by the clock, a change of plan or a stutter.
LEMMA AskersRest ==
  ASSUME Ai!Tick \/ Ai!ChangePlan \/ UNCHANGED Ai!vars
  PROVE  asking' = asking
  BY DEF Ai!Tick, Ai!ChangePlan, Ai!vars

LEMMA CapStep ==
  ASSUME Ai!ConstantsAssumption, AiInv, [Ai!Next]_Ai!vars,
         NEW q \in Askers, Ai!At(q, "keyed")
  PROVE  /\ asking'[q].pc \in {"calling", "answered"}
              => \/ Ai!Tally(q).spent < Ai!CapOf(q)
                 \/ Ai!Tally(q).lapsed
                 \/ asking[q].day # clock \div DayLength
                 \/ lost' # lost
         /\ asking'[q] = Ai!Idle
              => \/ Ai!Tally(q).spent >= Ai!CapOf(q)
                 \/ \E cap \in Ai!Tally(q).turned : cap < Ai!CapOf(q)
  <1> DEFINE Good ==
         /\ asking'[q].pc \in {"calling", "answered"}
              => \/ Ai!Tally(q).spent < Ai!CapOf(q)
                 \/ Ai!Tally(q).lapsed
                 \/ asking[q].day # clock \div DayLength
                 \/ lost' # lost
         /\ asking'[q] = Ai!Idle
              => \/ Ai!Tally(q).spent >= Ai!CapOf(q)
                 \/ \E cap \in Ai!Tally(q).turned : cap < Ai!CapOf(q)
  <1>1. asking \in [Askers -> Ai!Request] /\ asking[q].pc = "keyed" /\ AskerOK(asking[q])
    BY DEF AiInv, AskersOK, Ai!TypeOK, Ai!At
  <1>2. Ai!Idle.pc = "idle"
    BY DEF Ai!Idle
  <1>3. ASSUME asking'[q].pc = "keyed" PROVE Good
    BY <1>2, <1>3
  <1>4. ASSUME Ai!Tick \/ Ai!ChangePlan \/ UNCHANGED Ai!vars PROVE Good
    BY <1>1, <1>3, <1>4, AskersRest
  <1>5. ASSUME NEW r \in Askers, r # q,
               Ai!RequestStep(r) \/ \E k \in Asked : Ai!Enter(r, k)
        PROVE  Good
    BY <1>1, <1>3, <1>5, AskersApart
  <1>6. ASSUME Ai!Count(q) PROVE Good
    <2>1. PICK b, d, n, cap : /\ b = Ai!BucketOf(asking[q].kind) /\ d = asking[q].day
                              /\ n = used[b][d].n + 1 /\ cap = Cap[b][asking[q].plan]
      OBVIOUS
    <2>2. b \in Ai!Buckets /\ d \in Ai!Days /\ cap \in Nat
      BY <1>1, <2>1, AiBounds DEF AskerOK, Ai!Request
    <2>3. PICK t : t = tally[b][d]
      OBVIOUS
    <2>4. /\ used[b][d].n \in Nat /\ t.spent \in Nat /\ t.turned \subseteq Nat
      BY <2>2, <2>3 DEF AiInv, Ai!TypeOK
    <2>5. CountOK(b, d)
      BY <2>2 DEF AiInv, CountsOK
    <2>6. Ai!Tally(q) = t /\ Ai!CapOf(q) = cap
      BY <2>1, <2>3 DEF Ai!Tally, Ai!CapOf
    <2>7. CASE Ai!Exceeded(n, cap)
      <3>1. asking'[q] = Ai!Idle
        BY <1>1, <1>6, <2>1, <2>7 DEF Ai!Count
      <3>2. used[b][d].n >= cap
        BY <2>1, <2>2, <2>4, <2>7 DEF Ai!Exceeded
      <3>3. ~(t.spent >= cap) => \E c \in t.turned : c < cap
        <4>1. SUFFICES ASSUME t.spent < cap PROVE \E c \in t.turned : c < cap
          BY <2>2, <2>4
        <4>2. used[b][d].n > t.spent
          BY <2>2, <2>4, <3>2, <4>1
        <4>3. PICK c \in t.turned : c <= t.spent
          BY <2>3, <2>5, <4>2 DEF CountOK
        <4> QED BY <2>2, <2>4, <4>1, <4>3
      <3> QED BY <1>2, <2>6, <3>1, <3>3
    <2>8. CASE ~Ai!Exceeded(n, cap)
      <3>1. asking' = Ai!Admit(q)
        BY <1>6, <2>1, <2>8 DEF Ai!Count
      <3>2. PICK s \in Ai!Request : Ai!Admit(q) = [asking EXCEPT ![q] = s] /\ s.pc # "idle"
        BY AdmitIsOK
      <3>3. asking'[q] # Ai!Idle
        BY <1>1, <1>2, <3>1, <3>2
      <3>4. used[b][d].n < cap
        BY <2>1, <2>2, <2>4, <2>8 DEF Ai!Exceeded
      <3>5. t.spent < cap \/ t.lapsed \/ d # clock \div DayLength
        <4>1. SUFFICES ASSUME ~t.lapsed, d = clock \div DayLength PROVE t.spent < cap
          OBVIOUS
        <4>2. d >= clock \div DayLength
          BY <2>2, <4>1 DEF Ai!Days
        <4>3. t.spent <= used[b][d].n
          BY <2>3, <2>5, <4>1, <4>2 DEF CountOK
        <4> QED BY <2>2, <2>4, <3>4, <4>3
      <3> QED BY <2>1, <2>6, <3>3, <3>5
    <2> QED BY <2>7, <2>8
  <1>7. ASSUME Ai!CountFails(q) PROVE Good
    <2>1. lost' # lost
      BY <1>7, AiBounds DEF AiInv, Ai!TypeOK, Ai!CountFails, Ai!Unreachable
    <2>2. PICK s \in Ai!Request : Ai!Admit(q) = [asking EXCEPT ![q] = s] /\ s.pc # "idle"
      BY AdmitIsOK
    <2>3. asking'[q] # Ai!Idle
      BY <1>1, <1>2, <1>7, <2>2 DEF Ai!CountFails
    <2> QED BY <2>1, <2>3
  <1>8. ASSUME Ai!RequestStep(q) \/ \E k \in Asked : Ai!Enter(q, k)
        PROVE  Ai!Count(q) \/ Ai!CountFails(q)
    <2>1. ~(\E k \in Asked : Ai!Enter(q, k))
      BY <1>1 DEF Ai!Enter, Ai!At
    <2>2. ~(Ai!Unreadable(q) \/ Ai!LookUp(q) \/ Ai!LookUpFails(q))
      BY <1>1 DEF Ai!Unreadable, Ai!LookUp, Ai!LookUpFails, Ai!At
    <2>3. ~(Ai!ProviderFails(q) \/ \E t \in Ai!Texts : Ai!Ask(q, t) \/ Ai!StoreFails(q, t))
      BY <1>1 DEF Ai!ProviderFails, Ai!Ask, Ai!StoreFails, Ai!At
    <2>4. ~(Ai!Again(q) \/ Ai!Deliver(q) \/ Ai!Archive(q))
      BY <1>1 DEF Ai!Again, Ai!Deliver, Ai!Archive, Ai!At
    <2> QED BY <1>8, <2>1, <2>2, <2>3, <2>4 DEF Ai!RequestStep
  <1>9. Good
    <2>1. CASE Ai!Next
      <3>1. CASE Ai!Tick \/ Ai!ChangePlan
        BY <1>4, <3>1
      <3>2. ASSUME NEW r \in Askers, Ai!RequestStep(r) \/ \E k \in Asked : Ai!Enter(r, k)
            PROVE  Good
        <4> HIDE DEF Good
        <4>1. CASE r = q
          <5>1. Ai!RequestStep(q) \/ \E k \in Asked : Ai!Enter(q, k)
            BY <3>2, <4>1
          <5> QED BY <1>6, <1>7, <1>8, <5>1
        <4>2. CASE r # q
          BY <1>5, <3>2, <4>2
        <4> QED BY <4>1, <4>2
      <3> HIDE DEF Good
      <3> QED BY <2>1, <3>1, <3>2 DEF Ai!Next
    <2> HIDE DEF Good
    <2> QED BY <1>4, <2>1
  <1> QED BY <1>9

\* The daily cap is exact, whatever the requests, the clock and the plan do.
THEOREM CapHolds ==
  ASSUME Ai!ConstantsAssumption
  PROVE  Ai!Spec => Ai!CapIsExact
  <1>1. AiInv /\ [Ai!Next]_Ai!vars =>
          [\A q \in Askers : Ai!At(q, "keyed") =>
             /\ asking'[q].pc \in {"calling", "answered"}
                  => \/ Ai!Tally(q).spent < Ai!CapOf(q)
                     \/ Ai!Tally(q).lapsed
                     \/ asking[q].day # clock \div DayLength
                     \/ lost' # lost
             /\ asking'[q] = Ai!Idle
                  => \/ Ai!Tally(q).spent >= Ai!CapOf(q)
                     \/ \E cap \in Ai!Tally(q).turned : cap < Ai!CapOf(q)]_Ai!vars
    BY CapStep
  <1> QED BY <1>1, AiInvariant, PTL DEF Ai!Spec, Ai!CapIsExact

LEMMA PaidStep ==
  ASSUME Ai!ConstantsAssumption, AiInv, [Ai!Next]_Ai!vars, NEW q \in Askers,
         Ai!At(q, "asking"), asking'[q].text \in {"usable", "unusable"}
  PROVE  \/ ~Ai!Cached(asking[q].kind)
         \/ paid[asking[q].kind] = NoText
         \/ clock >= paid[asking[q].kind] + CacheLife
         \/ asking[q].blind
  <1>1. asking[q].pc = "asking" /\ DueOK(asking[q])
    BY DEF AiInv, AskersOK, Ai!At
  <1> QED BY <1>1 DEF DueOK, Unpaid

\* A text is paid for once in the life of a cache entry, by the requests that could
\* look for it there, whatever the requests, the providers and the clock do.
THEOREM TextsArePaidOnce ==
  ASSUME Ai!ConstantsAssumption
  PROVE  Ai!Spec => Ai!PaidOnce
  <1>1. AiInv /\ [Ai!Next]_Ai!vars =>
          [\A q \in Askers :
             Ai!At(q, "asking") /\ asking'[q].text \in {"usable", "unusable"} =>
               LET k == asking[q].kind
               IN \/ ~Ai!Cached(k)
                  \/ paid[k] = NoText
                  \/ clock >= paid[k] + CacheLife
                  \/ asking[q].blind]_Ai!vars
    BY PaidStep
  <1> QED BY <1>1, AiInvariant, PTL DEF Ai!Spec, Ai!PaidOnce

=============================================================================
