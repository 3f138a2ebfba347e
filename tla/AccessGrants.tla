---------------------------- MODULE AccessGrants ----------------------------
(***************************************************************************)
(* What a user who lets others act on the own data may rely on.  A code is  *)
(* good for one token, which allows what the user consented to; a token or  *)
(* a key allows the same thing to the same party until it ends, and what    *)
(* has ended never comes back.                                              *)
(***************************************************************************)
CONSTANTS
    Codes, Tokens, Keys,  \* all that may ever be issued
    Users, Apps, Scopes,
    None

VARIABLES
    code,   \* the phase of each code and what it stands for
    cred,   \* the same of each token and key
    shared  \* codes presented twice at the same time
grants == <<code, cred>>

Credentials == Tokens \cup Keys

\* What a user has granted, to an app or, with a key, to whoever holds it.
Grant(phase, u, a, ss) == [phase |-> phase, user |-> u, app |-> a, scopes |-> ss]
Nothing(phase) == Grant(phase, None, None, {})

Init ==
    /\ code = [c \in Codes |-> Nothing("none")]
    /\ cred = [x \in Credentials |-> Nothing("none")]

Consent(c, u, a, ss) ==
    /\ code[c] = Nothing("none")
    /\ code' = [code EXCEPT ![c] = Grant("open", u, a, ss)]
    /\ UNCHANGED cred

\* A code presented twice at the same time may be good for two.
Redeem(c, t) ==
    /\ \/ code[c].phase = "open"
       \/ code[c].phase = "spent" /\ c \in shared
    /\ cred[t] = Nothing("none")
    /\ code' = [code EXCEPT ![c].phase = "spent"]
    /\ cred' = [cred EXCEPT ![t] = [code[c] EXCEPT !.phase = "active"]]

IssueKey(k, u, ss) ==
    /\ cred[k] = Nothing("none")
    /\ cred' = [cred EXCEPT ![k] = Grant("active", u, None, ss)]
    /\ UNCHANGED code

\* By revocation, by expiry, or with the app or the account; several at once.
EndSome ==
    /\ \A c \in Codes :
         \/ code'[c] = code[c]
         \/ code[c].phase \in {"open", "spent"} /\ code'[c] = Nothing("gone")
    /\ \A x \in Credentials :
         \/ cred'[x] = cred[x]
         \/ cred[x].phase = "active" /\ cred'[x] = Nothing("ended")
    /\ DOMAIN code' = Codes
    /\ DOMAIN cred' = Credentials

Next ==
    \/ EndSome
    \/ \E c \in Codes, t \in Tokens : Redeem(c, t)
    \/ \E u \in Users, ss \in SUBSET Scopes :
         \/ \E c \in Codes, a \in Apps : Consent(c, u, a, ss)
         \/ \E k \in Keys : IssueKey(k, u, ss)

Spec == Init /\ [][Next]_grants

-----------------------------------------------------------------------------
(* What follows                                                            *)

\* What was once issued allows what it did, to whom it did, or nothing any more.
KeepsRights ==
    \A x \in Credentials : cred[x].phase # "none" =>
        cred'[x] = cred[x] \/ cred'[x] = Nothing("ended")

\* A token that begins is what the user consented to under a code.
BeginsByConsent ==
    \A t \in Tokens : cred[t].phase # "active" /\ cred'[t].phase = "active" =>
        \E c \in Codes : /\ code[c].phase \in {"open", "spent"}
                         /\ code'[c].phase = "spent"
                         /\ cred'[t] = [code[c] EXCEPT !.phase = "active"]

\* Nobody's rights grow by anything but a consent of the user they are about.
RightsAreGiven == [][KeepsRights /\ BeginsByConsent]_grants

=============================================================================
