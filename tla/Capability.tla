----------------------------- MODULE Capability -----------------------------
(***************************************************************************)
(* What the handle table promises about one capability of one origin       *)
(* (handles/README.md, handle-contracts.md's "Revocation"): a granted      *)
(* handle exists only while the user's grant stands, withdrawing the grant *)
(* ends every one of them at once, and a handle the user picked answers to *)
(* the picker and the session, never to a grant.                           *)
(***************************************************************************)
CONSTANTS Grants, Handles, None

VARIABLES
    authority,   \* the grant that stands, or None
    granted,     \* live handles that stand on it
    picked,      \* live handles the user picked
    ended        \* handles that were live and no longer are

vars == <<authority, granted, picked, ended>>

Init ==
    /\ authority = None
    /\ granted = {}
    /\ picked = {}
    /\ ended = {}

\* The user grants the capability, or replaces the grant; the replacement may
\* not cover some of the handles, and touches nothing the user picked.
Decide ==
    /\ authority' \in Grants \ {authority}
    /\ granted' \subseteq granted
    /\ ended' = ended \cup (granted \ granted')
    /\ UNCHANGED picked

Withdraw ==
    /\ authority # None
    /\ authority' = None
    /\ granted' = {}
    /\ ended' = ended \cup granted
    /\ UNCHANGED picked

OpenGranted ==
    /\ authority # None
    /\ \E h \in Handles \ (granted \cup picked \cup ended) : granted' = granted \cup {h}
    /\ UNCHANGED <<authority, picked, ended>>

OpenPicked ==
    /\ \E h \in Handles \ (granted \cup picked \cup ended) : picked' = picked \cup {h}
    /\ UNCHANGED <<authority, granted, ended>>

\* A close, a failure, a withdrawn pick or the end of the session.
End ==
    /\ granted' \subseteq granted
    /\ picked' \subseteq picked
    /\ ended' = ended \cup (granted \ granted') \cup (picked \ picked')
    /\ UNCHANGED authority

Next == Decide \/ Withdraw \/ OpenGranted \/ OpenPicked \/ End

Spec == Init /\ [][Next]_vars

=============================================================================
