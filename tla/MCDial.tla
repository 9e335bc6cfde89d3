------------------------------ MODULE MCDial ------------------------------
(* Small instances of Dial for TLC. *)
EXTENDS Dial

CONSTANTS c1, c2

\* Two instances are explored in one run: one call over two addresses with all that
\* may come from outside, and two calls over one address, whose document may be
\* loaded again or go.  What belongs to neither is cut; every conjunct bounds
\* something that only grows.
OneCall == made[c2] = 0
TwoCalls ==
    /\ withdrawals = 0 /\ late = {}
    /\ \A c \in Calls : attempt[c][2] = "untried"

AnInstance == OneCall \/ TwoCalls

===========================================================================
