------------------------------ MODULE MCRelay ------------------------------
(* Small instances of Relay for TLC. *)
EXTENDS Relay

\* Three instances are explored in one run: a socket that is read from, one that
\* is written to, and one with a byte each way.  What the peer, the app and the
\* user do is cut down to the states that belong to one of them; each conjunct
\* bounds something that only grows, so no state of an instance is reached through
\* a state that is cut.
Undisturbed == handle.reason \notin Outside /\ page.here /\ ~page.aborted

ReadInstance == page.writes = 0 /\ (Undisturbed \/ socket.sent <= 1)
WriteInstance ==
    /\ socket.sent = 0
    /\ page.writes <= 1 \/ (page.asked <= 2 /\ Undisturbed)
DuplexInstance == socket.sent <= 1 /\ page.writes <= 1 /\ page.asked <= 1 /\ Undisturbed

AnInstance == ReadInstance \/ WriteInstance \/ DuplexInstance

=============================================================================
