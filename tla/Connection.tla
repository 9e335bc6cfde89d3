----------------------------- MODULE Connection -----------------------------
(***************************************************************************)
(* What an app may take its TCP socket for (docs/architecture/             *)
(* handle-contracts.md, the comments of transport/relay and of             *)
(* preload/ports/socket.ts): a byte stream each way.  Nothing arrives that *)
(* was not sent, the stream that ends without an error has brought         *)
(* everything, what is accepted is in the operating system's hands, and    *)
(* a FIN reaches the peer behind the last byte the socket took, unless     *)
(* something happened that may cost bytes.  Bytes are counted.             *)
(***************************************************************************)
EXTENDS Naturals

VARIABLES
    sent,        \* the peer to the app: bytes the peer wrote
    peerDone,    \* the peer's FIN
    got,         \* bytes the page has received
    reading,     \* the app's readable: "open", "ending" (closed, not read out), "closed",
                 \* "broken", or "gone" with its document
    asked,       \* the app to the peer: bytes the app wrote
    taken,       \* bytes the socket took over
    accepted,    \* bytes the app was told of
    received,    \* bytes the peer has read
    finished,    \* our FIN, not overtaken by a reset
    closing,     \* the app called close()
    excused      \* something happened that may cost bytes of the app

vars == <<sent, peerDone, got, reading, asked, taken, accepted, received, finished, closing, excused>>

incoming == <<sent, peerDone, got, reading>>
outgoing == <<asked, taken, accepted, received, finished>>

Init ==
    /\ sent = 0 /\ peerDone = FALSE /\ got = 0 /\ reading = "open"
    /\ asked = 0 /\ taken = 0 /\ accepted = 0 /\ received = 0 /\ finished = FALSE
    /\ closing = FALSE /\ excused = FALSE

-----------------------------------------------------------------------------
(* From the peer to the app. *)

PeerSends ==
    /\ ~peerDone
    /\ sent' > sent
    /\ UNCHANGED <<peerDone, got, reading, outgoing, closing, excused>>

PeerEnds ==
    /\ ~peerDone
    /\ peerDone' = TRUE
    /\ UNCHANGED <<sent, got, reading, outgoing, closing, excused>>

\* Nothing arrives after the end; what arrives for a broken stream is dropped.
Arrives ==
    /\ reading \in {"open", "broken"}
    /\ got' > got /\ got' <= sent
    /\ UNCHANGED <<sent, peerDone, reading, outgoing, closing, excused>>

\* The end the app sees is the peer's, behind every byte, or the app's own close().
Ends ==
    /\ reading = "open"
    /\ closing \/ (peerDone /\ got = sent)
    /\ reading' \in {"ending", "closed"}
    /\ UNCHANGED <<sent, peerDone, got, outgoing, closing, excused>>

ReadOut ==
    /\ reading = "ending"
    /\ reading' = "closed"
    /\ UNCHANGED <<sent, peerDone, got, outgoing, closing, excused>>

\* An error, or the app's cancel().
Breaks ==
    /\ reading \in {"open", "ending"}
    /\ reading' = "broken"
    /\ UNCHANGED <<sent, peerDone, got, outgoing, closing, excused>>

-----------------------------------------------------------------------------
(* From the app to the peer. *)

Write ==
    /\ reading # "gone"
    /\ asked' > asked
    /\ UNCHANGED <<incoming, taken, accepted, received, finished, closing, excused>>

\* Nothing follows the FIN.  A write that was under way when its document went away
\* may still be taken.
Take ==
    /\ ~finished
    /\ taken' > taken
    /\ reading # "gone" => taken' <= asked
    /\ UNCHANGED <<incoming, asked, accepted, received, finished, closing, excused>>

Accept ==
    /\ reading # "gone"
    /\ accepted' > accepted /\ accepted' <= taken
    /\ UNCHANGED <<incoming, asked, taken, received, finished, closing, excused>>

PeerReceives ==
    /\ ~finished
    /\ received' > received /\ received' <= taken
    /\ UNCHANGED <<incoming, asked, taken, accepted, finished, closing, excused>>

Finish ==
    /\ ~finished
    /\ excused \/ received = taken
    /\ finished' = TRUE
    /\ UNCHANGED <<incoming, asked, taken, accepted, received, closing, excused>>

-----------------------------------------------------------------------------
\* A second close() may cost what the first was flushing.
Close ==
    /\ reading # "gone"
    /\ closing' = TRUE
    /\ UNCHANGED excused \/ (closing /\ excused' = TRUE)
    /\ UNCHANGED <<incoming, outgoing>>

\* A reset, an abort, a withdrawal, a failure, the end of a session, a deadline.
Excuse ==
    /\ excused' = TRUE
    /\ finished' \in {finished, FALSE}
    /\ UNCHANGED <<incoming, asked, taken, accepted, received, closing>>

\* The document goes away, with what it knew.
Leave ==
    /\ reading # "gone"
    /\ reading' = "gone" /\ got' = 0 /\ asked' = 0 /\ accepted' = 0
    /\ excused' = TRUE
    /\ UNCHANGED <<sent, peerDone, taken, received, finished, closing>>

Next ==
    \/ PeerSends \/ PeerEnds \/ Arrives \/ Ends \/ ReadOut \/ Breaks
    \/ Write \/ Take \/ Accept \/ PeerReceives \/ Finish
    \/ Close \/ Excuse \/ Leave

Spec == Init /\ [][Next]_vars

=============================================================================
