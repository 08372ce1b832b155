------------------------------- MODULE MCMail -------------------------------
(***************************************************************************)
(* What agents do for each other, on instances of bounded size: Mail, with *)
(* a relay that keeps up to three of four envelopes, and three agents of   *)
(* which two browse each other and the third browses one of them.          *)
(***************************************************************************)
EXTENDS Mail, RelayStore, Browse

Envelope(id, to, at, until) == [id |-> id, to |-> to, at |-> at, until |-> until]
SomeEnvelopes == {Envelope(1, "b", 2, 3), Envelope(2, "b", 1, 1), Envelope(3, "b", 1, 3), Envelope(4, "c", 2, 2)}

Visit(from, to, collection) == [from |-> from, to |-> to, collection |-> collection]
SomeVisits == {Visit("a", "b", 1), Visit("b", "a", 1), Visit("c", "a", 2)}
OwnId      == [v \in SomeVisits |-> CASE v.from = "a" -> 1 [] v.from = "b" -> 2 [] v.from = "c" -> 3]
OneId      == [v \in SomeVisits |-> 1]

-----------------------------------------------------------------------------
(***************************************************************************)
(* The three share no variable, so that what one of them does while the    *)
(* others are at their start is all that it can do.                        *)
(***************************************************************************)

PeersInit == Init /\ RelayInit /\ BrowseInit

PeersNext ==
    \/ RelayInit /\ BrowseInit /\ Next /\ UNCHANGED <<relayVars, browseVars>>
    \/ Init /\ BrowseInit /\ RelayNext /\ UNCHANGED <<vars, browseVars>>
    \/ Init /\ RelayInit /\ BrowseNext /\ UNCHANGED <<vars, relayVars>>

PeersSpec ==
    /\ PeersInit
    /\ [][PeersNext]_<<vars, relayVars, browseVars>>
    /\ Fairness /\ BrowseFairness

\* Nobody waits for ever, neither who posts a letter nor who it is for nor who
\* browses another agent (POST /mail, handle_mail_deliver, GET /browse/:peerId).
PeersMoveOn == MailMovesOn /\ EveryBrowseEnds
=============================================================================
