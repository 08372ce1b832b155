---------------------------- MODULE Credentials -----------------------------
(***************************************************************************)
(* What an agent says about itself and others check: proofs that it owns   *)
(* its DID and credentials of which it presents some claims                *)
(* (packages/core/src/zkp.ts), the capabilities that they list             *)
(* (packages/core/src/negotiate.ts), and the routes under /identity and    *)
(* /capabilities.  One credential is issued, one presentation made of it,  *)
(* and time passes.                                                        *)
(*                                                                         *)
(* A DID is the public key itself, so that a key stands for its DID.  A    *)
(* hash is the tuple of what it is made of and a signature the pair of the *)
(* key and the text: two of them are equal only if their parts are.  The   *)
(* nonces of a credential are the positions of its claims.  A presentation *)
(* has its claims and commitments as sets: nobody looks at their order.    *)
(***************************************************************************)
EXTENDS Integers, Sequences

CONSTANTS
    Keys,           \* Ed25519 keys, each with its DID
    Malformed,      \* a text that is no DID
    Ttl,            \* PROOF_TTL_MS
    ClaimInputs,    \* the sequences of [type, value] that are made credentials
    MaxClock        \* bound on the clock

ASSUME CredentialsAssumption ==
    /\ Malformed \notin Keys
    /\ Ttl \in Nat \ {0} /\ MaxClock \in Nat
    /\ \A input \in ClaimInputs : DOMAIN input \subseteq Nat

VARIABLES
    clock,
    wallet,         \* the credential that was issued, with its nonces, if any
    shown           \* the presentation that was made, if any

credentialVars == <<clock, wallet, shown>>

\* What publicKeyFromDidKey or the verification of the signature rejects.
Forged(did, text, signature) ==
    \/ did \notin Keys
    \/ signature # <<did, text>>

-----------------------------------------------------------------------------
(***************************************************************************)
(* Proofs of ownership.  Neither the expiry nor the context is signed.     *)
(***************************************************************************)

Challenge(did, issuedAt, nonce) == <<"subspace:ownership:v1", did, issuedAt, nonce>>

\* generateOwnershipProof: the proof, or none for a text that is no DID.
OwnershipProofs(did, key, now, ttl, nonce, context) ==
    {[did |-> did, issuedAt |-> now, expiresAt |-> now + ttl, nonce |-> nonce,
      challenge |-> c, signature |-> <<key, c>>, context |-> context] :
        c \in {Challenge(d, now, nonce) : d \in {did} \cap Keys}}

\* verifyOwnershipProof: a proof lasts up to the moment of its expiry.
OwnershipVerifies(p, now) ==
    LET expected == Challenge(p.did, p.issuedAt, p.nonce)
    IN  /\ now <= p.expiresAt
        /\ expected = p.challenge
        /\ ~Forged(p.did, expected, p.signature)

-----------------------------------------------------------------------------
(***************************************************************************)
(* Credentials and presentations.                                          *)
(***************************************************************************)

Commitment(type, value, nonce) == <<type, value, nonce>>

\* issueCredential: a nonce for each claim, in a record by the type of it.
Issue(issuer, key, subject, input) ==
    LET claims == [i \in DOMAIN input |->
            [type |-> input[i].type, value |-> input[i].value,
             commitment |-> Commitment(input[i].type, input[i].value, i)]]
        body == [issuer |-> issuer, subject |-> subject, claims |-> claims]
    IN  [credential |-> [body |-> body, proof |-> <<key, body>>],
         nonces |-> [t \in {input[i].type : i \in DOMAIN input} |->
            CHOOSE i \in DOMAIN input :
                /\ input[i].type = t
                /\ \A j \in DOMAIN input : input[j].type = t => j <= i]]

\* verifyCredential, which does not look at the expiration date.
CredentialVerifies(c) == ~Forged(c.body.issuer, c.body, c.proof)

\* The claims that are revealed, each with the nonce of its type.
Revealed(issued, types) ==
    LET claims == issued.credential.body.claims
    IN  {[claim |-> claims[i], nonce |-> issued.nonces[claims[i].type]] :
            i \in {j \in DOMAIN claims : claims[j].type \in types}}

\* The commitments of the others.
Hidden(issued, types) ==
    LET claims == issued.credential.body.claims
    IN  {claims[i].commitment : i \in {j \in DOMAIN claims : claims[j].type \notin types}}

\* Mutant of Presentations: the claims that are not to be revealed are.
PresentationsSwapped(issued, types, holder, key, now, nonce) ==
    {[holder |-> holder, revealed |-> Revealed(issued, DOMAIN issued.nonces \ types),
      hidden |-> Hidden(issued, types), ownership |-> p] :
        p \in OwnershipProofs(holder, key, now, Ttl, nonce, issued.credential)}

\* createPresentation.
Presentations(issued, types, holder, key, now, nonce) ==
    {[holder |-> holder, revealed |-> Revealed(issued, types),
      hidden |-> Hidden(issued, types), ownership |-> p] :
        p \in OwnershipProofs(holder, key, now, Ttl, nonce, issued.credential)}

\* verifyPresentation.
PresentationVerifies(p, now) ==
    /\ OwnershipVerifies(p.ownership, now)
    /\ \A r \in p.revealed :
          Commitment(r.claim.type, r.claim.value, r.nonce) = r.claim.commitment

-----------------------------------------------------------------------------
(***************************************************************************)
(* Capabilities.                                                           *)
(***************************************************************************)

\* The capabilities of every agent, by the last segments of their NSIDs, in
\* the order of the Map.  Nothing registers others.
BuiltInCapabilities ==
    <<"memory.skill", "memory.project", "protocol.query", "protocol.browse",
      "protocol.negotiate", "protocol.mailbox", "identity.did-key", "schema.lexicon">>

\* CapabilityRegistry.list without a filter.
Capabilities == BuiltInCapabilities

\* issueCapabilityCredential: all claims are of one type.
CapabilityCredential(agent, names) ==
    Issue(agent, agent, agent,
          [i \in DOMAIN names |-> [type |-> "capability", value |-> names[i]]])

-----------------------------------------------------------------------------
(***************************************************************************)
(* Calls.                                                                  *)
(***************************************************************************)

CredentialsInit ==
    /\ clock = 0
    /\ wallet = {}
    /\ shown = {}

\* An issuer makes a credential for a holder, or an agent the one of its
\* capabilities for itself.
IssueOne(issuer, holder, input) ==
    /\ wallet = {}
    /\ wallet' = {Issue(issuer, issuer, holder, input)}
    /\ UNCHANGED <<clock, shown>>

\* POST /identity/credential: the capabilities that the body names, or all.
IssueCapabilities(agent, names) ==
    /\ wallet = {}
    /\ wallet' = {CapabilityCredential(agent, names)}
    /\ UNCHANGED <<clock, shown>>

\* The holder presents some of the claims; one who gives a text that is no DID
\* gets none.
Present(holder, types) ==
    /\ shown = {}
    /\ shown' = UNION {Presentations(issued, types, holder, issued.credential.body.subject, clock, 0) :
                          issued \in wallet}
    /\ UNCHANGED <<clock, wallet>>

TimePasses ==
    /\ clock < MaxClock
    /\ clock' = clock + 1
    /\ UNCHANGED <<wallet, shown>>

TypesOf(issued) == DOMAIN issued.nonces

CredentialsNext ==
    \/ \E k, l \in Keys, input \in ClaimInputs : IssueOne(k, l, input)
    \/ \E k \in Keys, n \in 0 .. Len(Capabilities) :
          IssueCapabilities(k, SubSeq(Capabilities, 1, n))
    \/ \E issued \in wallet : \E types \in SUBSET TypesOf(issued) :
          Present(issued.credential.body.subject, types) \/ Present(Malformed, types)
    \/ TimePasses

CredentialsSpec == CredentialsInit /\ [][CredentialsNext]_credentialVars

-----------------------------------------------------------------------------
(***************************************************************************)
(* What the calls promise to those who use them as they are meant.         *)
(***************************************************************************)

\* A type that no two claims have.
Once(issued, t) ==
    LET claims == issued.credential.body.claims
    IN  \A i, j \in DOMAIN claims : claims[i].type = t /\ claims[j].type = t => i = j

\* A presentation that the holder of a credential made verifies until the
\* ownership proof expires, and no longer, if no type that it reveals stands for
\* two claims; and every claim is either revealed, as it was issued, or hidden
\* (createPresentation, verifyPresentation).
PresentationsVerify ==
    \A issued \in wallet, p \in shown :
        LET claims   == issued.credential.body.claims
            revealed == {r.claim : r \in p.revealed}
        IN  /\ (\A c \in revealed : Once(issued, c.type)) =>
                   (PresentationVerifies(p, clock) <=> clock - p.ownership.issuedAt <= Ttl)
            /\ p.holder = issued.credential.body.subject
            /\ \A i \in DOMAIN claims :
                  claims[i] \in revealed <=> claims[i].commitment \notin p.hidden

\* What verifies was made as it is: a credential of which the subject, the
\* issuer or the claims were exchanged is refused, and an ownership proof that
\* is told of another DID or another time is (verifyCredential,
\* verifyOwnershipProof).
AlteredIsRefused ==
    /\ \A issued \in wallet :
          LET c == issued.credential
          IN  /\ CredentialVerifies(c)
              /\ \A other \in Keys :
                    /\ other # c.body.subject => ~CredentialVerifies([c EXCEPT !.body.subject = other])
                    /\ other # c.body.issuer => ~CredentialVerifies([c EXCEPT !.body.issuer = other])
              /\ \A i \in DOMAIN c.body.claims, j \in DOMAIN c.body.claims :
                    c.body.claims[i] # c.body.claims[j] =>
                        ~CredentialVerifies([c EXCEPT !.body.claims[i] = c.body.claims[j]])
    /\ \A p \in shown :
          /\ \A other \in Keys \ {p.holder} :
                ~PresentationVerifies([p EXCEPT !.ownership.did = other], clock)
          /\ \A then \in 0 .. MaxClock : then # p.ownership.issuedAt =>
                ~PresentationVerifies([p EXCEPT !.ownership.issuedAt = then], clock)

CredentialsHold == PresentationsVerify /\ AlteredIsRefused

\* "The holder can present any subset of claims without revealing the others"
\* (zkp.ts:15): whichever claims are revealed, the presentation verifies.
AnySubsetVerifies ==
    \A p \in shown : clock = p.ownership.issuedAt => PresentationVerifies(p, clock)
=============================================================================
