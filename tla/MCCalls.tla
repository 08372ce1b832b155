------------------------------- MODULE MCCalls ------------------------------
(***************************************************************************)
(* Credentials and Reads on inputs of bounded size, next to the instance   *)
(* of Schemas: presentations of up to three claims, the graphs of three    *)
(* ids with a link and a superseded chunk for each, those of four with one *)
(* more link, which meet again at different hops, and sessions of two      *)
(* stores with up to two chunks each.                                      *)
(***************************************************************************)
EXTENDS MCSchemaRegistry, Credentials, Reads

UpTo(n, S) == UNION {[1 .. k -> S] : k \in 0 .. n}

Claim(t, v) == [type |-> t, value |-> v]
ShortClaims == UpTo(3, {Claim("score", 1), Claim("score", 2), Claim("level", 1)})

Link(target, rel) == [target |-> target, rel |-> rel]
Related(ids, n) == UpTo(n, {Link(id, "related") : id \in ids})
SomeLinks == {Links(links, supersedes) :
                links \in Related({Uri, 1, 2}, 1), supersedes \in {Uri, 1, 3}}
SmallGraphs == UNION {[ids -> SomeLinks] : ids \in SUBSET (1 .. 3)}
WideGraphs == {(1 :> links) @@ rest : links \in Related(Names, 2), rest \in [2 .. 4 -> Related({1, 3, 4}, 1)]}
SomeGraphs == SmallGraphs \cup WideGraphs

SomeRequests ==
    {[start |-> 1, rels |-> {"related"}, maxDepth |-> 1],
     [start |-> 1, rels |-> {"related", "supersedes"}, maxDepth |-> 3]}

Chunks == [id : 1 .. 3, author : {1}, collection : {Uri, 1}, slug : {1}, stamp : 1 .. 2]
SomeChunks == UNION {kSubset(n, Chunks) : n \in 0 .. 2}
TwoStores == {<<s, t>> \in SomeChunks \X SomeChunks :
                \A c, d \in s \cup t : c.id = d.id => c = d}

-----------------------------------------------------------------------------
(***************************************************************************)
(* The three share no variable, so that what one of them does while the    *)
(* others are at their start is all that it can do.                        *)
(***************************************************************************)

CallsInit == RegistryInit /\ CredentialsInit /\ ReadsInit

CallsNext ==
    \/ CredentialsInit /\ ReadsInit /\ RegistryNext /\ UNCHANGED <<credentialVars, readVars>>
    \/ RegistryInit /\ ReadsInit /\ CredentialsNext /\ UNCHANGED <<registryVars, readVars>>
    \/ RegistryInit /\ CredentialsInit /\ ReadsNext /\ UNCHANGED <<registryVars, credentialVars>>

CallsSpec == CallsInit /\ [][CallsNext]_<<registryVars, credentialVars, readVars>>

=============================================================================
