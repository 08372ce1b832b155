--------------------------- MODULE SchemaRegistry ---------------------------
(***************************************************************************)
(* The schemas that a daemon knows: the Map and the files of               *)
(* packages/core/src/schema-registry.ts, the routes under /schemas, and    *)
(* what packages/core/src/lexicon.ts and nsid.ts take for a schema.        *)
(*                                                                         *)
(* POST /schemas changes the Map and answers; the file is written after    *)
(* that, one file for an NSID and a revision, and several writes of one    *)
(* file may overlap.  A restart reads the files in the order that readdir  *)
(* lists them and takes the first of each NSID that parses.                *)
(***************************************************************************)
EXTENDS Integers, Sequences, FiniteSets, Functions, TLC

CONSTANTS
    Posted,             \* bodies that POST /schemas is given
    MaxPosts,           \* bound on the POSTs
    MaxRestarts         \* bound on the restarts

Absent == [kind |-> "absent"]
Blank  == [kind |-> "blank"]        \* opened, nothing written yet
Torn   == [kind |-> "torn"]
Unreadable == {Absent, Blank, Torn}

ASSUME RegistryAssumption ==
    /\ MaxPosts \in Nat /\ MaxRestarts \in Nat
    /\ Posted \cap Unreadable = {}

-----------------------------------------------------------------------------
(***************************************************************************)
(* Schemas.                                                                *)
(***************************************************************************)

\* An NSID is the sequence of its segments; "" stands for any segment that
\* does not match the pattern of one.
IsValidNSID(nsid) == Len(nsid) >= 3 /\ "" \notin Range(nsid)

Memory(name) == <<"net", "subspace", "memory", name>>

\* BUILT_IN_NSIDS of the types of chunks.
MemoryTypeNSID(type) ==
    CASE type = "schema"        -> <<"net", "subspace", "schema", "definition">>
      [] type = "blob-manifest" -> <<"net", "subspace", "blob", "manifest">>
      [] type = "profile"       -> <<"net", "subspace", "identity", "profile">>
      [] OTHER                  -> Memory(type)

\* validateLexiconSchema finds no error.
IsLexicon(s) ==
    /\ s.lexicon = 1
    /\ IsValidNSID(s.id)
    /\ s.revision.kind = "number" /\ s.revision.halves >= 2 /\ s.revision.halves % 2 = 0
    /\ s.main

TextField == [type |-> "string"]
IntField  == [type |-> "integer"]

Base ==
    [content    |-> [type |-> "string", maxLength |-> 65536],
     topic      |-> [type |-> "array", items |-> TextField],
     confidence |-> [type |-> "integer", minimum |-> 0, maximum |-> 1]]

Texts(names) == [k \in names |-> TextField]
Record(required, more) == [required |-> required, properties |-> more @@ Base]

MailFields == {"from", "to", "payload", "ephemeralPubKey", "nonce", "authTag", "signature"}

BuiltIns ==
    (Memory("skill")    :> Record({"content", "topic"}, Texts({"language"})))
 @@ (Memory("context")  :> Record({"content", "topic"}, Texts({"sessionId"})))
 @@ (Memory("document") :> Record({"content", "topic"}, Texts({"mimeType"})))
 @@ (Memory("pattern")  :> Record({"content", "topic"}, << >>))
 @@ (Memory("result")   :> Record({"content", "topic"}, << >>))
 @@ (Memory("thread")   :> Record({"topic"}, << >>))
 @@ (MemoryTypeNSID("blob-manifest") :>
        Record({"topic"}, Texts({"blobCid", "mimeType"}) @@ ("size" :> IntField)))
 @@ (MemoryTypeNSID("profile") :>
        Record({"topic"}, [displayName |-> [type |-> "string", maxLength |-> 128],
                           bio         |-> [type |-> "string", maxLength |-> 512],
                           website     |-> TextField]))
 @@ (MemoryTypeNSID("schema") :>
        [required   |-> {"lexicon", "id", "revision", "defs"},
         properties |-> [lexicon     |-> [type |-> "integer", minimum |-> 1, maximum |-> 1],
                         id          |-> TextField, description |-> TextField,
                         revision    |-> [type |-> "integer", minimum |-> 1],
                         defs        |-> [type |-> "object"]]])
 @@ (<<"net", "subspace", "mail", "envelope">> :>
        [required   |-> MailFields \cup {"timestamp", "ttl"},
         properties |-> Texts(MailFields \cup {"contentType"})
                            @@ ("timestamp" :> IntField) @@ ("ttl" :> IntField)])

-----------------------------------------------------------------------------
(***************************************************************************)
(* The Map and the files.                                                  *)
(***************************************************************************)

NSIDs     == {s.id : s \in Posted} \cup DOMAIN BuiltIns
Files     == {<<s.id, s.revision>> : s \in {t \in Posted : IsLexicon(t)}}

VARIABLES
    schemas,            \* the Map: the record that an NSID stands for
    files,              \* files[f]: the body or why there is none
    saves,              \* writes under way: the body, opened or not
    overlapped,         \* history: two writes of one file at a time, or one
                        \* that was cut off or failed
    posts, restarts

registryVars == <<schemas, files, saves, overlapped, posts, restarts>>

RegistryTypeOK ==
    /\ DOMAIN schemas \subseteq NSIDs
    /\ files \in [Files -> Posted \cup Unreadable]
    /\ saves \subseteq [body : Posted, opened : BOOLEAN]
    /\ overlapped \subseteq Files
    /\ posts \in 0 .. MaxPosts
    /\ restarts \in 0 .. MaxRestarts

RegistryInit ==
    /\ schemas = BuiltIns
    /\ files = [f \in Files |-> Absent]
    /\ saves = {}
    /\ overlapped = {}
    /\ posts = 0
    /\ restarts = 0

FileOf(s) == <<s.id, s.revision>>

Refuse(s) ==
    /\ posts < MaxPosts
    /\ ~IsLexicon(s)
    /\ posts' = posts + 1
    /\ UNCHANGED <<schemas, files, saves, overlapped, restarts>>

\* Whatever schema had the NSID before, a built-in one too, is replaced, by a
\* lower revision too.
Register(s) ==
    /\ posts < MaxPosts
    /\ IsLexicon(s)
    /\ posts' = posts + 1
    /\ schemas' = [id \in {s.id} \cup DOMAIN schemas |->
                      IF id = s.id THEN s.record ELSE schemas[id]]
    /\ saves' = saves \cup {[body |-> s, opened |-> FALSE]}
    /\ overlapped' = IF \E w \in saves : FileOf(w.body) = FileOf(s)
                     THEN overlapped \cup {FileOf(s)} ELSE overlapped
    /\ UNCHANGED <<files, restarts>>

\* The directory is there; writeFile opens and truncates the file.
OpenFile(w) ==
    /\ w \in saves /\ ~w.opened
    /\ saves' = (saves \ {w}) \cup {[w EXCEPT !.opened = TRUE]}
    /\ files' = [files EXCEPT ![FileOf(w.body)] = Blank]
    /\ UNCHANGED <<schemas, overlapped, posts, restarts>>

\* A text over another one leaves the tail of a longer one.
WriteFile(w) ==
    /\ w \in saves /\ w.opened
    /\ saves' = saves \ {w}
    /\ \E text \in {w.body} \cup (IF files[FileOf(w.body)] = Blank THEN {} ELSE {Torn}) :
          files' = [files EXCEPT ![FileOf(w.body)] = text]
    /\ UNCHANGED <<schemas, overlapped, posts, restarts>>

\* The error that register logs.  What was opened is left as it is, or torn.
Fail(w) ==
    /\ w \in saves
    /\ saves' = saves \ {w}
    /\ \E text \in {files[FileOf(w.body)]} \cup (IF w.opened THEN {Torn} ELSE {}) :
          files' = [files EXCEPT ![FileOf(w.body)] = text]
    /\ overlapped' = IF w.opened THEN overlapped \cup {FileOf(w.body)} ELSE overlapped
    /\ UNCHANGED <<schemas, posts, restarts>>

-----------------------------------------------------------------------------
(***************************************************************************)
(* Restart.                                                                *)
(***************************************************************************)

Readable(id) == {f \in Files : f[1] = id /\ files[f] \notin Unreadable}

\* The Maps that come of one readable file for each of the NSIDs.
Read(ids) ==
    {[id \in ids \cup DOMAIN BuiltIns |->
         IF id \in ids THEN files[pick[id]].record ELSE BuiltIns[id]] :
        pick \in {p \in [ids -> Files] : \A id \in ids : p[id] \in Readable(id)}}

Cached == {id \in NSIDs \ DOMAIN BuiltIns : Readable(id) # {}}

\* Mutant of Loaded: a file that does not parse ends the loop.
LoadedUpToTorn == IF \E f \in Files : files[f] \in {Blank, Torn} THEN {BuiltIns} ELSE Read(Cached)

\* load(): what the Map may be.  Built-in schemas come first, and a file that
\* does not parse is skipped.
Loaded == Read(Cached)

RestartRegistry ==
    /\ restarts < MaxRestarts
    /\ restarts' = restarts + 1
    /\ overlapped' = overlapped \cup {FileOf(w.body) : w \in {v \in saves : v.opened}}
    /\ saves' = {}
    /\ schemas' \in Loaded
    /\ UNCHANGED <<files, posts>>

RegistryNext ==
    \/ \E s \in Posted : Refuse(s) \/ Register(s)
    \/ \E w \in saves : OpenFile(w) \/ WriteFile(w) \/ Fail(w)
    \/ RestartRegistry

RegistrySpec == RegistryInit /\ [][RegistryNext]_registryVars

-----------------------------------------------------------------------------
(***************************************************************************)
(* Properties.                                                             *)
(***************************************************************************)

\* Whatever is torn next to it, an NSID with a file that parses is known, in
\* some revision, and a file is torn only if a write of it was cut off,
\* failed or overlapped another one (load and save of schema-registry.ts).
FilesAreKnown ==
    \A f \in Files :
        /\ files[f] \notin Unreadable => f[1] \in DOMAIN schemas
        /\ files[f] \in {Blank, Torn} => f \in overlapped \/ \E w \in saves : FileOf(w.body) = f

\* What a daemon knows of schemas after any posts, failing writes and restarts.
SchemasHold == RegistryTypeOK /\ FilesAreKnown

\* What the documentation says and the code does not do.

\* Built-in schemas are resolved first (schema-registry.ts:5).
BuiltInsComeFirst == \A id \in DOMAIN BuiltIns : schemas[id] = BuiltIns[id]

\* Revisions of a schema grow (lexicon.ts:58), over restarts too.
RevisionsGrow ==
    [][\A f, g \in Files :
        (/\ f[1] = g[1] /\ f[1] \in DOMAIN schemas /\ f[1] \in DOMAIN schemas'
         /\ files[f] \notin Unreadable /\ files[g] \notin Unreadable
         /\ schemas[f[1]] = files[f].record /\ schemas'[f[1]] = files[g].record)
            => f[2].halves <= g[2].halves]_registryVars
=============================================================================
