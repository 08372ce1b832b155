------------------------------ MODULE Schemas -------------------------------
(***************************************************************************)
(* What the schemas of a daemon accept: packages/core/src/lexicon.ts and   *)
(* nsid.ts, the chunks that schema.ts accepts, and POST /schemas/validate. *)
(*                                                                         *)
(* A value is a record with its kind.  A string is its length, a number is *)
(* counted in halves, so that odd ones are no integers.  A field schema    *)
(* has its type and whichever of the optional parts it declares.           *)
(***************************************************************************)
EXTENDS SchemaRegistry

CONSTANT Inputs         \* data that POST /schemas/validate is given

Null          == [kind |-> "null"]
String(n)     == [kind |-> "string", size |-> n]
Number(h)     == [kind |-> "number", halves |-> h]
Bool          == [kind |-> "boolean"]
Array(s)      == [kind |-> "array", items |-> s]
Object(d)     == [kind |-> "object", data |-> d]

\* nsidMatches for a pattern that ends in ".*", the prefix is what is left.
MatchesUnder(nsid, prefix) ==
    Len(prefix) <= Len(nsid) /\ SubSeq(nsid, 1, Len(prefix)) = prefix

ChunkTypes == {"skill", "project", "context", "pattern", "result",
               "document", "schema", "thread", "blob-manifest", "profile"}

-----------------------------------------------------------------------------
(***************************************************************************)
(* Validation.                                                             *)
(***************************************************************************)

Declares(f, part) == part \in DOMAIN f

AtLeast(n, f, part) == Declares(f, part) => n >= f[part]

AtMost(n, f, part) == Declares(f, part) => n <= f[part]

\* validateField finds no error.  Null is left to the check of required
\* fields, and a reference is not followed.
RECURSIVE Fits(_, _)
Fits(v, f) ==
    \/ f.type \in {"unknown", "ref", "union"}
    \/ v = Null
    \/ /\ f.type = "string" /\ v.kind = "string"
       /\ AtLeast(v.size, f, "minLength") /\ AtMost(v.size, f, "maxLength")
       /\ Declares(f, "enum") => v \in f.enum
    \/ /\ f.type = "integer" /\ v.kind = "number" /\ v.halves % 2 = 0
       /\ AtLeast(v.halves \div 2, f, "minimum") /\ AtMost(v.halves \div 2, f, "maximum")
    \/ f.type = "boolean" /\ v.kind = "boolean"
    \/ f.type = "bytes" /\ v.kind = "string"
    \/ /\ f.type = "array" /\ v.kind = "array"
       /\ AtMost(Len(v.items), f, "maxItems")
       /\ Declares(f, "items") => \A i \in DOMAIN v.items : Fits(v.items[i], f.items)
    \/ /\ f.type = "object" /\ v.kind = "object"
       /\ Declares(f, "required") => f.required \subseteq DOMAIN v.data
       /\ Declares(f, "properties") =>
              \A k \in DOMAIN f.properties \cap DOMAIN v.data : Fits(v.data[k], f.properties[k])

\* Mutant of Conforms: a field that is not declared is refused.
ConformsClosed(data, record) ==
    /\ DOMAIN data \subseteq DOMAIN record.properties
    /\ record.required \subseteq DOMAIN data
    /\ \A k \in DOMAIN data : Fits(data[k], record.properties[k])

\* validateRecordData finds no error.
Conforms(data, record) ==
    /\ record.required \subseteq DOMAIN data
    /\ \A k \in DOMAIN record.properties \cap DOMAIN data : Fits(data[k], record.properties[k])

\* What validateChunk asks of the fields that the built-in schemas declare.
IsChunk(c) ==
    /\ c.type \in ChunkTypes
    /\ c.content.kind = "string" /\ c.content.size >= 1
    /\ c.topic.kind = "array" /\ Len(c.topic.items) >= 1
    /\ \A i \in DOMAIN c.topic.items : c.topic.items[i].kind = "string"
    /\ c.confidence.kind = "number" /\ c.confidence.halves \in 0 .. 2

\* POST /schemas/validate: a schema that is not known refuses nothing.
Validated(id, data) == id \notin DOMAIN schemas \/ Conforms(data, schemas[id])

-----------------------------------------------------------------------------
(***************************************************************************)
(* Properties.                                                             *)
(***************************************************************************)

\* The open world of lexicon.ts: data that a schema accepts it accepts with
\* fields added that it does not declare, whatever schema it is by then.
ExtraFieldsAreAllowed ==
    \A id \in NSIDs, data \in Inputs : Validated(id, data) =>
        Validated(id, ("undeclared" :> Null) @@ data)

\* Every chunk that validateChunk accepts, of a type that has a built-in
\* schema that nobody replaced and whole in its confidence, is data that the
\* schema of its type accepts.
ChunkInputs ==
    {c \in [type : ChunkTypes \ {"schema"}, content : {String(0), String(1), String(65536)},
            topic : {Array(<<>>), Array(<<String(1)>>), Array(<<String(1), Bool>>)},
            confidence : {Number(h) : h \in -1 .. 3}] : IsChunk(c)}

ChunkData(c) == [content |-> c.content, topic |-> c.topic, confidence |-> c.confidence]

BuiltInsTakeChunks ==
    \A c \in ChunkInputs : c.confidence.halves # 1 =>
        LET id == MemoryTypeNSID(c.type)
        IN  id \in DOMAIN BuiltIns /\ schemas[id] = BuiltIns[id]
                => Conforms(ChunkData(c), schemas[id])

\* What validation refuses it refuses for a field that is declared.
ValidationIsOpen == ExtraFieldsAreAllowed /\ BuiltInsTakeChunks

\* What the documentation says and the code does not do.

\* The schemas of net.subspace.* are compatible with the chunks (lexicon.ts:229).
BuiltInsTakeAllChunks ==
    \A c \in ChunkInputs :
        MemoryTypeNSID(c.type) \in DOMAIN BuiltIns
            => Conforms(ChunkData(c), BuiltIns[MemoryTypeNSID(c.type)])
=============================================================================
