-------------------------------- MODULE Mail --------------------------------
(***************************************************************************)
(* Mail from one daemon to another: POST /mail/send and sendMail with the  *)
(* outbox on one side, the mailbox protocol of the two engines             *)
(* (packages/engine/src/mailbox.rs), and the inbox with the handler that   *)
(* fills it on the other side (packages/core/src/mail-protocol.ts).        *)
(*                                                                         *)
(* Outbox and inbox are a map in memory and a JSON file that every change  *)
(* rewrites as a whole (packages/core/src/mail-store.ts).  writeFile first *)
(* truncates the file and then writes it, and nothing keeps two of them    *)
(* apart.                                                                  *)
(***************************************************************************)
EXTENDS Integers, FiniteSets

CONSTANTS
    Letters,        \* each is the body of one POST /mail/send
    ShortLived,     \* those whose time to live may be over on arrival
    MaxOffline,     \* bound on how often the recipient goes off-line
    MaxRestarts,    \* bound on restarts of a daemon
    MidWrite,       \* whether a restart comes in the middle of an operation
    Overlap,        \* whether operations on one store overlap
    MayFail         \* whether a write may fail, or an acknowledgement be lost

ASSUME MailAssumption ==
    /\ ShortLived \subseteq Letters
    /\ MaxOffline \in Nat
    /\ MaxRestarts \in Nat
    /\ MidWrite \in BOOLEAN
    /\ Overlap \in BOOLEAN
    /\ MayFail \in BOOLEAN

Stores  == {"outbox", "inbox"}
Entry   == [letter : Letters, status : {"pending", "sent", "received"}]
Ops     == [kind : {"save", "mark", "receive", "delete"}, letter : Letters]

StoreOf(o) == IF o.kind \in {"save", "mark"} THEN "outbox" ELSE "inbox"

VARIABLES
    post,           \* post[l]: where the POST is
    online,         \* the recipient can be dialled
    notified,       \* mail.received notifications on their way to the handler
    mem,            \* mem[s]: the map of the store
    file, form,     \* what its file holds, and whether it can be parsed
    write, export,  \* write[o]: how far the writeFile of an operation is, and
                    \* the text it writes
    handed,         \* history: the recipient's engine had it
    kept, deleted,  \* history: inbox operations that returned
    offline, restarts,
    spared          \* history: the stores that no failing write and no restart
                    \* in the middle of something has met

storeVars == <<mem, file, form, write, export>>
histVars  == <<handed, kept, deleted>>
faultVars == <<offline, restarts, spared>>
vars == <<post, online, notified, storeVars, histVars, faultVars>>

TypeOK ==
    /\ post \in [Letters -> {"idle", "saving", "sending", "marking", "ok",
                             "failed", "gone"}]
    /\ online \in BOOLEAN
    /\ notified \subseteq Letters
    /\ mem \in [Stores -> SUBSET Entry]
    /\ file \in [Stores -> SUBSET Entry]
    /\ form \in [Stores -> {"whole", "empty", "garbage"}]
    /\ write \in [Ops -> {"no", "mkdir", "exported", "opened"}]
    /\ export \in [Ops -> SUBSET Entry]
    /\ handed \subseteq Letters
    /\ kept \subseteq Letters
    /\ deleted \subseteq Letters
    /\ offline \in 0 .. MaxOffline
    /\ restarts \in 0 .. MaxRestarts
    /\ spared \subseteq Stores

Init ==
    /\ post = [l \in Letters |-> "idle"]
    /\ online = TRUE
    /\ notified = {}
    /\ mem = [s \in Stores |-> {}]
    /\ file = [s \in Stores |-> {}]
    /\ form = [s \in Stores |-> "whole"]
    /\ write = [o \in Ops |-> "no"]
    /\ export = [o \in Ops |-> {}]
    /\ handed = {}
    /\ kept = {}
    /\ deleted = {}
    /\ offline = 0
    /\ restarts = 0
    /\ spared = Stores

Busy(s) == \E o \in Ops : StoreOf(o) = s /\ write[o] # "no"

Op(kind, l)      == [kind |-> kind, letter |-> l]
Item(l, status)  == [letter |-> l, status |-> status]
Without(s, l)    == {e \in mem[s] : e.letter # l}

\* The map of the operation's store becomes entries, and persist() begins.
Change(o, entries) ==
    /\ Overlap \/ ~Busy(StoreOf(o))
    /\ mem' = [mem EXCEPT ![StoreOf(o)] = entries]
    /\ write' = [write EXCEPT ![o] = "mkdir"]
    /\ UNCHANGED <<file, form, export>>

-----------------------------------------------------------------------------
(***************************************************************************)
(* The sender.                                                             *)
(***************************************************************************)

\* sendMail records the letter before it is sent.
Post(l) ==
    /\ post[l] = "idle"
    /\ Change(Op("save", l), Without("outbox", l) \cup {Item(l, "pending")})
    /\ post' = [post EXCEPT ![l] = "saving"]
    /\ UNCHANGED <<online, notified, histVars, faultVars>>

\* Mutant of Delivered: it acknowledges a letter that it could not announce.
DeliveredUnannounced(l) ==
    /\ post[l] = "sending"
    /\ online
    /\ handed' = handed \cup {l}
    /\ Change(Op("mark", l), Without("outbox", l) \cup {Item(l, "sent")})
    /\ post' = [post EXCEPT ![l] = "marking"]
    /\ UNCHANGED <<online, notified, kept, deleted, faultVars>>

\* mail.send reached the recipient's engine, which notifies its daemon before
\* it acknowledges; updateStatus.
Delivered(l) ==
    /\ post[l] = "sending"
    /\ online
    /\ handed' = handed \cup {l}
    /\ notified' = notified \cup {l}
    /\ Change(Op("mark", l), Without("outbox", l) \cup {Item(l, "sent")})
    /\ post' = [post EXCEPT ![l] = "marking"]
    /\ UNCHANGED <<online, kept, deleted, faultVars>>

\* The same, but the acknowledgement does not come back.
AckLost(l) ==
    /\ MayFail
    /\ post[l] = "sending"
    /\ online
    /\ handed' = handed \cup {l}
    /\ notified' = notified \cup {l}
    /\ post' = [post EXCEPT ![l] = "failed"]
    /\ UNCHANGED <<online, storeVars, kept, deleted, faultVars>>

\* Mutant of Unreachable: the status is updated in any case.
UnreachableMarked(l) ==
    /\ post[l] = "sending"
    /\ ~online
    /\ post' = [post EXCEPT ![l] = "marking"]
    /\ Change(Op("mark", l), Without("outbox", l) \cup {Item(l, "sent")})
    /\ UNCHANGED <<online, notified, histVars, faultVars>>

\* The dial fails.  The letter stays in the outbox, where nothing looks for it.
Unreachable(l) ==
    /\ post[l] = "sending"
    /\ ~online
    /\ post' = [post EXCEPT ![l] = "failed"]
    /\ UNCHANGED <<online, notified, storeVars, histVars, faultVars>>

-----------------------------------------------------------------------------
(***************************************************************************)
(* The recipient.                                                          *)
(***************************************************************************)

\* The handler of mail.received stores the envelope.
Receive(l) ==
    /\ l \in notified
    /\ notified' = notified \ {l}
    /\ Change(Op("receive", l), mem["inbox"] \cup {Item(l, "received")})
    /\ UNCHANGED <<post, online, histVars, faultVars>>

Expired(l) ==
    /\ l \in notified \cap ShortLived
    /\ notified' = notified \ {l}
    /\ UNCHANGED <<post, online, storeVars, histVars, faultVars>>

\* Mutant of Delete: the message is only taken out of the map.
DeleteInMemory(l) ==
    /\ Item(l, "received") \in mem["inbox"]
    /\ mem' = [mem EXCEPT !["inbox"] = Without("inbox", l)]
    /\ kept' = kept \ {l}
    /\ deleted' = deleted \cup {l}
    /\ UNCHANGED <<post, online, notified, file, form, write, export, handed, faultVars>>

\* DELETE /mail/inbox/:id.
Delete(l) ==
    /\ Item(l, "received") \in mem["inbox"]
    /\ Change(Op("delete", l), Without("inbox", l))
    /\ kept' = kept \ {l}
    /\ UNCHANGED <<post, online, notified, handed, deleted, faultVars>>

-----------------------------------------------------------------------------
(***************************************************************************)
(* Writing a store.                                                        *)
(***************************************************************************)

\* The caller of persist() goes on.
Resume(o, ok) ==
    /\ write' = [write EXCEPT ![o] = "no"]
    /\ export' = [export EXCEPT ![o] = {}]
    /\ post' = CASE o.kind = "save" -> [post EXCEPT ![o.letter] =
                                            IF ok THEN "sending" ELSE "failed"]
                 [] o.kind = "mark" -> [post EXCEPT ![o.letter] =
                                            IF ok THEN "ok" ELSE "failed"]
                 [] OTHER -> post
    /\ kept' = IF o.kind = "receive" /\ ok /\ Item(o.letter, "received") \in mem["inbox"]
               THEN kept \cup {o.letter} ELSE kept
    /\ deleted' = IF o.kind = "delete" /\ ok THEN deleted \cup {o.letter} ELSE deleted

\* Mutant of Export: the caller does not wait for persist().
ExportUnawaited(o) ==
    /\ write[o] = "mkdir"
    /\ write' = [write EXCEPT ![o] = "no"]
    /\ UNCHANGED export
    /\ post' = CASE o.kind = "save" -> [post EXCEPT ![o.letter] = "sending"]
                 [] o.kind = "mark" -> [post EXCEPT ![o.letter] = "ok"]
                 [] OTHER -> post
    /\ kept' = IF o.kind = "receive" THEN kept \cup {o.letter} ELSE kept
    /\ deleted' = IF o.kind = "delete" THEN deleted \cup {o.letter} ELSE deleted
    /\ UNCHANGED <<online, notified, mem, file, form, handed, faultVars>>

\* mkdir is done, and the map is turned into text.
Export(o) ==
    /\ write[o] = "mkdir"
    /\ write' = [write EXCEPT ![o] = "exported"]
    /\ export' = [export EXCEPT ![o] = mem[StoreOf(o)]]
    /\ UNCHANGED <<post, online, notified, mem, file, form, histVars, faultVars>>

OpenFile(o) ==
    /\ write[o] = "exported"
    /\ write' = [write EXCEPT ![o] = "opened"]
    /\ file' = [file EXCEPT ![StoreOf(o)] = {}]
    /\ form' = [form EXCEPT ![StoreOf(o)] = "empty"]
    /\ UNCHANGED <<post, online, notified, mem, export, histVars, faultVars>>

\* Over what another call has put there since, a text that is not longer
\* leaves the end of the other one.
WriteText(o) ==
    /\ write[o] = "opened"
    /\ LET s == StoreOf(o) IN
        \/ /\ file' = [file EXCEPT ![s] = export[o]]
           /\ form' = [form EXCEPT ![s] = "whole"]
        \/ /\ form[s] = "garbage" \/ (form[s] = "whole" /\ file[s] # export[o])
           /\ file' = [file EXCEPT ![s] = {}]
           /\ form' = [form EXCEPT ![s] = "garbage"]
    /\ Resume(o, TRUE)
    /\ UNCHANGED <<online, notified, mem, handed, faultVars>>

WriteFails(o) ==
    /\ MayFail
    /\ write[o] = "opened"
    /\ form' = [form EXCEPT ![StoreOf(o)] = "garbage"]
    /\ Resume(o, FALSE)
    /\ spared' = spared \ {StoreOf(o)}
    /\ UNCHANGED <<online, notified, mem, file, handed, offline, restarts>>

-----------------------------------------------------------------------------
(***************************************************************************)
(* Restarts.                                                               *)
(***************************************************************************)

\* load(): a file that cannot be parsed is logged, and the store is empty.
Loaded(s) == IF form[s] = "whole" THEN file[s] ELSE {}

\* Nothing is under way that has to do with the store.
Idle(s) == ~Busy(s) /\ (s = "inbox" => notified = {})

Restarted(s) ==
    /\ MidWrite \/ Idle(s)
    /\ restarts < MaxRestarts
    /\ restarts' = restarts + 1
    /\ mem' = [mem EXCEPT ![s] = Loaded(s)]
    /\ write' = [o \in Ops |-> IF StoreOf(o) = s THEN "no" ELSE write[o]]
    /\ export' = [o \in Ops |-> IF StoreOf(o) = s THEN {} ELSE export[o]]
    /\ spared' = IF Idle(s) THEN spared ELSE spared \ {s}
    /\ UNCHANGED <<online, file, form, histVars, offline>>

\* The daemon of the sender, and its POSTs with it.
RestartSender ==
    /\ Restarted("outbox")
    /\ post' = [l \in Letters |->
                    IF post[l] \in {"saving", "sending", "marking"} THEN "gone"
                    ELSE post[l]]
    /\ UNCHANGED notified

\* The daemon of the recipient.
RestartRecipient ==
    /\ Restarted("inbox")
    /\ notified' = {}
    /\ UNCHANGED post

GoOffline ==
    /\ online
    /\ offline < MaxOffline
    /\ offline' = offline + 1
    /\ online' = FALSE
    /\ UNCHANGED <<post, notified, storeVars, histVars, restarts, spared>>

GoOnline ==
    /\ ~online
    /\ online' = TRUE
    /\ UNCHANGED <<post, notified, storeVars, histVars, faultVars>>

-----------------------------------------------------------------------------
Next ==
    \/ \E l \in Letters :
        \/ Post(l)
        \/ Delivered(l)
        \/ AckLost(l)
        \/ Unreachable(l)
        \/ Receive(l)
        \/ Expired(l)
        \/ Delete(l)
    \/ \E o \in Ops :
        \/ Export(o)
        \/ OpenFile(o)
        \/ WriteText(o)
        \/ WriteFails(o)
    \/ RestartSender
    \/ RestartRecipient
    \/ GoOffline
    \/ GoOnline

Spec == Init /\ [][Next]_vars

\* Calls of the engine end, handlers run, writes are done, and the recipient
\* comes back.
Fairness ==
    /\ \A l \in Letters :
        /\ WF_vars(Delivered(l) \/ AckLost(l) \/ Unreachable(l))
        /\ WF_vars(Receive(l) \/ Expired(l))
    /\ \A o \in Ops :
        WF_vars(Export(o) \/ OpenFile(o) \/ WriteText(o) \/ WriteFails(o))
    /\ WF_vars(GoOnline)

FairSpec == Spec /\ Fairness

-----------------------------------------------------------------------------
(***************************************************************************)
(* Properties.                                                             *)
(***************************************************************************)

\* A letter is listed as sent only if the recipient's engine had it, whatever
\* was restarted since.
SentWasHanded ==
    \A l \in Letters :
        Item(l, "sent") \in mem["outbox"] \cup file["outbox"] => l \in handed

\* What POST /mail/send said agrees with the outbox, restarts or not: a failure
\* says that the letter was "saved in outbox as pending".
OutboxAgrees ==
    "outbox" \in spared =>
        \A l \in Letters :
            /\ post[l] = "ok" => Item(l, "sent") \in mem["outbox"]
            /\ post[l] = "failed" => Item(l, "pending") \in mem["outbox"]

\* Inbox messages "survive daemon restarts", those between the writes.
KeptSurvives ==
    "inbox" \in spared => \A l \in kept : Item(l, "received") \in mem["inbox"]

\* A message whose deletion was confirmed does not come back.
DeletedStaysAway ==
    "inbox" \in spared => \A l \in deleted : Item(l, "received") \notin mem["inbox"]

\* What the recipient was told of a message holds, restarts or not.
InboxAgrees == TypeOK /\ KeptSurvives /\ DeletedStaysAway

\* Every POST is answered.
EveryPostReturns ==
    \A l \in Letters :
        post[l] \in {"saving", "sending", "marking"}
            ~> post[l] \in {"ok", "failed", "gone"}

\* The acknowledgement of the engine stands for the inbox: every letter that was
\* handed over gets there, unless it expired or something met the inbox.
HandedIsKept ==
    \A l \in Letters \ ShortLived :
        l \in handed ~> l \in kept \cup deleted \/ "inbox" \notin spared

\* Nobody waits for ever, neither who posts a letter nor who it is for.
MailMovesOn == EveryPostReturns /\ HandedIsKept

\* README: the daemon holds a letter for a recipient that is off-line and
\* delivers it the next time the two connect.
PendingArrives ==
    \A l \in Letters : Item(l, "pending") \in mem["outbox"] ~> l \in handed

=============================================================================
