----------------------------- MODULE PeersProofs -----------------------------
(***************************************************************************)
(* What agents ask of each other: letters, for any number of them, of      *)
(* restarts and of writes that fail, pages, for any number of agents and   *)
(* of requests under way at a time, and whichever engines die, and relays, *)
(* for any envelopes and any quotas.                                       *)
(***************************************************************************)
EXTENDS Mail, Browse, RelayStore, FiniteSetTheorems, SequenceTheorems, TLAPS

-----------------------------------------------------------------------------
(***************************************************************************)
(* Mail: operations, stores and the types of their contents.               *)
(***************************************************************************)

\* Whether an operation has yet to return.
Doing(o) == write[o] # "no"

LEMMA OpsAre ==
    /\ \A l \in Letters, kind \in {"save", "mark", "receive", "delete"} :
         /\ Op(kind, l) \in Ops
         /\ Op(kind, l).kind = kind /\ Op(kind, l).letter = l
         /\ StoreOf(Op(kind, l)) = IF kind \in {"save", "mark"} THEN "outbox" ELSE "inbox"
    /\ \A o \in Ops :
         /\ o.kind \in {"save", "mark", "receive", "delete"} /\ o.letter \in Letters
         /\ o = Op(o.kind, o.letter)
         /\ StoreOf(o) \in Stores
BY DEF Op, Ops, StoreOf, Stores

LEMMA ItemsAre ==
    /\ \A l \in Letters : \A status \in {"pending", "sent", "received"} :
         Item(l, status) \in Entry
    /\ \A l, m \in Letters, s, t \in {"pending", "sent", "received"} :
         Item(l, s) = Item(m, t) => l = m /\ s = t
BY DEF Item, Entry

LEMMA ChangeTyped ==
    ASSUME TypeOK, NEW o \in Ops, NEW entries \in SUBSET Entry, Change(o, entries)
    PROVE  /\ mem' \in [Stores -> SUBSET Entry]
           /\ write' \in [Ops -> {"no", "mkdir", "exported", "opened"}]
           /\ UNCHANGED <<file, form, export>>
BY DEF Change, TypeOK

LEMMA WithoutTyped ==
    ASSUME TypeOK, NEW s \in Stores, NEW l \in Letters
    PROVE  Without(s, l) \in SUBSET Entry
BY DEF Without, TypeOK

LEMMA ResumeTyped ==
    ASSUME TypeOK, NEW o \in Ops, NEW ok \in BOOLEAN, Resume(o, ok)
    PROVE  /\ write' \in [Ops -> {"no", "mkdir", "exported", "opened"}]
           /\ export' \in [Ops -> SUBSET Entry]
           /\ post' \in [Letters -> {"idle", "saving", "sending", "marking", "ok",
                                     "failed", "gone"}]
           /\ kept' \subseteq Letters /\ deleted' \subseteq Letters
<1>1. o.letter \in Letters
  BY OpsAre
<1>2. post' \in [Letters -> {"idle", "saving", "sending", "marking", "ok", "failed", "gone"}]
  <2>1. CASE o.kind = "save"
    BY <1>1, <2>1 DEF Resume, TypeOK
  <2>2. CASE o.kind = "mark"
    BY <1>1, <2>2 DEF Resume, TypeOK
  <2>3. CASE o.kind \notin {"save", "mark"}
    BY <2>3 DEF Resume, TypeOK
  <2> QED
    BY <2>1, <2>2, <2>3
<1> QED
  BY <1>1, <1>2 DEF Resume, TypeOK

LEMMA MailTyped == TypeOK /\ [Next]_vars => TypeOK'
<1> SUFFICES ASSUME TypeOK, [Next]_vars PROVE TypeOK'
  OBVIOUS
<1>1. ASSUME NEW l \in Letters, Post(l) PROVE TypeOK'
  <2>1. Without("outbox", l) \cup {Item(l, "pending")} \in SUBSET Entry
    BY WithoutTyped, ItemsAre DEF Stores
  <2>2. Change(Op("save", l), Without("outbox", l) \cup {Item(l, "pending")})
    BY <1>1 DEF Post
  <2>3. /\ mem' \in [Stores -> SUBSET Entry]
        /\ write' \in [Ops -> {"no", "mkdir", "exported", "opened"}]
        /\ UNCHANGED <<file, form, export>>
    BY <2>1, <2>2, ChangeTyped, OpsAre
  <2> QED
    BY <1>1, <2>3 DEF Post, TypeOK, histVars, faultVars
<1>2. ASSUME NEW l \in Letters, Delivered(l) PROVE TypeOK'
  <2>1. Without("outbox", l) \cup {Item(l, "sent")} \in SUBSET Entry
    BY WithoutTyped, ItemsAre DEF Stores
  <2>2. Change(Op("mark", l), Without("outbox", l) \cup {Item(l, "sent")})
    BY <1>2 DEF Delivered
  <2>3. /\ mem' \in [Stores -> SUBSET Entry]
        /\ write' \in [Ops -> {"no", "mkdir", "exported", "opened"}]
        /\ UNCHANGED <<file, form, export>>
    BY <2>1, <2>2, ChangeTyped, OpsAre
  <2> QED
    BY <1>2, <2>3 DEF Delivered, TypeOK, faultVars
<1>3. ASSUME NEW l \in Letters, AckLost(l) \/ Unreachable(l) PROVE TypeOK'
  BY <1>3 DEF AckLost, Unreachable, TypeOK, storeVars, histVars, faultVars
<1>4. ASSUME NEW l \in Letters, Receive(l) PROVE TypeOK'
  <2>1. mem["inbox"] \cup {Item(l, "received")} \in SUBSET Entry
    BY ItemsAre DEF TypeOK, Stores
  <2>2. Change(Op("receive", l), mem["inbox"] \cup {Item(l, "received")})
    BY <1>4 DEF Receive
  <2>3. /\ mem' \in [Stores -> SUBSET Entry]
        /\ write' \in [Ops -> {"no", "mkdir", "exported", "opened"}]
        /\ UNCHANGED <<file, form, export>>
    BY <2>1, <2>2, ChangeTyped, OpsAre
  <2> QED
    BY <1>4, <2>3 DEF Receive, TypeOK, histVars, faultVars
<1>5. ASSUME NEW l \in Letters, Expired(l) PROVE TypeOK'
  BY <1>5 DEF Expired, TypeOK, storeVars, histVars, faultVars
<1>6. ASSUME NEW l \in Letters, Delete(l) PROVE TypeOK'
  <2>1. Without("inbox", l) \in SUBSET Entry
    BY WithoutTyped DEF Stores
  <2>2. Change(Op("delete", l), Without("inbox", l))
    BY <1>6 DEF Delete
  <2>3. /\ mem' \in [Stores -> SUBSET Entry]
        /\ write' \in [Ops -> {"no", "mkdir", "exported", "opened"}]
        /\ UNCHANGED <<file, form, export>>
    BY <2>1, <2>2, ChangeTyped, OpsAre
  <2> QED
    BY <1>6, <2>3 DEF Delete, TypeOK, faultVars
<1>7. ASSUME NEW o \in Ops, Export(o) \/ OpenFile(o) PROVE TypeOK'
  <2>1. StoreOf(o) \in Stores
    BY OpsAre
  <2> QED
    BY <1>7, <2>1 DEF Export, OpenFile, TypeOK, histVars, faultVars
<1>8. ASSUME NEW o \in Ops, WriteText(o) \/ WriteFails(o) PROVE TypeOK'
  <2>1. StoreOf(o) \in Stores
    BY OpsAre
  <2>2. PICK ok \in BOOLEAN : Resume(o, ok)
    BY <1>8 DEF WriteText, WriteFails
  <2>3. file' \in [Stores -> SUBSET Entry] /\ form' \in [Stores -> {"whole", "empty", "garbage"}]
    BY <1>8, <2>1 DEF WriteText, WriteFails, TypeOK
  <2>4. UNCHANGED <<online, notified, mem, handed, offline, restarts>> /\ spared' \subseteq spared
    BY <1>8 DEF WriteText, WriteFails, faultVars
  <2> QED
    BY <2>2, <2>3, <2>4, ResumeTyped DEF TypeOK
<1>9. CASE RestartSender \/ RestartRecipient
  <2>1. PICK s \in Stores : Restarted(s)
    BY <1>9 DEF RestartSender, RestartRecipient, Stores
  <2>2. Loaded(s) \in SUBSET Entry
    BY DEF Loaded, TypeOK
  <2>3. restarts' \in 0 .. MaxRestarts
    BY <2>1, MailAssumption DEF Restarted, TypeOK
  <2>4. /\ mem' \in [Stores -> SUBSET Entry] /\ export' \in [Ops -> SUBSET Entry]
        /\ write' \in [Ops -> {"no", "mkdir", "exported", "opened"}]
        /\ spared' \subseteq spared
        /\ UNCHANGED <<online, file, form, histVars, offline>>
    BY <2>1, <2>2 DEF Restarted, TypeOK
  <2>5. /\ post' \in [Letters -> {"idle", "saving", "sending", "marking", "ok", "failed", "gone"}]
        /\ notified' \subseteq Letters
    BY <1>9 DEF RestartSender, RestartRecipient, TypeOK
  <2> QED
    BY <2>3, <2>4, <2>5 DEF TypeOK, histVars
<1>10. CASE GoOffline \/ GoOnline
  <2>1. offline' \in 0 .. MaxOffline
    BY <1>10, MailAssumption DEF GoOffline, GoOnline, TypeOK, faultVars
  <2> QED
    BY <1>10, <2>1 DEF GoOffline, GoOnline, TypeOK, storeVars, histVars, faultVars
<1>11. CASE UNCHANGED vars
  BY <1>11 DEF vars, storeVars, histVars, faultVars, TypeOK
<1> QED
  BY <1>1, <1>2, <1>3, <1>4, <1>5, <1>6, <1>7, <1>8, <1>9, <1>10, <1>11 DEF Next

LEMMA MailInitTyped == Init => TypeOK
BY MailAssumption DEF Init, TypeOK

-----------------------------------------------------------------------------
(***************************************************************************)
(* Mail: what is listed as sent.                                           *)
(***************************************************************************)

\* A letter is sent in the map of the outbox, in its file, or in a text that is
\* on its way there.
Listed(l) ==
    \/ Item(l, "sent") \in mem["outbox"] \cup file["outbox"]
    \/ \E o \in Ops : StoreOf(o) = "outbox" /\ Item(l, "sent") \in export[o]

\* The strengthening of SentWasHanded, which a write or a restart would break:
\* the text of an operation is older than the map.
SentInv == TypeOK /\ \A l \in Letters : Listed(l) => l \in handed

LEMMA SentStep == SentInv /\ [Next]_vars => SentInv'
<1> SUFFICES ASSUME SentInv, [Next]_vars PROVE SentInv'
  OBVIOUS
<1> USE DEF SentInv
<1>t. TypeOK'
  BY MailTyped
<1> SUFFICES ASSUME NEW l \in Letters, Listed(l)', l \notin handed' PROVE FALSE
  BY <1>t
<1>1. l \notin handed
  BY DEF Next, vars, storeVars, histVars, faultVars, Post, Delivered, AckLost, Unreachable,
         Receive, Expired, Delete, Export, OpenFile, WriteText, WriteFails, RestartSender,
         RestartRecipient, Restarted, GoOffline, GoOnline
<1>2. ~Listed(l)
  BY <1>1
<1>3. ASSUME mem'["outbox"] \subseteq mem["outbox"] \cup file["outbox"]
                 \/ Item(l, "sent") \notin mem'["outbox"],
             UNCHANGED <<file, export>>
      PROVE  FALSE
  BY <1>2, <1>3 DEF Listed
<1>4. ASSUME NEW m \in Letters, Post(m) PROVE FALSE
  <2>1. /\ mem' = [mem EXCEPT !["outbox"] = Without("outbox", m) \cup {Item(m, "pending")}]
        /\ UNCHANGED <<file, export>>
    BY <1>4, OpsAre DEF Post, Change
  <2>2. Item(l, "sent") # Item(m, "pending")
    BY ItemsAre
  <2> QED
    BY <1>2, <1>3, <2>1, <2>2 DEF Without, Listed, TypeOK, Stores
<1>5. ASSUME NEW m \in Letters, Delivered(m) PROVE FALSE
  <2>1. /\ mem' = [mem EXCEPT !["outbox"] = Without("outbox", m) \cup {Item(m, "sent")}]
        /\ UNCHANGED <<file, export>> /\ m \in handed'
    BY <1>5, OpsAre DEF Delivered, Change
  <2>2. Item(l, "sent") # Item(m, "sent")
    BY <2>1, ItemsAre
  <2> QED
    BY <1>2, <1>3, <2>1, <2>2 DEF Without, Listed, TypeOK, Stores
<1>6. ASSUME NEW m \in Letters, AckLost(m) \/ Unreachable(m) \/ Expired(m) PROVE FALSE
  BY <1>3, <1>6 DEF AckLost, Unreachable, Expired, storeVars
<1>7. ASSUME NEW m \in Letters, Receive(m) \/ Delete(m) PROVE FALSE
  <2>1. mem'["outbox"] = mem["outbox"] /\ UNCHANGED <<file, export>>
    BY <1>7, OpsAre DEF Receive, Delete, Change, TypeOK, Stores
  <2> QED
    BY <1>3, <2>1
<1>8. ASSUME NEW o \in Ops, Export(o) PROVE FALSE
  <2>1. /\ export' = [export EXCEPT ![o] = mem[StoreOf(o)]] /\ UNCHANGED <<mem, file>>
    BY <1>8 DEF Export
  <2> QED
    BY <1>2, <2>1 DEF Listed, TypeOK
<1>9. ASSUME NEW o \in Ops, OpenFile(o) PROVE FALSE
  <2>1. file' = [file EXCEPT ![StoreOf(o)] = {}] /\ UNCHANGED <<mem, export>>
    BY <1>9 DEF OpenFile
  <2> QED
    BY <1>2, <2>1 DEF Listed, TypeOK
<1>10. ASSUME NEW o \in Ops, WriteText(o) \/ WriteFails(o) PROVE FALSE
  <2>1. /\ file' \in {file, [file EXCEPT ![StoreOf(o)] = export[o]], [file EXCEPT ![StoreOf(o)] = {}]}
        /\ export' = [export EXCEPT ![o] = {}] /\ UNCHANGED mem
    BY <1>10 DEF WriteText, WriteFails, Resume
  <2>2. \/ Item(l, "sent") \notin file'["outbox"]
        \/ Item(l, "sent") \in file["outbox"]
        \/ StoreOf(o) = "outbox" /\ Item(l, "sent") \in export[o]
    BY <2>1, OpsAre DEF TypeOK, Stores
  <2>3. \A p \in Ops : Item(l, "sent") \in export'[p] => Item(l, "sent") \in export[p]
    BY <2>1 DEF TypeOK
  <2> QED
    BY <1>2, <2>1, <2>2, <2>3 DEF Listed
<1>11. CASE RestartSender \/ RestartRecipient
  <2>1. PICK s \in Stores : Restarted(s)
    BY <1>11 DEF RestartSender, RestartRecipient, Stores
  <2>2. /\ mem' = [mem EXCEPT ![s] = Loaded(s)] /\ Loaded(s) \in {file[s], {}}
        /\ export' = [o \in Ops |-> IF StoreOf(o) = s THEN {} ELSE export[o]]
        /\ UNCHANGED file
    BY <2>1 DEF Restarted, Loaded
  <2> QED
    BY <1>2, <2>2 DEF Listed, TypeOK
<1>12. CASE GoOffline \/ GoOnline \/ UNCHANGED vars
  BY <1>3, <1>12 DEF GoOffline, GoOnline, vars, storeVars
<1> QED
  BY <1>4, <1>5, <1>6, <1>7, <1>8, <1>9, <1>10, <1>11, <1>12 DEF Next

\* A letter that the outbox, or what a restart finds of it, lists as sent was
\* with the recipient's engine, for any number of letters, restarts and failing
\* writes, and whether or not operations on the store overlap.
THEOREM SentMeansHanded == Spec => []SentWasHanded
<1>1. Init => SentInv
  BY MailInitTyped DEF Init, SentInv, Listed, Stores
<1>2. SentInv => SentWasHanded
  BY DEF SentInv, SentWasHanded, Listed
<1> QED
  BY <1>1, <1>2, SentStep, PTL DEF Spec

-----------------------------------------------------------------------------
(***************************************************************************)
(* Mail: what a store and its file have to do with each other while its    *)
(* operations come one after the other.                                    *)
(***************************************************************************)

\* One operation at a time, whose text is what the map holds until it returns;
\* and between operations the file of a store that was spared is its map.
StoreInv ==
    /\ \A o, p \in Ops : Doing(o) /\ Doing(p) /\ StoreOf(o) = StoreOf(p) => o = p
    /\ \A o \in Ops :
         /\ write[o] \in {"exported", "opened"} => export[o] = mem[StoreOf(o)]
         /\ write[o] = "opened" => form[StoreOf(o)] = "empty"
    /\ \A s \in Stores : s \in spared /\ ~Busy(s) => form[s] = "whole" /\ file[s] = mem[s]

LEMMA ChangeKeepsStores ==
    ASSUME ~Overlap, TypeOK, StoreInv, NEW o \in Ops, NEW entries \in SUBSET Entry,
           Change(o, entries), spared' = spared
    PROVE  /\ StoreInv'
           /\ \A p \in Ops : Doing(p)' <=> Doing(p) \/ p = o
           /\ mem' = [mem EXCEPT ![StoreOf(o)] = entries]
<1>1. /\ \A p \in Ops : StoreOf(p) = StoreOf(o) => write[p] = "no"
      /\ mem' = [mem EXCEPT ![StoreOf(o)] = entries]
      /\ write' = [write EXCEPT ![o] = "mkdir"]
      /\ UNCHANGED <<file, form, export>>
  BY DEF Change, Busy
<1>2. \A p \in Ops : Doing(p)' <=> Doing(p) \/ p = o
  BY <1>1 DEF TypeOK, Doing
<1>3. \A p, q \in Ops : Doing(p)' /\ Doing(q)' /\ StoreOf(p) = StoreOf(q) => p = q
  BY <1>1, <1>2 DEF Doing, StoreInv
<1>4. ASSUME NEW p \in Ops, write'[p] \in {"exported", "opened"}
      PROVE  /\ write'[p] = write[p] /\ StoreOf(p) # StoreOf(o)
             /\ mem'[StoreOf(p)] = mem[StoreOf(p)]
  <2>1. p # o /\ write'[p] = write[p]
    BY <1>1, <1>4 DEF TypeOK
  <2>2. StoreOf(p) # StoreOf(o)
    BY <1>1, <1>4, <2>1
  <2> QED
    BY <1>1, <2>1, <2>2, OpsAre DEF TypeOK
<1>5. ASSUME NEW s \in Stores, s \in spared, ~Busy(s)'
      PROVE  form'[s] = "whole" /\ file'[s] = mem'[s]
  <2>1. s # StoreOf(o) /\ ~Busy(s)
    BY <1>1, <1>2, <1>5 DEF Busy, Doing
  <2> QED
    BY <1>1, <1>5, <2>1 DEF StoreInv, TypeOK
<1> QED
  BY <1>1, <1>2, <1>3, <1>4, <1>5 DEF StoreInv

LEMMA ExportKeepsStores ==
    ASSUME TypeOK, StoreInv, NEW o \in Ops, Export(o) \/ OpenFile(o)
    PROVE  /\ StoreInv' /\ UNCHANGED <<post, notified, mem, kept, deleted, spared>>
           /\ \A p \in Ops : Doing(p)' <=> Doing(p)
<1>1. /\ \/ write[o] = "mkdir" /\ write' = [write EXCEPT ![o] = "exported"]
            /\ export' = [export EXCEPT ![o] = mem[StoreOf(o)]] /\ UNCHANGED form
         \/ write[o] = "exported" /\ write' = [write EXCEPT ![o] = "opened"]
            /\ form' = [form EXCEPT ![StoreOf(o)] = "empty"] /\ UNCHANGED export
      /\ \A s \in Stores : s # StoreOf(o) => form'[s] = form[s] /\ file'[s] = file[s]
      /\ UNCHANGED <<post, notified, mem, kept, deleted, spared>>
  BY DEF Export, OpenFile, histVars, faultVars, TypeOK
<1>2. \A p \in Ops : /\ Doing(p)' <=> Doing(p)
                     /\ p # o => write'[p] = write[p] /\ export'[p] = export[p]
  BY <1>1 DEF Doing, TypeOK
<1>3. \A p \in Ops : write'[p] \in {"exported", "opened"} => export'[p] = mem'[StoreOf(p)]
  BY <1>1, <1>2 DEF StoreInv, TypeOK
<1>4. \A p \in Ops : p # o /\ Doing(p) => StoreOf(p) # StoreOf(o)
  BY <1>1 DEF StoreInv, Doing
<1>5. ASSUME NEW p \in Ops, write'[p] = "opened" PROVE form'[StoreOf(p)] = "empty"
  <2>1. CASE p = o
    BY <1>1, <1>5, <2>1, OpsAre DEF TypeOK
  <2>2. CASE p # o
    <3>1. StoreOf(p) # StoreOf(o) /\ form[StoreOf(p)] = "empty"
      BY <1>2, <1>4, <1>5, <2>2 DEF StoreInv, Doing
    <3> QED
      BY <1>1, <3>1, OpsAre
  <2> QED
    BY <2>1, <2>2
<1>6. ASSUME NEW s \in Stores, s \in spared, ~Busy(s)'
      PROVE  form'[s] = "whole" /\ file'[s] = mem'[s]
  <2>1. ~Busy(s) /\ s # StoreOf(o)
    BY <1>1, <1>2, <1>6 DEF Busy, Doing
  <2> QED
    BY <1>1, <1>6, <2>1 DEF StoreInv
<1> QED
  BY <1>1, <1>2, <1>3, <1>5, <1>6 DEF StoreInv

\* The write of an operation ends: nobody has touched the file meanwhile.
LEMMA EndKeepsStores ==
    ASSUME TypeOK, StoreInv, NEW o \in Ops, WriteText(o) \/ WriteFails(o)
    PROVE  /\ StoreInv' /\ UNCHANGED <<notified, mem>>
           /\ Doing(o) /\ \A p \in Ops : Doing(p)' <=> Doing(p) /\ p # o
           /\ \/ Resume(o, TRUE) /\ spared' = spared
              \/ Resume(o, FALSE) /\ spared' = spared \ {StoreOf(o)}
<1>1. /\ write[o] = "opened" /\ write' = [write EXCEPT ![o] = "no"]
      /\ export' = [export EXCEPT ![o] = {}]
      /\ \/ Resume(o, TRUE) /\ spared' = spared
         \/ Resume(o, FALSE) /\ spared' = spared \ {StoreOf(o)}
      /\ UNCHANGED <<notified, mem>>
      /\ \A s \in Stores : s # StoreOf(o) => form'[s] = form[s] /\ file'[s] = file[s]
  BY DEF WriteText, WriteFails, Resume, faultVars, TypeOK
<1>2. StoreOf(o) \in Stores /\ form[StoreOf(o)] = "empty" /\ export[o] = mem[StoreOf(o)]
  BY <1>1, OpsAre DEF StoreInv
<1>3. \/ StoreOf(o) \notin spared'
      \/ form'[StoreOf(o)] = "whole" /\ file'[StoreOf(o)] = mem[StoreOf(o)]
  BY <1>2 DEF WriteText, WriteFails, TypeOK
<1>4. \A p \in Ops : /\ Doing(p)' <=> Doing(p) /\ p # o
                     /\ p # o => write'[p] = write[p] /\ export'[p] = export[p]
  BY <1>1 DEF Doing, TypeOK
<1>5. Doing(o) /\ \A p \in Ops : p # o /\ Doing(p) => StoreOf(p) # StoreOf(o)
  BY <1>1 DEF StoreInv, Doing
<1>6. ASSUME NEW p \in Ops
      PROVE  /\ write'[p] \in {"exported", "opened"} => export'[p] = mem'[StoreOf(p)]
             /\ write'[p] = "opened" => form'[StoreOf(p)] = "empty"
  <2>1. CASE p = o
    BY <1>1, <2>1 DEF TypeOK
  <2>2. CASE p # o
    <3>1. write'[p] = write[p] /\ export'[p] = export[p]
      BY <1>4, <2>2
    <3>2. write[p] # "no" => StoreOf(p) \in Stores \ {StoreOf(o)}
      BY <1>5, <2>2, OpsAre DEF Doing
    <3> QED
      BY <1>1, <3>1, <3>2 DEF StoreInv
  <2> QED
    BY <2>1, <2>2
<1>7. ASSUME NEW s \in Stores, s \in spared', ~Busy(s)'
      PROVE  form'[s] = "whole" /\ file'[s] = mem'[s]
  <2>1. CASE s = StoreOf(o)
    BY <1>1, <1>3, <1>7, <2>1
  <2>2. CASE s # StoreOf(o)
    <3>1. ~Busy(s) /\ s \in spared
      BY <1>1, <1>4, <1>7, <2>2 DEF Busy, Doing
    <3> QED
      BY <1>1, <2>2, <3>1 DEF StoreInv
  <2> QED
    BY <2>1, <2>2
<1> QED
  BY <1>1, <1>4, <1>5, <1>6, <1>7 DEF StoreInv

\* A restart ends the operations of a store, and one that comes between them
\* finds in the file what the map had.
LEMMA RestartKeepsStores ==
    ASSUME TypeOK, StoreInv, NEW s \in Stores, Restarted(s)
    PROVE  /\ StoreInv' /\ UNCHANGED <<kept, deleted>>
           /\ spared' \subseteq spared
           /\ \A t \in Stores : t \in spared' => mem'[t] = mem[t]
           /\ s \in spared' => Idle(s)
           /\ \A p \in Ops : Doing(p)' <=> Doing(p) /\ StoreOf(p) # s
<1>1. /\ mem' = [mem EXCEPT ![s] = Loaded(s)]
      /\ write' = [p \in Ops |-> IF StoreOf(p) = s THEN "no" ELSE write[p]]
      /\ export' = [p \in Ops |-> IF StoreOf(p) = s THEN {} ELSE export[p]]
      /\ spared' = IF Idle(s) THEN spared ELSE spared \ {s}
      /\ UNCHANGED <<file, form, kept, deleted>>
  BY DEF Restarted, histVars
<1>2. \A p \in Ops : Doing(p)' <=> Doing(p) /\ StoreOf(p) # s
  BY <1>1 DEF Doing, TypeOK
<1>3. s \in spared' => Idle(s) /\ s \in spared /\ form[s] = "whole" /\ file[s] = mem[s]
  BY <1>1 DEF StoreInv, Idle
<1>4. \A t \in Stores : t \in spared' => mem'[t] = mem[t]
  BY <1>1, <1>3 DEF TypeOK, Loaded
<1>5. ASSUME NEW p \in Ops
      PROVE  /\ write'[p] \in {"exported", "opened"} => export'[p] = mem'[StoreOf(p)]
             /\ write'[p] = "opened" => form'[StoreOf(p)] = "empty"
  BY <1>1, OpsAre DEF StoreInv, TypeOK
<1>6. ASSUME NEW t \in Stores, t \in spared', ~Busy(t)'
      PROVE  form'[t] = "whole" /\ file'[t] = mem'[t]
  <2>1. CASE t = s
    BY <1>1, <1>3, <1>4, <1>6, <2>1
  <2>2. CASE t # s
    <3>1. ~Busy(t) /\ t \in spared
      BY <1>1, <1>2, <1>6, <2>2 DEF Busy, Doing
    <3> QED
      BY <1>1, <1>4, <1>6, <3>1 DEF StoreInv
  <2> QED
    BY <2>1, <2>2
<1> QED
  BY <1>1, <1>2, <1>3, <1>4, <1>5, <1>6 DEF StoreInv

\* The other steps leave the stores alone.
LEMMA QuietKeepsStores ==
    StoreInv /\ UNCHANGED <<storeVars, spared>> => StoreInv'
BY DEF StoreInv, storeVars, Doing, Busy

LEMMA StoreStep ==
    ~Overlap /\ TypeOK /\ StoreInv /\ [Next]_vars => StoreInv'
<1> SUFFICES ASSUME ~Overlap, TypeOK, StoreInv, [Next]_vars PROVE StoreInv'
  OBVIOUS
<1>1. ASSUME NEW l \in Letters, Post(l) \/ Delivered(l) \/ Receive(l) \/ Delete(l)
      PROVE  StoreInv'
  <2>1. PICK kind \in {"save", "mark", "receive", "delete"}, entries \in SUBSET Entry :
             Change(Op(kind, l), entries)
    <3>1. /\ Without("outbox", l) \cup {Item(l, "pending")} \in SUBSET Entry
          /\ Without("outbox", l) \cup {Item(l, "sent")} \in SUBSET Entry
          /\ mem["inbox"] \cup {Item(l, "received")} \in SUBSET Entry
          /\ Without("inbox", l) \in SUBSET Entry
      BY WithoutTyped, ItemsAre DEF TypeOK, Stores
    <3> QED
      BY <1>1, <3>1 DEF Post, Delivered, Receive, Delete
  <2>2. Op(kind, l) \in Ops /\ spared' = spared
    BY <1>1, OpsAre DEF Post, Delivered, Receive, Delete, faultVars
  <2> QED
    BY <2>1, <2>2, ChangeKeepsStores
<1>2. ASSUME NEW l \in Letters, AckLost(l) \/ Unreachable(l) \/ Expired(l)
      PROVE  StoreInv'
  BY <1>2, QuietKeepsStores DEF AckLost, Unreachable, Expired, faultVars
<1>3. ASSUME NEW o \in Ops, Export(o) \/ OpenFile(o) PROVE StoreInv'
  BY <1>3, ExportKeepsStores
<1>4. ASSUME NEW o \in Ops, WriteText(o) \/ WriteFails(o) PROVE StoreInv'
  BY <1>4, EndKeepsStores
<1>5. CASE RestartSender \/ RestartRecipient
  BY <1>5, RestartKeepsStores DEF RestartSender, RestartRecipient, Stores
<1>6. CASE GoOffline \/ GoOnline \/ UNCHANGED vars
  BY <1>6, QuietKeepsStores DEF GoOffline, GoOnline, vars, faultVars
<1> QED
  BY <1>1, <1>2, <1>3, <1>4, <1>5, <1>6 DEF Next

-----------------------------------------------------------------------------
(***************************************************************************)
(* Mail: what POST /mail/send said.                                        *)
(***************************************************************************)

\* The strengthening of OutboxAgrees: where a POST is tells which operation it
\* waits for, and what the map has of its letter.
OutboxInv ==
    /\ \A l \in Letters :
         /\ Doing(Op("save", l)) => post[l] = "saving"
         /\ Doing(Op("mark", l)) => post[l] = "marking"
    /\ "outbox" \in spared => \A l \in Letters :
         /\ post[l] \in {"saving", "sending", "failed"} => Item(l, "pending") \in mem["outbox"]
         /\ post[l] \in {"marking", "ok"} => Item(l, "sent") \in mem["outbox"]

\* The rewriting of one letter's entry leaves the others.
LEMMA OthersStay ==
    ASSUME TypeOK, NEW s \in Stores, NEW l \in Letters, NEW m \in Letters, l # m,
           NEW st \in {"pending", "sent", "received"}, Item(l, st) \in mem[s]
    PROVE  Item(l, st) \in Without(s, m)
BY DEF Without, Item

LEMMA OutboxStep ==
    ~Overlap /\ TypeOK /\ StoreInv /\ OutboxInv /\ [Next]_vars => OutboxInv'
<1> SUFFICES ASSUME ~Overlap, TypeOK, StoreInv, OutboxInv, [Next]_vars PROVE OutboxInv'
  OBVIOUS
<1>q. ASSUME UNCHANGED <<post, mem, write, spared>> PROVE OutboxInv'
  BY <1>q DEF OutboxInv, Doing
<1>1. ASSUME NEW l \in Letters, Post(l) PROVE OutboxInv'
  <2>1. /\ Change(Op("save", l), Without("outbox", l) \cup {Item(l, "pending")})
        /\ post[l] = "idle" /\ post' = [post EXCEPT ![l] = "saving"] /\ spared' = spared
    BY <1>1 DEF Post, faultVars
  <2>2. Without("outbox", l) \cup {Item(l, "pending")} \in SUBSET Entry
    BY WithoutTyped, ItemsAre DEF Stores
  <2>3. /\ \A p \in Ops : Doing(p)' <=> Doing(p) \/ p = Op("save", l)
        /\ mem' = [mem EXCEPT !["outbox"] = Without("outbox", l) \cup {Item(l, "pending")}]
    BY <2>1, <2>2, ChangeKeepsStores, OpsAre
  <2>4. mem'["outbox"] = Without("outbox", l) \cup {Item(l, "pending")}
    BY <2>3 DEF TypeOK, Stores
  <2>5. ASSUME NEW m \in Letters
        PROVE  /\ Doing(Op("save", m))' => post'[m] = "saving"
               /\ Doing(Op("mark", m))' => post'[m] = "marking"
    BY <2>1, <2>3, OpsAre DEF OutboxInv, TypeOK
  <2>6. ASSUME NEW m \in Letters, "outbox" \in spared'
        PROVE  /\ post'[m] \in {"saving", "sending", "failed"}
                     => Item(m, "pending") \in mem'["outbox"]
               /\ post'[m] \in {"marking", "ok"} => Item(m, "sent") \in mem'["outbox"]
    <3>1. CASE m = l
      BY <2>1, <2>4, <3>1 DEF TypeOK
    <3>2. CASE m # l
      BY <2>1, <2>4, <2>6, <3>2, OthersStay DEF OutboxInv, TypeOK, Stores
    <3> QED
      BY <3>1, <3>2
  <2> QED
    BY <2>5, <2>6 DEF OutboxInv
<1>2. ASSUME NEW l \in Letters, Delivered(l) PROVE OutboxInv'
  <2>1. /\ Change(Op("mark", l), Without("outbox", l) \cup {Item(l, "sent")})
        /\ post[l] = "sending" /\ post' = [post EXCEPT ![l] = "marking"] /\ spared' = spared
    BY <1>2 DEF Delivered, faultVars
  <2>2. Without("outbox", l) \cup {Item(l, "sent")} \in SUBSET Entry
    BY WithoutTyped, ItemsAre DEF Stores
  <2>3. /\ \A p \in Ops : Doing(p)' <=> Doing(p) \/ p = Op("mark", l)
        /\ mem' = [mem EXCEPT !["outbox"] = Without("outbox", l) \cup {Item(l, "sent")}]
    BY <2>1, <2>2, ChangeKeepsStores, OpsAre
  <2>4. mem'["outbox"] = Without("outbox", l) \cup {Item(l, "sent")}
    BY <2>3 DEF TypeOK, Stores
  <2>5. ASSUME NEW m \in Letters
        PROVE  /\ Doing(Op("save", m))' => post'[m] = "saving"
               /\ Doing(Op("mark", m))' => post'[m] = "marking"
    BY <2>1, <2>3, OpsAre DEF OutboxInv, TypeOK
  <2>6. ASSUME NEW m \in Letters, "outbox" \in spared'
        PROVE  /\ post'[m] \in {"saving", "sending", "failed"}
                     => Item(m, "pending") \in mem'["outbox"]
               /\ post'[m] \in {"marking", "ok"} => Item(m, "sent") \in mem'["outbox"]
    <3>1. CASE m = l
      BY <2>1, <2>4, <3>1 DEF TypeOK
    <3>2. CASE m # l
      BY <2>1, <2>4, <2>6, <3>2, OthersStay DEF OutboxInv, TypeOK, Stores
    <3> QED
      BY <3>1, <3>2
  <2> QED
    BY <2>5, <2>6 DEF OutboxInv
<1>3. ASSUME NEW l \in Letters, AckLost(l) \/ Unreachable(l) PROVE OutboxInv'
  <2>1. /\ post[l] = "sending" /\ post' = [post EXCEPT ![l] = "failed"]
        /\ UNCHANGED <<mem, write, spared>>
    BY <1>3 DEF AckLost, Unreachable, storeVars, faultVars
  <2> QED
    BY <2>1 DEF OutboxInv, Doing, TypeOK
<1>4. ASSUME NEW l \in Letters, Receive(l) \/ Delete(l) PROVE OutboxInv'
  <2>1. PICK kind \in {"receive", "delete"}, entries \in SUBSET Entry :
             Change(Op(kind, l), entries)
    BY <1>4, WithoutTyped, ItemsAre DEF Receive, Delete, TypeOK, Stores
  <2>2. UNCHANGED <<post, spared>>
    BY <1>4 DEF Receive, Delete, faultVars
  <2>3. /\ \A p \in Ops : Doing(p)' <=> Doing(p) \/ p = Op(kind, l)
        /\ mem' = [mem EXCEPT !["inbox"] = entries]
    BY <2>1, <2>2, ChangeKeepsStores, OpsAre
  <2>4. mem'["outbox"] = mem["outbox"]
    BY <2>3 DEF TypeOK, Stores
  <2>5. ASSUME NEW m \in Letters
        PROVE  /\ Doing(Op("save", m))' => Doing(Op("save", m))
               /\ Doing(Op("mark", m))' => Doing(Op("mark", m))
    BY <2>3, OpsAre
  <2> QED
    BY <2>2, <2>4, <2>5 DEF OutboxInv
<1>5. ASSUME NEW l \in Letters, Expired(l) PROVE OutboxInv'
  BY <1>5, <1>q DEF Expired, storeVars, faultVars
<1>6. ASSUME NEW o \in Ops, Export(o) \/ OpenFile(o) PROVE OutboxInv'
  BY <1>6, ExportKeepsStores, OpsAre DEF OutboxInv
<1>7. ASSUME NEW o \in Ops, WriteText(o) \/ WriteFails(o) PROVE OutboxInv'
  <2>1. /\ UNCHANGED mem /\ Doing(o) /\ \A p \in Ops : Doing(p)' <=> Doing(p) /\ p # o
        /\ \/ Resume(o, TRUE) /\ spared' = spared
           \/ Resume(o, FALSE) /\ spared' = spared \ {StoreOf(o)}
    BY <1>7, EndKeepsStores
  <2>2. CASE o.kind = "save"
    <3>1. o = Op("save", o.letter) /\ o.letter \in Letters /\ StoreOf(o) = "outbox"
      BY <2>2, OpsAre
    <3>2. \/ post' = [post EXCEPT ![o.letter] = "sending"] /\ spared' = spared
          \/ post' = [post EXCEPT ![o.letter] = "failed"] /\ "outbox" \notin spared'
      BY <2>1, <2>2, <3>1 DEF Resume
    <3>3. post[o.letter] = "saving" /\ ~Doing(Op("mark", o.letter))
      BY <2>1, <3>1 DEF OutboxInv
    <3> QED
      BY <2>1, <3>1, <3>2, <3>3, OpsAre DEF OutboxInv, TypeOK
  <2>3. CASE o.kind = "mark"
    <3>1. o = Op("mark", o.letter) /\ o.letter \in Letters /\ StoreOf(o) = "outbox"
      BY <2>3, OpsAre
    <3>2. \/ post' = [post EXCEPT ![o.letter] = "ok"] /\ spared' = spared
          \/ post' = [post EXCEPT ![o.letter] = "failed"] /\ "outbox" \notin spared'
      BY <2>1, <2>3, <3>1 DEF Resume
    <3>3. post[o.letter] = "marking" /\ ~Doing(Op("save", o.letter))
      BY <2>1, <3>1 DEF OutboxInv
    <3> QED
      BY <2>1, <3>1, <3>2, <3>3, OpsAre DEF OutboxInv, TypeOK
  <2>4. CASE o.kind \notin {"save", "mark"}
    <3>1. post' = post /\ ("outbox" \in spared' => "outbox" \in spared)
      BY <2>1, <2>4 DEF Resume
    <3> QED
      BY <2>1, <3>1, OpsAre DEF OutboxInv
  <2> QED
    BY <2>2, <2>3, <2>4
<1>8. CASE RestartSender
  <2>1. /\ "outbox" \in spared' => "outbox" \in spared /\ mem'["outbox"] = mem["outbox"]
        /\ \A p \in Ops : Doing(p)' <=> Doing(p) /\ StoreOf(p) # "outbox"
    BY <1>8, RestartKeepsStores DEF RestartSender, Stores
  <2>2. \A l \in Letters : post'[l] = IF post[l] \in {"saving", "sending", "marking"}
                                      THEN "gone" ELSE post[l]
    BY <1>8 DEF RestartSender
  <2> QED
    BY <2>1, <2>2, OpsAre DEF OutboxInv
<1>9. CASE RestartRecipient
  <2>1. /\ "outbox" \in spared' => "outbox" \in spared /\ mem'["outbox"] = mem["outbox"]
        /\ \A p \in Ops : Doing(p)' => Doing(p)
        /\ post' = post
    BY <1>9, RestartKeepsStores DEF RestartRecipient, Stores
  <2> QED
    BY <2>1, OpsAre DEF OutboxInv
<1>10. CASE GoOffline \/ GoOnline \/ UNCHANGED vars
  BY <1>10, <1>q DEF GoOffline, GoOnline, vars, storeVars, faultVars
<1> QED
  BY <1>1, <1>2, <1>3, <1>4, <1>5, <1>6, <1>7, <1>8, <1>9, <1>10 DEF Next

-----------------------------------------------------------------------------
(***************************************************************************)
(* Mail: what the recipient was told of a message.                         *)
(***************************************************************************)

\* No operation on the inbox has had to do with the letter.
Untouched(l) ==
    /\ Item(l, "received") \notin mem["inbox"]
    /\ l \notin kept \cup deleted
    /\ ~Doing(Op("receive", l)) /\ ~Doing(Op("delete", l))

\* The strengthening of InboxAgrees: a letter is sent once and announced once,
\* and so no second announcement brings back what was deleted.
InboxInv ==
    "inbox" \in spared => \A l \in Letters :
        /\ l \in notified \/ post[l] \in {"idle", "saving", "sending"} => Untouched(l)
        /\ post[l] \in {"idle", "saving", "sending"} => l \notin notified
        /\ l \in kept => Item(l, "received") \in mem["inbox"]
        /\ l \in deleted \/ Doing(Op("delete", l)) => Item(l, "received") \notin mem["inbox"]

LEMMA InboxStep ==
    ~Overlap /\ TypeOK /\ StoreInv /\ OutboxInv /\ InboxInv /\ [Next]_vars => InboxInv'
<1> SUFFICES ASSUME ~Overlap, TypeOK, StoreInv, OutboxInv, InboxInv, [Next]_vars,
                    "inbox" \in spared', NEW l \in Letters
             PROVE  /\ l \in notified' \/ post'[l] \in {"idle", "saving", "sending"}
                          => Untouched(l)'
                    /\ post'[l] \in {"idle", "saving", "sending"} => l \notin notified'
                    /\ l \in kept' => Item(l, "received") \in mem'["inbox"]
                    /\ l \in deleted' \/ Doing(Op("delete", l))'
                          => Item(l, "received") \notin mem'["inbox"]
  BY DEF InboxInv
<1> DEFINE Good == /\ l \in notified' \/ post'[l] \in {"idle", "saving", "sending"}
                         => Untouched(l)'
                   /\ post'[l] \in {"idle", "saving", "sending"} => l \notin notified'
                   /\ l \in kept' => Item(l, "received") \in mem'["inbox"]
                   /\ l \in deleted' \/ Doing(Op("delete", l))'
                         => Item(l, "received") \notin mem'["inbox"]
<1>0. /\ Op("receive", l) \in Ops /\ Op("delete", l) \in Ops
      /\ Op("receive", l) # Op("delete", l)
  BY DEF Op, Ops
\* Steps that leave the inbox alone, and announce nothing new.
<1>q. ASSUME "inbox" \in spared,
             mem'["inbox"] = mem["inbox"], UNCHANGED <<kept, deleted>>,
             \A p \in Ops : StoreOf(p) = "inbox" => (Doing(p)' <=> Doing(p)),
             l \in notified' => l \in notified,
             post'[l] \in {"idle", "saving", "sending"}
                => post[l] \in {"idle", "saving", "sending"}
      PROVE  Good
  <2>1. /\ Doing(Op("receive", l))' <=> Doing(Op("receive", l))
        /\ Doing(Op("delete", l))' <=> Doing(Op("delete", l))
    BY <1>q, OpsAre
  <2>2. Untouched(l) => Untouched(l)'
    BY <1>q, <2>1 DEF Untouched
  <2> QED
    BY <1>q, <2>1, <2>2 DEF InboxInv
<1>1. ASSUME NEW m \in Letters, Post(m) PROVE Good
  <2>1. /\ Change(Op("save", m), Without("outbox", m) \cup {Item(m, "pending")})
        /\ post[m] = "idle" /\ post' = [post EXCEPT ![m] = "saving"]
        /\ UNCHANGED <<notified, spared, kept, deleted>>
    BY <1>1 DEF Post, faultVars, histVars
  <2>2. Without("outbox", m) \cup {Item(m, "pending")} \in SUBSET Entry
    BY WithoutTyped, ItemsAre DEF Stores
  <2>3. /\ \A p \in Ops : Doing(p)' <=> Doing(p) \/ p = Op("save", m)
        /\ mem' = [mem EXCEPT !["outbox"] = Without("outbox", m) \cup {Item(m, "pending")}]
    BY <2>1, <2>2, ChangeKeepsStores, OpsAre
  <2>4. mem'["inbox"] = mem["inbox"]
    BY <2>3 DEF TypeOK, Stores
  <2>5. \A p \in Ops : StoreOf(p) = "inbox" => (Doing(p)' <=> Doing(p))
    BY <2>3, OpsAre
  <2>6. (post'[l] = "saving" /\ l = m) \/ post'[l] = post[l]
    BY <2>1 DEF TypeOK
  <2> QED
    BY <1>q, <2>1, <2>4, <2>5, <2>6
<1>2. ASSUME NEW m \in Letters, Delivered(m) PROVE Good
  <2>1. /\ Change(Op("mark", m), Without("outbox", m) \cup {Item(m, "sent")})
        /\ post[m] = "sending" /\ post' = [post EXCEPT ![m] = "marking"]
        /\ notified' = notified \cup {m}
        /\ UNCHANGED <<spared, kept, deleted>>
    BY <1>2 DEF Delivered, faultVars
  <2>2. Without("outbox", m) \cup {Item(m, "sent")} \in SUBSET Entry
    BY WithoutTyped, ItemsAre DEF Stores
  <2>3. /\ \A p \in Ops : Doing(p)' <=> Doing(p) \/ p = Op("mark", m)
        /\ mem' = [mem EXCEPT !["outbox"] = Without("outbox", m) \cup {Item(m, "sent")}]
    BY <2>1, <2>2, ChangeKeepsStores, OpsAre
  <2>4. mem'["inbox"] = mem["inbox"]
    BY <2>3 DEF TypeOK, Stores
  <2>5. \A p \in Ops : StoreOf(p) = "inbox" => (Doing(p)' <=> Doing(p))
    BY <2>3, OpsAre
  <2>6. CASE l = m
    <3>1. Untouched(l) /\ Untouched(l)'
      BY <2>1, <2>4, <2>5, <2>6, OpsAre DEF InboxInv, Untouched
    <3>2. post'[l] = "marking"
      BY <2>1, <2>6 DEF TypeOK
    <3> QED
      BY <3>1, <3>2 DEF Untouched
  <2>7. CASE l # m
    BY <1>q, <2>1, <2>4, <2>5, <2>7 DEF TypeOK
  <2> QED
    BY <2>6, <2>7
<1>3. ASSUME NEW m \in Letters, AckLost(m) PROVE Good
  <2>1. /\ post[m] = "sending" /\ post' = [post EXCEPT ![m] = "failed"]
        /\ notified' = notified \cup {m}
        /\ UNCHANGED <<mem, write, spared, kept, deleted>>
    BY <1>3 DEF AckLost, faultVars, storeVars
  <2>2. CASE l = m
    <3>1. Untouched(l) /\ Untouched(l)'
      BY <2>1, <2>2 DEF InboxInv, Untouched, Doing
    <3>2. post'[l] = "failed"
      BY <2>1, <2>2 DEF TypeOK
    <3> QED
      BY <3>1, <3>2 DEF Untouched
  <2>3. CASE l # m
    BY <1>q, <2>1, <2>3 DEF TypeOK, Doing
  <2> QED
    BY <2>2, <2>3
<1>4. ASSUME NEW m \in Letters, Unreachable(m) \/ Expired(m) PROVE Good
  <2>1. /\ UNCHANGED <<mem, write, spared, kept, deleted>> /\ notified' \subseteq notified
        /\ post' = post \/ post' = [post EXCEPT ![m] = "failed"]
    BY <1>4 DEF Unreachable, Expired, faultVars, storeVars, histVars
  <2> QED
    BY <1>q, <2>1 DEF TypeOK, Doing
<1>5. ASSUME NEW m \in Letters, Receive(m) PROVE Good
  <2>1. /\ Change(Op("receive", m), mem["inbox"] \cup {Item(m, "received")})
        /\ m \in notified /\ notified' = notified \ {m}
        /\ UNCHANGED <<post, spared, kept, deleted>>
    BY <1>5 DEF Receive, faultVars, histVars
  <2>2. mem["inbox"] \cup {Item(m, "received")} \in SUBSET Entry
    BY ItemsAre DEF TypeOK, Stores
  <2>3. /\ \A p \in Ops : Doing(p)' <=> Doing(p) \/ p = Op("receive", m)
        /\ mem' = [mem EXCEPT !["inbox"] = mem["inbox"] \cup {Item(m, "received")}]
    BY <2>1, <2>2, ChangeKeepsStores, OpsAre
  <2>4. mem'["inbox"] = mem["inbox"] \cup {Item(m, "received")}
    BY <2>3 DEF TypeOK, Stores
  <2>5. Untouched(m) /\ post[m] \notin {"idle", "saving", "sending"}
    BY <2>1 DEF InboxInv
  <2>6. CASE l = m
    <3>1. ~Doing(Op("delete", l))'
      BY <1>0, <2>3, <2>5, <2>6, OpsAre DEF Untouched
    <3> QED
      BY <2>1, <2>4, <2>5, <2>6, <3>1, ItemsAre DEF Untouched
  <2>7. CASE l # m
    <3>1. Item(l, "received") \in mem'["inbox"] <=> Item(l, "received") \in mem["inbox"]
      BY <2>4, <2>7, ItemsAre
    <3>2. /\ Doing(Op("delete", l))' <=> Doing(Op("delete", l))
          /\ Doing(Op("receive", l))' <=> Doing(Op("receive", l))
      BY <1>0, <2>3, <2>7, OpsAre
    <3> QED
      BY <2>1, <2>7, <3>1, <3>2 DEF InboxInv, Untouched
  <2> QED
    BY <2>6, <2>7
<1>6. ASSUME NEW m \in Letters, Delete(m) PROVE Good
  <2>1. /\ Change(Op("delete", m), Without("inbox", m))
        /\ Item(m, "received") \in mem["inbox"] /\ kept' = kept \ {m}
        /\ UNCHANGED <<post, notified, spared, deleted>>
    BY <1>6 DEF Delete, faultVars
  <2>2. Without("inbox", m) \in SUBSET Entry
    BY WithoutTyped DEF Stores
  <2>3. /\ \A p \in Ops : Doing(p)' <=> Doing(p) \/ p = Op("delete", m)
        /\ mem' = [mem EXCEPT !["inbox"] = Without("inbox", m)]
    BY <2>1, <2>2, ChangeKeepsStores, OpsAre
  <2>4. mem'["inbox"] = Without("inbox", m)
    BY <2>3 DEF TypeOK, Stores
  <2>5. CASE l = m
    <3>1. Item(l, "received") \notin mem'["inbox"]
      BY <2>4, <2>5 DEF Without, Item
    <3>2. l \notin notified /\ post[l] \notin {"idle", "saving", "sending"}
      BY <2>1, <2>5 DEF InboxInv, Untouched
    <3> QED
      BY <2>1, <2>5, <3>1, <3>2
  <2>6. CASE l # m
    <3>1. Item(l, "received") \in mem'["inbox"] <=> Item(l, "received") \in mem["inbox"]
      BY <2>4, <2>6 DEF Without, Item
    <3>2. /\ Doing(Op("delete", l))' <=> Doing(Op("delete", l))
          /\ Doing(Op("receive", l))' <=> Doing(Op("receive", l))
      BY <1>0, <2>3, <2>6, OpsAre
    <3> QED
      BY <2>1, <2>6, <3>1, <3>2 DEF InboxInv, Untouched
  <2> QED
    BY <2>5, <2>6
<1>7. ASSUME NEW o \in Ops, Export(o) \/ OpenFile(o) PROVE Good
  BY <1>7, <1>q, ExportKeepsStores
<1>8. ASSUME NEW o \in Ops, WriteText(o) \/ WriteFails(o) PROVE Good
  <2>1. /\ UNCHANGED <<notified, mem>> /\ Doing(o)
        /\ \A p \in Ops : Doing(p)' <=> Doing(p) /\ p # o
        /\ \/ Resume(o, TRUE) /\ spared' = spared
           \/ Resume(o, FALSE) /\ spared' = spared \ {StoreOf(o)}
    BY <1>8, EndKeepsStores
  <2>2. o.letter \in Letters /\ o = Op(o.kind, o.letter)
    BY OpsAre
  <2>3. CASE o.kind \in {"save", "mark"}
    <3>1. StoreOf(o) = "outbox" /\ UNCHANGED <<kept, deleted>> /\ "inbox" \in spared
      BY <2>1, <2>3, OpsAre DEF Resume
    <3>2. CASE o.kind = "save"
      <4>1. post[o.letter] = "saving" /\ \E now \in {"sending", "failed"} :
                post' = [post EXCEPT ![o.letter] = now]
        BY <2>1, <2>2, <3>2 DEF OutboxInv, Resume
      <4> QED
        BY <1>q, <2>1, <2>2, <3>1, <4>1 DEF TypeOK
    <3>3. CASE o.kind = "mark"
      <4>1. \E now \in {"ok", "failed"} : post' = [post EXCEPT ![o.letter] = now]
        BY <2>1, <3>3 DEF Resume
      <4> QED
        BY <1>q, <2>1, <2>2, <3>1, <4>1 DEF TypeOK
    <3> QED
      BY <2>3, <3>2, <3>3
  <2>4. CASE o.kind \in {"receive", "delete"}
    <3>1. StoreOf(o) = "inbox" /\ Resume(o, TRUE) /\ spared' = spared
      <4>1. StoreOf(o) = "inbox"
        BY <2>2, <2>4 DEF StoreOf
      <4> QED
        BY <2>1, <4>1
    <3>2. /\ UNCHANGED post
          /\ kept' = IF o.kind = "receive" /\ Item(o.letter, "received") \in mem["inbox"]
                     THEN kept \cup {o.letter} ELSE kept
          /\ deleted' = IF o.kind = "delete" THEN deleted \cup {o.letter} ELSE deleted
      BY <2>4, <3>1 DEF Resume
    <3>3. CASE l = o.letter
      <4>1. ~Untouched(l)
        BY <2>1, <2>2, <2>4, <3>3 DEF Untouched
      <4>2. l \notin notified /\ post[l] \notin {"idle", "saving", "sending"}
        BY <3>1, <4>1 DEF InboxInv
      <4>3. l \in kept' => Item(l, "received") \in mem'["inbox"]
        BY <2>1, <3>1, <3>2, <3>3 DEF InboxInv
      <4>4. l \in deleted' \/ Doing(Op("delete", l))' => l \in deleted \/ Doing(Op("delete", l))
        BY <1>0, <2>1, <2>2, <3>2, <3>3
      <4> QED
        BY <2>1, <3>1, <3>2, <4>2, <4>3, <4>4 DEF InboxInv
    <3>4. CASE l # o.letter
      <4>1. /\ l \in kept' <=> l \in kept
            /\ l \in deleted' <=> l \in deleted
        BY <3>2, <3>4
      <4>2. /\ Doing(Op("delete", l))' <=> Doing(Op("delete", l))
            /\ Doing(Op("receive", l))' <=> Doing(Op("receive", l))
        BY <1>0, <2>1, <3>4, OpsAre
      <4>3. Untouched(l) => Untouched(l)'
        BY <2>1, <4>1, <4>2 DEF Untouched
      <4> QED
        BY <2>1, <3>1, <3>2, <4>1, <4>2, <4>3 DEF InboxInv
    <3> QED
      BY <3>3, <3>4
  <2> QED
    BY <2>2, <2>3, <2>4, OpsAre
<1>9. CASE RestartSender
  <2>1. /\ "inbox" \in spared /\ mem'["inbox"] = mem["inbox"] /\ UNCHANGED <<kept, deleted>>
        /\ \A p \in Ops : Doing(p)' <=> Doing(p) /\ StoreOf(p) # "outbox"
    BY <1>9, RestartKeepsStores DEF RestartSender, Stores
  <2>2. UNCHANGED notified /\ post'[l] \in {post[l], "gone"}
    BY <1>9 DEF RestartSender
  <2> QED
    BY <1>q, <2>1, <2>2
<1>10. CASE RestartRecipient
  <2>1. /\ "inbox" \in spared /\ mem'["inbox"] = mem["inbox"] /\ UNCHANGED <<kept, deleted>>
        /\ Idle("inbox") /\ \A p \in Ops : Doing(p)' <=> Doing(p) /\ StoreOf(p) # "inbox"
    BY <1>10, RestartKeepsStores DEF RestartRecipient, Stores
  <2>2. \A p \in Ops : StoreOf(p) = "inbox" => ~Doing(p)
    BY <2>1 DEF Idle, Busy, Doing
  <2>3. notified' = {} /\ UNCHANGED post
    BY <1>10 DEF RestartRecipient
  <2> QED
    BY <1>q, <2>1, <2>2, <2>3
<1>11. CASE GoOffline \/ GoOnline \/ UNCHANGED vars
  <2>1. UNCHANGED <<post, notified, mem, write, kept, deleted, spared>>
    BY <1>11 DEF GoOffline, GoOnline, vars, storeVars, histVars, faultVars
  <2> QED
    BY <1>q, <2>1 DEF Doing
<1> QED
  BY <1>1, <1>2, <1>3, <1>4, <1>5, <1>6, <1>7, <1>8, <1>9, <1>10, <1>11 DEF Next

MailInv == TypeOK /\ StoreInv /\ OutboxInv /\ InboxInv

LEMMA MailHolds == ~Overlap => (Spec => []MailInv)
<1> SUFFICES ASSUME ~Overlap PROVE Spec => []MailInv
  OBVIOUS
<1>1. Init => MailInv
  <2> SUFFICES ASSUME Init PROVE MailInv
    OBVIOUS
  <2>1. TypeOK
    BY MailInitTyped
  <2>2. \A o \in Ops : ~Doing(o) /\ write[o] = "no"
    BY DEF Init, Doing
  <2>3. StoreInv
    BY <2>2 DEF Init, StoreInv, Stores
  <2>4. OutboxInv
    BY <2>2, OpsAre DEF Init, OutboxInv
  <2>5. InboxInv
    BY <2>2, OpsAre DEF Init, InboxInv, Untouched, Stores
  <2> QED
    BY <2>1, <2>3, <2>4, <2>5 DEF MailInv
<1>2. MailInv /\ [Next]_vars => MailInv'
  BY MailTyped, StoreStep, OutboxStep, InboxStep DEF MailInv
<1> QED
  BY <1>1, <1>2, PTL DEF Spec

\* While no two operations on a store overlap, what POST /mail/send answered
\* agrees with the outbox, restarts between the operations or not.  (When they
\* overlap it need not: see the finding on MailOverlap.cfg.)
THEOREM AnswersAgreeWithOutbox ==
    ASSUME ~Overlap
    PROVE  Spec => []OutboxAgrees
<1>1. MailInv => OutboxAgrees
  BY DEF MailInv, OutboxInv, OutboxAgrees
<1> QED
  BY <1>1, MailHolds, PTL

\* Under the same assumption, a message that was stored stays until it is
\* deleted, and one that was deleted stays away, restarts between the operations
\* or not.
THEOREM InboxHolds ==
    ASSUME ~Overlap
    PROVE  Spec => []InboxAgrees
<1>1. MailInv => InboxAgrees
  BY DEF MailInv, InboxInv, InboxAgrees, KeptSurvives, DeletedStaysAway, TypeOK, Stores
<1> QED
  BY <1>1, MailHolds, PTL

-----------------------------------------------------------------------------
(***************************************************************************)
(* Browse: what one agent answers is for the request it answers.           *)
(***************************************************************************)

\* The nanoseconds at which two requests are made differ.
DistinctIds == \A v, w \in Visits : IdOf[v] = IdOf[w] => v = w

\* Of the lines s, one at most is the request for a visit, and it waits.
Asked(where, s) ==
    /\ \A i \in DOMAIN s : s[i].kind = "from" => where[s[i].visit] = "asked"
    /\ \A i, j \in DOMAIN s :
          s[i].kind = "from" /\ s[j].kind = "from" /\ s[i].visit = s[j].visit => i = j

\* The map has the tasks that wait, engines wait for their own requests, and
\* what a task has written, or a GET answered, is for the request it serves.  A
\* visit is asked for once, and its task comes after that.
AnswersInv ==
    /\ BrowseAgrees
    /\ \A v \in Visits : task[v] = "served" => answer[v] \in {{Page(v)}, {EmptyPage}}
    /\ \A n \in Agents : Asked(visit, lines[n])
    /\ \A v \in Visits : visit[v] \in {"none", "asked"} => task[v] = "none"

-----------------------------------------------------------------------------
(***************************************************************************)
(* Sets of entries.                                                        *)
(***************************************************************************)

LEMMA KeyedAdds ==
    ASSUME NEW vs \in SUBSET Visits, NEW v \in Visits
    PROVE  Keyed(vs) \cup {<<IdOf[v], v>>} = Keyed(vs \cup {v})
BY DEF Keyed

\* With distinct ids, the entry for the id of a request is its own.
LEMMA EntryIsOwn ==
    ASSUME DistinctIds, NEW n \in Agents, NEW v \in Visits,
           pendingBrowse[n] = Keyed(Waiting(n))
    PROVE  /\ Woken(Entries(n, IdOf[v])) = Waiting(n) \cap {v}
           /\ pendingBrowse[n] \ Entries(n, IdOf[v]) = Keyed(Waiting(n) \ {v})
<1>1. Entries(n, IdOf[v]) = Keyed(Waiting(n) \cap {v})
  <2>1. ASSUME NEW e, e \in Entries(n, IdOf[v]) PROVE e \in Keyed(Waiting(n) \cap {v})
    <3>1. PICK w \in Waiting(n) : e = <<IdOf[w], w>>
      BY <2>1 DEF Entries, Keyed
    <3>2. IdOf[w] = IdOf[v]
      BY <2>1, <3>1 DEF Entries
    <3>3. w = v
      BY <3>2 DEF DistinctIds, Waiting
    <3> QED BY <3>1, <3>3 DEF Keyed
  <2>2. ASSUME NEW e, e \in Keyed(Waiting(n) \cap {v}) PROVE e \in Entries(n, IdOf[v])
    BY <2>2 DEF Entries, Keyed
  <2> QED BY <2>1, <2>2
<1>2. Woken(Keyed(Waiting(n) \cap {v})) = Waiting(n) \cap {v}
  <2>1. ASSUME NEW w, w \in Woken(Keyed(Waiting(n) \cap {v})) PROVE w \in Waiting(n) \cap {v}
    BY <2>1 DEF Woken, Keyed
  <2>2. ASSUME NEW w \in Waiting(n) \cap {v} PROVE w \in Woken(Keyed(Waiting(n) \cap {v}))
    <3>1. <<IdOf[w], w>> \in Keyed(Waiting(n) \cap {v}) /\ <<IdOf[w], w>>[2] = w
      BY DEF Keyed
    <3> QED BY <3>1 DEF Woken
  <2> QED BY <2>1, <2>2
<1>3. Keyed(Waiting(n)) \ Keyed(Waiting(n) \cap {v}) = Keyed(Waiting(n) \ {v})
  <2>1. ASSUME NEW e, e \in Keyed(Waiting(n)), e \notin Keyed(Waiting(n) \cap {v})
        PROVE  e \in Keyed(Waiting(n) \ {v})
    BY <2>1 DEF Keyed
  <2>2. ASSUME NEW e, e \in Keyed(Waiting(n) \ {v})
        PROVE  e \in Keyed(Waiting(n)) /\ e \notin Keyed(Waiting(n) \cap {v})
    BY <2>2 DEF Keyed
  <2> QED BY <2>1, <2>2
<1> QED
  BY <1>1, <1>2, <1>3

-----------------------------------------------------------------------------
(***************************************************************************)
(* Lines of stdin.                                                         *)
(***************************************************************************)

LEMMA LineFacts ==
    ASSUME NEW n \in Agents, NEW line \in LinesOf(n)
    PROVE  /\ line.visit \in Visits
           /\ line.kind = "from" => line.visit.from = n
           /\ line.page \in {Page(line.visit), EmptyPage}
BY DEF LinesOf, From, RespondWith

LEMMA TakenLines ==
    ASSUME BrowseTypeOK, NEW n \in Agents, NEW kind, Takes(n, kind)
    PROVE  /\ Head(lines[n]) \in LinesOf(n)
           /\ Tail(lines[n]) \in Seq(LinesOf(n))
BY DEF BrowseTypeOK, Takes

LEMMA AskedAppend ==
    ASSUME NEW L, NEW s \in Seq(L), NEW where, Asked(where, s), NEW e,
           e.kind = "from" => /\ where[e.visit] = "asked"
                              /\ \A i \in DOMAIN s : s[i].kind = "from" => s[i].visit # e.visit
    PROVE  Asked(where, Append(s, e))
<1>1. /\ DOMAIN Append(s, e) = 1 .. Len(s) + 1
      /\ DOMAIN s = 1 .. Len(s)
      /\ \A i \in 1 .. Len(s) : Append(s, e)[i] = s[i]
      /\ Append(s, e)[Len(s) + 1] = e
      /\ Len(s) \in Nat
  OBVIOUS
<1>2. \A i \in DOMAIN Append(s, e) : i \in DOMAIN s \/ i = Len(s) + 1
  BY <1>1
<1> QED
  BY <1>1, <1>2 DEF Asked

LEMMA AskedTail ==
    ASSUME NEW L, NEW s \in Seq(L), s # <<>>, NEW where, Asked(where, s)
    PROVE  /\ Asked(where, Tail(s))
           /\ Head(s).kind = "from" =>
                /\ where[Head(s).visit] = "asked"
                /\ \A i \in DOMAIN Tail(s) : Tail(s)[i].kind = "from" => Tail(s)[i].visit # Head(s).visit
<1>1. /\ 1 \in DOMAIN s /\ Head(s) = s[1]
      /\ DOMAIN Tail(s) \subseteq Nat \ {0}
      /\ \A i \in DOMAIN Tail(s) : i + 1 \in DOMAIN s /\ Tail(s)[i] = s[i + 1]
  OBVIOUS
<1>2. \A i, j \in DOMAIN Tail(s) : i + 1 # 1 /\ (i + 1 = j + 1 => i = j)
  BY <1>1
<1> QED
  BY <1>1, <1>2 DEF Asked

LEMMA AskedElsewhere ==
    ASSUME NEW s, NEW where, NEW there, Asked(where, s),
           \A i \in DOMAIN s : s[i].kind = "from" => there[s[i].visit] = where[s[i].visit]
    PROVE  Asked(there, s)
BY DEF Asked

LEMMA LineVisits ==
    ASSUME BrowseTypeOK, NEW n \in Agents, NEW i \in DOMAIN lines[n]
    PROVE  /\ lines[n][i].visit \in Visits
           /\ lines[n][i].kind = "from" => lines[n][i].visit.from = n
<1>1. lines[n][i] \in LinesOf(n)
  BY DEF BrowseTypeOK
<1> QED
  BY <1>1, LineFacts

-----------------------------------------------------------------------------
(***************************************************************************)
(* The steps.                                                              *)
(***************************************************************************)

\* A step that changes neither tasks, maps nor answers, and no GET that is done.
LEMMA QuietStep ==
    ASSUME AnswersInv, BrowseTypeOK', UNCHANGED <<task, answer, pendingBrowse>>,
           \A n \in Agents : \A v \in busy'[n] : v.from = n /\ visit'[v] = "sent",
           \A n \in Agents : Asked(visit', lines'[n]),
           \A v \in Visits :
               /\ visit'[v] = "done" => visit[v] = "done" \/ task[v] = "served"
               /\ visit'[v] \in {"none", "asked"} => visit[v] \in {"none", "asked"}
    PROVE  AnswersInv'
BY DEF AnswersInv, BrowseAgrees, Waiting, Keyed

\* A step in which tasks stop to wait, or begin, and what they write is right.
LEMMA TaskStep ==
    ASSUME AnswersInv, BrowseTypeOK',
           \A n \in Agents : pendingBrowse'[n] = Keyed(Waiting(n)'),
           \A n \in Agents : \A v \in busy'[n] : v.from = n /\ visit'[v] = "sent",
           \A n \in Agents : Asked(visit', lines'[n]),
           \A v \in Visits :
               /\ visit'[v] = "done" => visit[v] = "done"
               /\ visit'[v] \in {"none", "asked"} => task'[v] = "none"
               /\ task'[v] = "served" => task[v] = "served" \/ answer'[v] \in {{Page(v)}, {EmptyPage}}
               /\ answer'[v] = answer[v] \/ answer'[v] \in {{Page(v)}, {EmptyPage}}
    PROVE  AnswersInv'
<1>1. \A n \in Agents : Keyed(Waiting(n))' = Keyed(Waiting(n)')
  BY DEF Keyed
<1> QED
  BY <1>1 DEF AnswersInv, BrowseAgrees

LEMMA GetStep == ASSUME AnswersInv, NEW v \in Visits, Get(v) PROVE AnswersInv'
<1>1. v.from \in Agents /\ From(v) \in LinesOf(v.from)
  BY BrowseAssumption DEF LinesOf
<1>2. BrowseTypeOK'
  BY <1>1 DEF AnswersInv, BrowseAgrees, BrowseTypeOK, Get
<1>3. \A n \in Agents : \A i \in DOMAIN lines[n] :
          lines[n][i].kind = "from" =>
              /\ lines[n][i].visit # v
              /\ visit'[lines[n][i].visit] = visit[lines[n][i].visit]
  BY LineVisits DEF AnswersInv, BrowseAgrees, BrowseTypeOK, Get, Asked
<1>4. \A n \in Agents : Asked(visit', lines[n])
  BY <1>3, AskedElsewhere DEF AnswersInv
<1>5. ASSUME NEW n \in Agents PROVE Asked(visit', lines'[n])
  <2>1. CASE lines'[n] = lines[n]
    BY <2>1, <1>4
  <2>2. CASE n = v.from /\ running[v.from]
    <3>1. From(v).kind = "from" /\ From(v).visit = v /\ visit'[v] = "asked"
      BY <2>2 DEF From, Get, AnswersInv, BrowseAgrees, BrowseTypeOK
    <3>2. lines[n] \in Seq(LinesOf(n)) /\ lines'[n] = Append(lines[n], From(v))
      BY <2>2 DEF Get, AnswersInv, BrowseAgrees, BrowseTypeOK
    <3> QED
      BY <1>3, <1>4, <3>1, <3>2, AskedAppend
  <2> QED
    BY <2>1, <2>2 DEF Get, AnswersInv, BrowseAgrees, BrowseTypeOK
<1> QED
  BY <1>2, <1>5, QuietStep DEF AnswersInv, BrowseAgrees, BrowseTypeOK, Get

LEMMA TakeAnswerStep == ASSUME AnswersInv, NEW v \in Visits, TakeAnswer(v) PROVE AnswersInv'
<1>1. BrowseTypeOK'
  BY BrowseAssumption DEF AnswersInv, BrowseAgrees, BrowseTypeOK, TakeAnswer
<1>2. \A n \in Agents : \A w \in busy'[n] : w.from = n /\ visit'[w] = "sent"
  <2> SUFFICES ASSUME NEW n \in Agents, NEW w \in busy'[n]
               PROVE  w.from = n /\ visit'[w] = "sent"
    OBVIOUS
  <2>1. n # v.from /\ w \in busy[n]
    BY DEF AnswersInv, BrowseAgrees, BrowseTypeOK, TakeAnswer
  <2>2. w \in Visits /\ w.from = n /\ visit[w] = "sent"
    BY <2>1 DEF AnswersInv, BrowseAgrees, BrowseTypeOK
  <2> QED
    BY <2>1, <2>2 DEF AnswersInv, BrowseAgrees, BrowseTypeOK, TakeAnswer
<1>3. \A w \in Visits : visit'[w] = "done" => visit[w] = "done" \/ task[w] = "served"
  BY DEF AnswersInv, BrowseAgrees, BrowseTypeOK, TakeAnswer
<1>4. ASSUME NEW n \in Agents PROVE Asked(visit', lines'[n])
  <2>1. \A i \in DOMAIN lines[n] :
            lines[n][i].kind = "from" => visit'[lines[n][i].visit] = visit[lines[n][i].visit]
    BY LineVisits DEF AnswersInv, BrowseAgrees, BrowseTypeOK, TakeAnswer, Asked
  <2> QED
    BY <2>1, AskedElsewhere DEF AnswersInv, TakeAnswer
<1>5. \A w \in Visits : visit'[w] \in {"none", "asked"} => visit[w] \in {"none", "asked"}
  BY DEF AnswersInv, BrowseAgrees, BrowseTypeOK, TakeAnswer
<1> QED
  BY <1>1, <1>2, <1>3, <1>4, <1>5, QuietStep DEF TakeAnswer

LEMMA NotifyStep == ASSUME AnswersInv, NEW n \in Agents, Notify(n) PROVE AnswersInv'
<1>1. BrowseTypeOK'
  BY DEF AnswersInv, BrowseAgrees, BrowseTypeOK, Notify
<1>2. UNCHANGED <<task, answer, pendingBrowse, visit, busy, lines>>
  BY DEF Notify
<1>3. \A m \in Agents : Asked(visit', lines'[m])
  BY <1>2 DEF AnswersInv
<1> QED
  BY <1>1, <1>2, <1>3, QuietStep DEF AnswersInv, BrowseAgrees

LEMMA RespondStep ==
    ASSUME AnswersInv, NEW n \in Agents, NEW v \in heard[n], Respond(n, v)
    PROVE  AnswersInv'
<1>1. v \in Visits /\ RespondWith(v, Page(v)) \in LinesOf(n)
  BY DEF AnswersInv, BrowseAgrees, BrowseTypeOK, LinesOf
<1>2. BrowseTypeOK'
  BY <1>1 DEF AnswersInv, BrowseAgrees, BrowseTypeOK, Respond
<1>3. ASSUME NEW m \in Agents PROVE Asked(visit', lines'[m])
  <2>1. lines'[m] \in {lines[m], Append(lines[m], RespondWith(v, Page(v)))}
    BY DEF AnswersInv, BrowseAgrees, BrowseTypeOK, Respond
  <2>2. RespondWith(v, Page(v)).kind # "from"
    BY DEF RespondWith
  <2>3. lines[m] \in Seq(LinesOf(m)) /\ Asked(visit, lines[m]) /\ visit' = visit
    BY DEF AnswersInv, BrowseAgrees, BrowseTypeOK, Respond
  <2> QED
    BY <2>1, <2>2, <2>3, AskedAppend
<1>4. UNCHANGED <<task, answer, pendingBrowse, visit, busy>>
  BY DEF Respond
<1> QED
  BY <1>2, <1>3, <1>4, QuietStep DEF AnswersInv, BrowseAgrees

LEMMA TakeFromStep == ASSUME AnswersInv, NEW n \in Agents, TakeFrom(n) PROVE AnswersInv'
<1> DEFINE v == Head(lines[n]).visit
<1>1. /\ v \in Visits /\ v.from = n /\ v.to \in Agents
      /\ lines[n] \in Seq(LinesOf(n)) /\ lines[n] # <<>>
      /\ Tail(lines[n]) \in Seq(LinesOf(n))
      /\ busy[n] = {}
      /\ Head(lines[n]).kind = "from"
  <2>1. Takes(n, "from")
    BY DEF TakeFrom
  <2>2. Head(lines[n]) \in LinesOf(n) /\ Tail(lines[n]) \in Seq(LinesOf(n))
    BY <2>1, TakenLines DEF AnswersInv, BrowseAgrees
  <2> QED
    BY <2>1, <2>2, LineFacts, BrowseAssumption DEF Takes, AnswersInv, BrowseAgrees, BrowseTypeOK
<1>2. /\ Asked(visit, Tail(lines[n]))
      /\ visit[v] = "asked" /\ task[v] = "none"
      /\ \A i \in DOMAIN Tail(lines[n]) : Tail(lines[n])[i].kind = "from" => Tail(lines[n])[i].visit # v
  BY <1>1, AskedTail DEF AnswersInv
<1> HIDE DEF v
<1>3. /\ lines' = [lines EXCEPT ![n] = Tail(@)]
      /\ UNCHANGED <<answer, notices, heard, pendingBrowse, running>>
      /\ \/ /\ visit' = [visit EXCEPT ![v] = "sent"]
            /\ task' = [task EXCEPT ![v] = "dialled"]
            /\ busy' = [busy EXCEPT ![n] = {v}]
         \/ /\ visit' = [visit EXCEPT ![v] = "failed"]
            /\ UNCHANGED <<task, busy>>
  BY DEF TakeFrom, v
<1>4. BrowseTypeOK'
  <2>1. visit' \in [Visits -> {"none", "asked", "sent", "done", "failed"}]
    BY <1>1, <1>3 DEF AnswersInv, BrowseAgrees, BrowseTypeOK
  <2>2. task' \in [Visits -> {"none", "dialled", "waiting", "served"}]
    BY <1>1, <1>3 DEF AnswersInv, BrowseAgrees, BrowseTypeOK
  <2>3. busy' \in [Agents -> SUBSET Visits]
    <3>1. {v} \in SUBSET Visits /\ busy \in [Agents -> SUBSET Visits]
      BY <1>1 DEF AnswersInv, BrowseAgrees, BrowseTypeOK
    <3> QED
      BY <1>3, <3>1
  <2>4. DOMAIN lines' = Agents /\ \A m \in Agents : lines'[m] \in Seq(LinesOf(m))
    BY <1>1, <1>3 DEF AnswersInv, BrowseAgrees, BrowseTypeOK
  <2> QED
    BY <1>3, <2>1, <2>2, <2>3, <2>4 DEF AnswersInv, BrowseAgrees, BrowseTypeOK
<1>5. \A m \in Agents : Waiting(m)' = Waiting(m)
  BY <1>1, <1>2, <1>3 DEF Waiting, AnswersInv, BrowseAgrees, BrowseTypeOK
<1>6. ASSUME NEW m \in Agents, NEW w \in busy'[m] PROVE w.from = m /\ visit'[w] = "sent"
  <2>1. CASE m = n
    BY <1>1, <1>3, <1>6, <2>1 DEF AnswersInv, BrowseAgrees, BrowseTypeOK
  <2>2. CASE m # n
    <3>1. w \in busy[m]
      BY <1>3, <1>6, <2>2 DEF AnswersInv, BrowseAgrees, BrowseTypeOK
    <3>2. w \in Visits /\ w.from = m /\ visit[w] = "sent"
      BY <3>1 DEF AnswersInv, BrowseAgrees, BrowseTypeOK
    <3> QED
      BY <1>2, <1>3, <3>2 DEF AnswersInv, BrowseAgrees, BrowseTypeOK
  <2> QED
    BY <2>1, <2>2
<1>7. ASSUME NEW m \in Agents PROVE Asked(visit', lines'[m])
  <2>1. CASE m = n
    <3>1. lines'[m] = Tail(lines[n])
      BY <1>3, <2>1 DEF AnswersInv, BrowseAgrees, BrowseTypeOK
    <3>2. \A w \in Visits \ {v} : visit'[w] = visit[w]
      BY <1>1, <1>3 DEF AnswersInv, BrowseAgrees, BrowseTypeOK
    <3>3. \A i \in DOMAIN Tail(lines[n]) : Tail(lines[n])[i].kind = "from" =>
              visit'[Tail(lines[n])[i].visit] = visit[Tail(lines[n])[i].visit]
      <4>1. \A i \in DOMAIN Tail(lines[n]) : Tail(lines[n])[i] \in LinesOf(n)
        BY <1>1
      <4>2. \A i \in DOMAIN Tail(lines[n]) : Tail(lines[n])[i].visit \in Visits
        BY <4>1, LineFacts
      <4> QED
        BY <1>2, <3>2, <4>2
    <3> QED
      BY <1>2, <3>1, <3>3, AskedElsewhere
  <2>2. CASE m # n
    <3>1. \A i \in DOMAIN lines[m] : lines[m][i].kind = "from" =>
              visit'[lines[m][i].visit] = visit[lines[m][i].visit]
      BY <1>1, <1>3, <2>2, LineVisits DEF AnswersInv, BrowseAgrees, BrowseTypeOK
    <3> QED
      BY <1>3, <2>2, <3>1, AskedElsewhere DEF AnswersInv, BrowseAgrees, BrowseTypeOK
  <2> QED
    BY <2>1, <2>2
<1>8. \A w \in Visits :
          /\ visit'[w] = "done" => visit[w] = "done"
          /\ visit'[w] \in {"none", "asked"} => task'[w] = "none"
          /\ task'[w] = "served" => task[w] = "served"
  BY <1>1, <1>3 DEF AnswersInv, BrowseAgrees, BrowseTypeOK
<1>9. \A m \in Agents : pendingBrowse'[m] = Keyed(Waiting(m)')
  BY <1>3, <1>5 DEF AnswersInv, BrowseAgrees
<1> QED
  BY <1>3, <1>4, <1>6, <1>7, <1>8, <1>9, TaskStep

LEMMA AcceptStep ==
    ASSUME AnswersInv, DistinctIds, NEW v \in Visits, Accept(v)
    PROVE  AnswersInv'
<1>1. v.to \in Agents
  BY BrowseAssumption
<1>2. v \notin Waiting(v.to) /\ task[v] = "dialled"
  BY DEF Accept, Waiting
<1>3. Woken(Entries(v.to, IdOf[v])) = {}
  BY <1>1, <1>2, EntryIsOwn DEF AnswersInv, BrowseAgrees
<1>4. pendingBrowse[v.to] \ Entries(v.to, IdOf[v]) = Keyed(Waiting(v.to))
  BY <1>1, <1>2, EntryIsOwn DEF AnswersInv, BrowseAgrees
<1>5. /\ pendingBrowse' = [pendingBrowse EXCEPT ![v.to] = Keyed(Waiting(v.to)) \cup {<<IdOf[v], v>>}]
      /\ task' = [w \in Visits |-> IF w = v THEN "waiting" ELSE task[w]]
      /\ answer' = [w \in Visits |-> answer[w]]
      /\ notices' = [notices EXCEPT ![v.to] = Append(@, v)]
      /\ UNCHANGED <<visit, busy, lines, heard, running>>
  BY <1>3, <1>4 DEF Accept, AnswersInv, BrowseAgrees, BrowseTypeOK
<1>6. BrowseTypeOK'
  BY <1>1, <1>5 DEF AnswersInv, BrowseAgrees, BrowseTypeOK
<1>7. ASSUME NEW n \in Agents PROVE pendingBrowse'[n] = Keyed(Waiting(n)')
  <2>1. CASE n = v.to
    <3>1. Waiting(n)' = Waiting(n) \cup {v}
      BY <1>5, <2>1 DEF Waiting
    <3>2. pendingBrowse'[n] = Keyed(Waiting(n)) \cup {<<IdOf[v], v>>}
      BY <1>1, <1>5, <2>1 DEF AnswersInv, BrowseAgrees, BrowseTypeOK
    <3>3. Waiting(n) \in SUBSET Visits
      BY DEF Waiting
    <3> QED
      BY <3>1, <3>2, <3>3, KeyedAdds
  <2>2. CASE n # v.to
    <3>1. Waiting(n)' = Waiting(n)
      BY <1>2, <1>5, <2>2 DEF Waiting
    <3>2. pendingBrowse'[n] = pendingBrowse[n]
      BY <1>5, <2>2 DEF AnswersInv, BrowseAgrees, BrowseTypeOK
    <3> QED
      BY <3>1, <3>2 DEF AnswersInv, BrowseAgrees
  <2> QED
    BY <2>1, <2>2
<1>8. \A n \in Agents : Asked(visit', lines'[n])
  BY <1>5 DEF AnswersInv
<1>9. \A w \in Visits :
          /\ visit'[w] \in {"none", "asked"} => task'[w] = "none"
          /\ task'[w] = "served" => task[w] = "served"
          /\ answer'[w] = answer[w]
  BY <1>2, <1>5 DEF AnswersInv
<1> QED
  BY <1>5, <1>6, <1>7, <1>8, <1>9, TaskStep DEF AnswersInv, BrowseAgrees

\* An answer to the task of one request, if it still waits.
LEMMA ServeStep ==
    ASSUME AnswersInv, DistinctIds, BrowseTypeOK',
           NEW n \in Agents, NEW v \in Visits,
           NEW page \in {Page(v), EmptyPage}, NEW vs \in SUBSET {v},
           Waiting(n) \cap {v} \subseteq vs, \A w \in vs : task[w] = "waiting" /\ w.to = n,
           pendingBrowse' = [pendingBrowse EXCEPT ![n] = Keyed(Waiting(n) \ {v})],
           Serve(vs, page),
           UNCHANGED <<visit, busy>>,
           \A m \in Agents : Asked(visit, lines'[m])
    PROVE  AnswersInv'
<1>1. ASSUME NEW m \in Agents PROVE pendingBrowse'[m] = Keyed(Waiting(m)')
  <2>1. CASE m = n
    <3>1. Waiting(n)' = Waiting(n) \ {v}
      BY DEF Waiting, Serve
    <3>2. pendingBrowse'[n] = Keyed(Waiting(n) \ {v})
      BY DEF AnswersInv, BrowseAgrees, BrowseTypeOK
    <3> QED
      BY <2>1, <3>1, <3>2
  <2>2. CASE m # n
    <3>1. Waiting(m)' = Waiting(m)
      BY <2>2 DEF Waiting, Serve
    <3>2. pendingBrowse'[m] = pendingBrowse[m]
      BY <2>2 DEF AnswersInv, BrowseAgrees, BrowseTypeOK
    <3> QED
      BY <3>1, <3>2 DEF AnswersInv, BrowseAgrees
  <2> QED
    BY <2>1, <2>2
<1>2. \A w \in Visits :
          /\ w \in vs => w = v /\ task[w] = "waiting" /\ task'[w] = "served" /\ answer'[w] = {page}
          /\ w \notin vs => task'[w] = task[w] /\ answer'[w] = answer[w]
  BY DEF Serve
<1>3. \A w \in Visits :
          /\ visit'[w] \in {"none", "asked"} => task'[w] = "none"
          /\ task'[w] = "served" => task[w] = "served" \/ answer'[w] \in {{Page(w)}, {EmptyPage}}
          /\ answer'[w] = answer[w] \/ answer'[w] \in {{Page(w)}, {EmptyPage}}
  BY <1>2 DEF AnswersInv
<1>4. \A m \in Agents : Asked(visit', lines'[m])
  OBVIOUS
<1>5. \A m \in Agents : \A w \in busy'[m] : w.from = m /\ visit'[w] = "sent"
  BY DEF AnswersInv, BrowseAgrees
<1>6. \A w \in Visits : visit'[w] = "done" => visit[w] = "done"
  OBVIOUS
<1> QED
  BY <1>1, <1>3, <1>4, <1>5, <1>6, TaskStep

LEMMA TakeRespondStep ==
    ASSUME AnswersInv, DistinctIds, NEW n \in Agents, TakeRespond(n)
    PROVE  AnswersInv'
<1> DEFINE line == Head(lines[n])
           v    == line.visit
           vs   == Waiting(n) \cap {v}
<1>1. /\ v \in Visits /\ line.page \in {Page(v), EmptyPage}
      /\ lines[n] \in Seq(LinesOf(n)) /\ lines[n] # <<>>
      /\ Tail(lines[n]) \in Seq(LinesOf(n))
  <2>1. Takes(n, "respond")
    BY DEF TakeRespond
  <2>2. line \in LinesOf(n) /\ Tail(lines[n]) \in Seq(LinesOf(n))
    BY <2>1, TakenLines DEF AnswersInv, BrowseAgrees
  <2> QED
    BY <2>1, <2>2, LineFacts DEF Takes, AnswersInv, BrowseAgrees, BrowseTypeOK
<1>2. Asked(visit, Tail(lines[n]))
  BY <1>1, AskedTail DEF AnswersInv
<1>3. /\ Woken(Entries(n, IdOf[v])) = vs
      /\ pendingBrowse[n] \ Entries(n, IdOf[v]) = Keyed(Waiting(n) \ {v})
  BY <1>1, EntryIsOwn DEF AnswersInv, BrowseAgrees
<1>4. /\ pendingBrowse' = [pendingBrowse EXCEPT ![n] = Keyed(Waiting(n) \ {v})]
      /\ Serve(vs, line.page)
      /\ \/ lines' = [lines EXCEPT ![n] = Tail(@)]
         \/ lines' = [lines EXCEPT ![n] = Append(Tail(@), RespondWith(v, EmptyPage))]
      /\ UNCHANGED <<visit, busy, notices, heard, running>>
  BY <1>3 DEF TakeRespond, AnswersInv, BrowseAgrees, BrowseTypeOK
<1> HIDE DEF line, v
<1>5. RespondWith(v, EmptyPage) \in LinesOf(n) /\ RespondWith(v, EmptyPage).kind # "from"
  BY <1>1 DEF LinesOf, RespondWith
<1>6. \A w \in vs : task[w] = "waiting" /\ w.to = n
  BY DEF Waiting
<1>7. BrowseTypeOK'
  <2>1. task' \in [Visits -> {"none", "dialled", "waiting", "served"}] /\ DOMAIN answer' = Visits
    BY <1>4 DEF Serve, AnswersInv, BrowseAgrees, BrowseTypeOK
  <2>2. Append(Tail(lines[n]), RespondWith(v, EmptyPage)) \in Seq(LinesOf(n))
    BY <1>1, <1>5
  <2>3. PICK new \in Seq(LinesOf(n)) : lines' = [lines EXCEPT ![n] = new]
    BY <1>1, <1>4, <2>2
  <2>4. /\ DOMAIN lines = Agents
        /\ \A m \in Agents : lines[m] \in Seq(LinesOf(m))
    BY DEF AnswersInv, BrowseAgrees, BrowseTypeOK
  <2>5. DOMAIN lines' = Agents /\ \A m \in Agents : lines'[m] \in Seq(LinesOf(m))
    BY <2>3, <2>4
  <2> QED
    BY <1>4, <2>1, <2>5 DEF AnswersInv, BrowseAgrees, BrowseTypeOK
<1>8. ASSUME NEW m \in Agents PROVE Asked(visit, lines'[m])
  <2>1. \/ lines'[m] = lines[m]
        \/ m = n /\ lines'[m] \in {Tail(lines[n]), Append(Tail(lines[n]), RespondWith(v, EmptyPage))}
    BY <1>4 DEF AnswersInv, BrowseAgrees, BrowseTypeOK
  <2>2. Asked(visit, Append(Tail(lines[n]), RespondWith(v, EmptyPage)))
    BY <1>1, <1>2, <1>5, AskedAppend
  <2> QED
    BY <1>2, <2>1, <2>2 DEF AnswersInv
<1>9. vs \in SUBSET {v} /\ Waiting(n) \cap {v} \subseteq vs /\ UNCHANGED <<visit, busy>>
  BY <1>4
<1> DEFINE page == line.page
<1>10. page \in {Page(v), EmptyPage} /\ Serve(vs, page)
  BY <1>1, <1>4
<1>11. vs \in SUBSET {v} /\ Waiting(n) \cap {v} \subseteq vs
  OBVIOUS
<1>12. v \in Visits /\ pendingBrowse' = [pendingBrowse EXCEPT ![n] = Keyed(Waiting(n) \ {v})]
  BY <1>1, <1>4
<1> HIDE DEF vs, page
<1> QED
  BY <1>6, <1>7, <1>8, <1>9, <1>10, <1>11, <1>12, ServeStep

LEMMA TimeOutStep ==
    ASSUME AnswersInv, DistinctIds, NEW v \in Visits, TimeOut(v)
    PROVE  AnswersInv'
<1>1. v.to \in Agents /\ v \in Waiting(v.to)
  BY BrowseAssumption DEF TimeOut, Waiting
<1>2. /\ {v} \cup Woken(Entries(v.to, IdOf[v])) = {v}
      /\ pendingBrowse[v.to] \ Entries(v.to, IdOf[v]) = Keyed(Waiting(v.to) \ {v})
  BY <1>1, EntryIsOwn DEF AnswersInv, BrowseAgrees
<1>3. /\ pendingBrowse' = [pendingBrowse EXCEPT ![v.to] = Keyed(Waiting(v.to) \ {v})]
      /\ Serve({v}, EmptyPage)
      /\ UNCHANGED <<visit, busy, lines, notices, heard, running>>
  BY <1>2 DEF TimeOut, AnswersInv, BrowseAgrees, BrowseTypeOK
<1>4. BrowseTypeOK'
  BY <1>3 DEF Serve, AnswersInv, BrowseAgrees, BrowseTypeOK
<1>5. \A m \in Agents : Asked(visit, lines'[m])
  BY <1>3 DEF AnswersInv
<1>6. \A w \in {v} : task[w] = "waiting" /\ w.to = v.to
  BY <1>1 DEF Waiting
<1> QED
  BY <1>1, <1>3, <1>4, <1>5, <1>6, ServeStep

LEMMA EngineEndsStep ==
    ASSUME AnswersInv, NEW n \in Agents, EngineEnds(n)
    PROVE  AnswersInv'
<1>1. BrowseTypeOK'
  BY DEF EngineEnds, AnswersInv, BrowseAgrees, BrowseTypeOK
<1>2. ASSUME NEW m \in Agents PROVE pendingBrowse'[m] = Keyed(Waiting(m)')
  <2>1. CASE m = n
    <3>1. Waiting(n)' = {}
      BY DEF EngineEnds, Waiting
    <3>2. pendingBrowse'[n] = {}
      BY DEF EngineEnds, AnswersInv, BrowseAgrees, BrowseTypeOK
    <3> QED
      BY <2>1, <3>1, <3>2 DEF Keyed
  <2>2. CASE m # n
    <3>1. Waiting(m)' = Waiting(m)
      BY <2>2 DEF EngineEnds, Waiting
    <3>2. pendingBrowse'[m] = pendingBrowse[m]
      BY <2>2 DEF EngineEnds, AnswersInv, BrowseAgrees, BrowseTypeOK
    <3> QED
      BY <3>1, <3>2 DEF AnswersInv, BrowseAgrees
  <2> QED
    BY <2>1, <2>2
<1>3. \A w \in Visits :
          /\ visit'[w] = "done" => visit[w] = "done"
          /\ visit'[w] \in {"none", "asked"} => visit'[w] = visit[w]
          /\ w.from # n => visit'[w] = visit[w]
  BY DEF EngineEnds
<1>4. ASSUME NEW m \in Agents, NEW w \in busy'[m] PROVE w.from = m /\ visit'[w] = "sent"
  <2>1. m # n /\ w \in busy[m]
    BY <1>4 DEF EngineEnds, AnswersInv, BrowseAgrees, BrowseTypeOK
  <2>2. w \in Visits /\ w.from = m /\ visit[w] = "sent"
    BY <2>1 DEF AnswersInv, BrowseAgrees, BrowseTypeOK
  <2> QED
    BY <1>3, <2>1, <2>2
<1>5. ASSUME NEW m \in Agents PROVE Asked(visit', lines'[m])
  <2>1. CASE m = n
    <3>1. lines'[m] = <<>>
      BY <2>1 DEF EngineEnds, AnswersInv, BrowseAgrees, BrowseTypeOK
    <3> QED
      BY <3>1 DEF Asked
  <2>2. CASE m # n
    <3>1. lines'[m] = lines[m]
      BY <2>2 DEF EngineEnds, AnswersInv, BrowseAgrees, BrowseTypeOK
    <3>2. \A i \in DOMAIN lines[m] : lines[m][i].kind = "from" =>
              visit'[lines[m][i].visit] = visit[lines[m][i].visit]
      BY <1>3, <2>2, LineVisits DEF AnswersInv, BrowseAgrees
    <3> QED
      BY <3>1, <3>2, AskedElsewhere DEF AnswersInv
  <2> QED
    BY <2>1, <2>2
<1>6. \A w \in Visits :
          /\ task'[w] = "served" => task[w] = "served"
          /\ task[w] = "none" => task'[w] = "none"
          /\ answer'[w] = answer[w]
  BY DEF EngineEnds
<1> QED
  BY <1>1, <1>2, <1>3, <1>4, <1>5, <1>6, TaskStep DEF AnswersInv

-----------------------------------------------------------------------------
LEMMA BrowseInitOK == BrowseInit => AnswersInv
<1> SUFFICES ASSUME BrowseInit PROVE AnswersInv
  OBVIOUS
<1>1. BrowseTypeOK
  BY DEF BrowseInit, BrowseTypeOK
<1>2. \A n \in Agents : pendingBrowse[n] = Keyed(Waiting(n))
  BY DEF BrowseInit, Keyed, Waiting
<1> QED
  BY <1>1, <1>2 DEF BrowseInit, AnswersInv, BrowseAgrees, Asked

LEMMA BrowseStep == ASSUME DistinctIds, AnswersInv, [BrowseNext]_browseVars PROVE AnswersInv'
<1>1. ASSUME NEW v \in Visits, Get(v) \/ TakeAnswer(v) \/ Accept(v) \/ TimeOut(v)
      PROVE  AnswersInv'
  BY <1>1, GetStep, TakeAnswerStep, AcceptStep, TimeOutStep
<1>2. ASSUME NEW n \in Agents, TakeFrom(n) \/ Notify(n) \/ TakeRespond(n) \/ EngineEnds(n)
      PROVE  AnswersInv'
  BY <1>2, TakeFromStep, NotifyStep, TakeRespondStep, EngineEndsStep
<1>3. ASSUME NEW n \in Agents, NEW v \in heard[n], Respond(n, v) PROVE AnswersInv'
  BY <1>3, RespondStep
<1>4. CASE UNCHANGED browseVars
  <2>1. UNCHANGED <<visit, task, answer, busy, lines, notices, heard, pendingBrowse, running>>
    BY <1>4 DEF browseVars
  <2>2. BrowseTypeOK' /\ \A n \in Agents : Asked(visit', lines'[n])
    BY <2>1 DEF AnswersInv, BrowseAgrees, BrowseTypeOK
  <2> QED
    BY <2>1, <2>2, QuietStep DEF AnswersInv, BrowseAgrees
<1> QED
  BY <1>1, <1>2, <1>3, <1>4 DEF BrowseNext

\* Whoever browses whom, and whichever engines die, an answer is the page that
\* was asked for or an empty one, and the maps have who waits, as long as no two
\* requests are given one id.
THEOREM NoPageGoesAstray == ASSUME DistinctIds PROVE BrowseSpec => []BrowseAgrees
<1>1. AnswersInv /\ [BrowseNext]_browseVars => AnswersInv'
  BY BrowseStep
<1>2. AnswersInv => BrowseAgrees
  BY DEF AnswersInv
<1> QED
  BY <1>1, <1>2, BrowseInitOK, PTL DEF BrowseSpec

-----------------------------------------------------------------------------
(***************************************************************************)
(* The store of a relay.                                                   *)
(***************************************************************************)

\* A set of letters with its index: the Sets of the index partition the ids, and in
\* each of them any two ids came one before the other.
Indexed(letters, index, order) ==
    /\ letters \subseteq Envelopes
    /\ index \in [Recipients -> SUBSET Ids]
    /\ \A r \in Recipients : index[r] = {e.id : e \in {f \in letters : f.to = r}}
    /\ order \subseteq Ids \X Ids
    /\ \A i, j : <<i, j>> \in order =>
          /\ <<j, i>> \notin order
          /\ \E r \in Recipients : i \in index[r] /\ j \in index[r]
    /\ \A i, j, k : <<i, j>> \in order /\ <<j, k>> \in order => <<i, k>> \in order
    /\ \A r \in Recipients : \A i, j \in index[r] :
          i # j => <<i, j>> \in order \/ <<j, i>> \in order

InQuotas(letters, index) ==
    /\ IsFiniteSet(letters) /\ Cardinality(letters) <= MaxTotal
    /\ \A r \in Recipients :
          IsFiniteSet(index[r]) /\ Cardinality(index[r]) <= MaxPerRecipient

\* What a restart finds in the file is an empty list: all that is ever listed for it.
RelayInv ==
    /\ hour \in 0 .. MaxHour /\ reloads \in 0 .. MaxReloads
    /\ dirty \in BOOLEAN /\ saveTimer \in BOOLEAN
    /\ Indexed(envelopes, byRecipient, before)
    /\ InQuotas(envelopes, byRecipient)
    /\ flushes \in Seq({<<>>}) /\ Len(flushes) <= MaxFlushes
    /\ relayFile \subseteq {<<>>}

LEMMA NothingIsIndexed ==
    /\ Indexed({}, [r \in Recipients |-> {}], {})
    /\ InQuotas({}, [r \in Recipients |-> {}])
BY FS_EmptySet, RelayAssumption DEF Indexed, InQuotas

\* The letter that an id is of.
LEMMA OneLetter ==
    ASSUME NEW letters, NEW index, NEW order, Indexed(letters, index, order),
           NEW e \in Envelopes, NEW r \in Recipients, e.id \in index[r]
    PROVE  e \in letters /\ r = e.to
BY RelayAssumption DEF Indexed

LEMMA DepositedIsIndexed ==
    ASSUME NEW letters, NEW index, NEW order, Indexed(letters, index, order),
           NEW e \in Envelopes, e.id \notin index[e.to],
           NEW index2, index2 = [index EXCEPT ![e.to] = @ \cup {e.id}],
           NEW order2, order2 = order \cup (index[e.to] \X {e.id})
    PROVE  Indexed(letters \cup {e}, index2, order2)
<1>1. e.to \in Recipients /\ e.id \in Ids
  BY DEF Recipients, Ids
<1>2. \A r \in Recipients : e.id \notin index[r]
  BY OneLetter
<1>3. \A i, j : <<i, j>> \in order2 <=> <<i, j>> \in order \/ (i \in index[e.to] /\ j = e.id)
  OBVIOUS
<1>4. \A r \in Recipients : index2[r] = IF r = e.to THEN index[r] \cup {e.id} ELSE index[r]
  BY <1>1 DEF Indexed
<1>5. index2 \in [Recipients -> SUBSET Ids]
  BY <1>1 DEF Indexed
<1>6. ASSUME NEW r \in Recipients
      PROVE  index2[r] = {f.id : f \in {g \in letters \cup {e} : g.to = r}}
  BY <1>4 DEF Indexed
<1>7. order2 \subseteq Ids \X Ids
  BY <1>1 DEF Indexed
<1>8. ASSUME NEW i, NEW j, <<i, j>> \in order
      PROVE  i # e.id /\ j # e.id
  <2>1. PICK r \in Recipients : i \in index[r] /\ j \in index[r]
    BY <1>8 DEF Indexed
  <2> QED
    BY <1>2, <2>1
<1>9. ASSUME NEW i, NEW j, <<i, j>> \in order2
      PROVE  /\ <<j, i>> \notin order2
             /\ \E r \in Recipients : i \in index2[r] /\ j \in index2[r]
  <2>1. CASE <<i, j>> \in order
    BY <1>3, <1>4, <1>8, <2>1 DEF Indexed
  <2>2. CASE i \in index[e.to] /\ j = e.id
    BY <1>1, <1>2, <1>3, <1>4, <1>8, <2>2
  <2> QED
    BY <1>3, <1>9, <2>1, <2>2
<1>10. ASSUME NEW i, NEW j, NEW k, <<i, j>> \in order2, <<j, k>> \in order2
       PROVE  <<i, k>> \in order2
  <2>1. <<i, j>> \in order /\ j # e.id
    BY <1>2, <1>1, <1>3, <1>8, <1>10
  <2>2. CASE <<j, k>> \in order
    BY <1>3, <2>1, <2>2 DEF Indexed
  <2>3. CASE j \in index[e.to] /\ k = e.id
    <3>1. PICK r \in Recipients : i \in index[r] /\ j \in index[r]
      BY <2>1 DEF Indexed
    <3>2. PICK f \in letters : f.id = j /\ f.to = r
      BY <3>1 DEF Indexed
    <3>3. f \in Envelopes
      BY DEF Indexed
    <3>4. r = e.to
      BY <1>1, <2>3, <3>2, <3>3, OneLetter
    <3> QED
      BY <1>3, <2>3, <3>1, <3>4
  <2> QED
    BY <1>3, <1>10, <2>2, <2>3
<1>11. ASSUME NEW r \in Recipients, NEW i \in index2[r], NEW j \in index2[r], i # j
       PROVE  <<i, j>> \in order2 \/ <<j, i>> \in order2
  <2>1. CASE i \in index[r] /\ j \in index[r]
    BY <1>3, <1>11, <2>1 DEF Indexed
  <2>2. CASE r = e.to /\ (i = e.id \/ j = e.id)
    BY <1>3, <1>4, <1>11, <2>2
  <2> QED
    BY <1>4, <1>11, <2>1, <2>2
<1> QED
  BY <1>5, <1>6, <1>7, <1>9, <1>10, <1>11 DEF Indexed

LEMMA DepositStep ==
    ASSUME RelayInv, NEW e \in Envelopes, Deposit(e)
    PROVE  RelayInv'
<1>1. PICK held : held = Held
  OBVIOUS
<1>2. held.envelopes = envelopes /\ held.index = byRecipient /\ held.before = before
  BY <1>1 DEF Held
<1>3. /\ Cardinality(envelopes) < MaxTotal
      /\ Cardinality(byRecipient[e.to]) < MaxPerRecipient
  <2>1. /\ ~(Cardinality(envelopes) >= MaxTotal)
        /\ ~(Cardinality(byRecipient[e.to]) >= MaxPerRecipient)
    BY <1>1, <1>2 DEF Deposit, Refuses
  <2>2. /\ Cardinality(envelopes) \in Nat /\ Cardinality(byRecipient[e.to]) \in Nat
        /\ MaxTotal \in Nat /\ MaxPerRecipient \in Nat
    BY FS_CardinalityType, RelayAssumption DEF RelayInv, InQuotas, Recipients
  <2> QED
    BY <2>1, <2>2
<1>4. PICK others : others = IF e.id \in byRecipient[e.to] THEN {} ELSE byRecipient[e.to]
  OBVIOUS
<1>5. Deposited(held, e) = [envelopes |-> envelopes \cup {e},
                            index     |-> [byRecipient EXCEPT ![e.to] = @ \cup {e.id}],
                            before    |-> before \cup (others \X {e.id})]
  BY <1>1, <1>2, <1>4 DEF Deposit, Deposited
<1>6. /\ envelopes' = envelopes \cup {e}
      /\ byRecipient' = [byRecipient EXCEPT ![e.to] = @ \cup {e.id}]
      /\ before' = before \cup (others \X {e.id})
      /\ dirty' = TRUE /\ saveTimer' = TRUE
      /\ UNCHANGED <<hour, flushes, relayFile, reloads>>
  BY <1>1, <1>5 DEF Deposit, Becomes
<1>7. e.to \in Recipients
  BY DEF Recipients
<1>8. Indexed(envelopes', byRecipient', before')
  <2>1. CASE e.id \in byRecipient[e.to]
    <3>1. e \in envelopes
      BY <1>7, <2>1, OneLetter DEF RelayInv
    <3>2. envelopes' = envelopes /\ byRecipient' = byRecipient /\ before' = before
      BY <1>4, <1>6, <2>1, <3>1 DEF RelayInv, Indexed
    <3> QED
      BY <3>2 DEF RelayInv
  <2>2. CASE e.id \notin byRecipient[e.to]
    BY <1>4, <1>6, <2>2, DepositedIsIndexed DEF RelayInv
  <2> QED
    BY <2>1, <2>2
<1>9. IsFiniteSet(envelopes') /\ Cardinality(envelopes') <= MaxTotal
  <2>1. /\ IsFiniteSet(envelopes \cup {e})
        /\ Cardinality(envelopes \cup {e}) = IF e \in envelopes THEN Cardinality(envelopes)
                                             ELSE Cardinality(envelopes) + 1
    BY FS_AddElement DEF RelayInv, InQuotas
  <2> QED
    BY <1>3, <1>6, <2>1, FS_CardinalityType, RelayAssumption DEF RelayInv, InQuotas
<1>10. ASSUME NEW r \in Recipients
       PROVE  IsFiniteSet(byRecipient'[r]) /\ Cardinality(byRecipient'[r]) <= MaxPerRecipient
  <2>1. CASE r # e.to
    BY <1>6, <2>1 DEF RelayInv, InQuotas, Indexed
  <2>2. CASE r = e.to
    <3>1. PICK ids : ids = byRecipient[r]
      OBVIOUS
    <3>2. byRecipient'[r] = ids \cup {e.id} /\ IsFiniteSet(ids) /\ Cardinality(ids) < MaxPerRecipient
      BY <1>3, <1>6, <2>2, <3>1 DEF RelayInv, InQuotas, Indexed
    <3>3. /\ IsFiniteSet(ids \cup {e.id})
          /\ Cardinality(ids \cup {e.id}) = IF e.id \in ids THEN Cardinality(ids)
                                            ELSE Cardinality(ids) + 1
      BY <3>2, FS_AddElement
    <3> QED
      BY <3>2, <3>3, FS_CardinalityType, RelayAssumption
  <2> QED
    BY <2>1, <2>2
<1> QED
  BY <1>6, <1>8, <1>9, <1>10 DEF RelayInv, InQuotas

LEMMA RemainingStep ==
    ASSUME RelayInv, NEW ids, Becomes(Remaining(ids))
    PROVE  RelayInv'
<1>1. /\ envelopes' = {e \in envelopes : e.id \notin ids}
      /\ byRecipient' = [r \in Recipients |-> byRecipient[r] \ ids]
      /\ before' = {p \in before : p[1] \notin ids /\ p[2] \notin ids}
      /\ dirty' = TRUE /\ saveTimer' = TRUE
      /\ UNCHANGED <<hour, flushes, relayFile, reloads>>
  BY DEF Becomes, Remaining
<1>2. \A i, j : <<i, j>> \in before' <=> <<i, j>> \in before /\ i \notin ids /\ j \notin ids
  BY <1>1
<1>3. Indexed(envelopes', byRecipient', before')
  <2>1. envelopes' \subseteq Envelopes
    BY <1>1 DEF RelayInv, Indexed
  <2>2. byRecipient' \in [Recipients -> SUBSET Ids]
    BY <1>1 DEF RelayInv, Indexed
  <2>3. ASSUME NEW r \in Recipients
        PROVE  byRecipient'[r] = {e.id : e \in {f \in envelopes' : f.to = r}}
    BY <1>1 DEF RelayInv, Indexed
  <2>4. before' \subseteq Ids \X Ids
    BY <1>1 DEF RelayInv, Indexed
  <2>5. ASSUME NEW i, NEW j, <<i, j>> \in before'
        PROVE  /\ <<j, i>> \notin before'
               /\ \E r \in Recipients : i \in byRecipient'[r] /\ j \in byRecipient'[r]
    BY <1>1, <1>2, <2>5 DEF RelayInv, Indexed
  <2>6. \A i, j, k : <<i, j>> \in before' /\ <<j, k>> \in before' => <<i, k>> \in before'
    BY <1>2 DEF RelayInv, Indexed
  <2>7. \A r \in Recipients : \A i, j \in byRecipient'[r] :
           i # j => <<i, j>> \in before' \/ <<j, i>> \in before'
    BY <1>1, <1>2 DEF RelayInv, Indexed
  <2> QED
    BY <2>1, <2>2, <2>3, <2>4, <2>5, <2>6, <2>7 DEF Indexed
<1>4. IsFiniteSet(envelopes') /\ Cardinality(envelopes') <= MaxTotal
  <2>1. envelopes' \in SUBSET envelopes
    BY <1>1
  <2>2. IsFiniteSet(envelopes') /\ Cardinality(envelopes') <= Cardinality(envelopes)
    BY <2>1, FS_Subset DEF RelayInv, InQuotas
  <2> QED
    BY <2>2, FS_CardinalityType, RelayAssumption DEF RelayInv, InQuotas
<1>5. ASSUME NEW r \in Recipients
      PROVE  IsFiniteSet(byRecipient'[r]) /\ Cardinality(byRecipient'[r]) <= MaxPerRecipient
  <2>1. PICK left, all : left = byRecipient'[r] /\ all = byRecipient[r]
    OBVIOUS
  <2>2. left \in SUBSET all /\ IsFiniteSet(all) /\ Cardinality(all) <= MaxPerRecipient
    BY <1>1, <2>1 DEF RelayInv, InQuotas
  <2>3. IsFiniteSet(left) /\ Cardinality(left) <= Cardinality(all)
    BY <2>2, FS_Subset
  <2> QED
    BY <2>1, <2>2, <2>3, FS_CardinalityType, RelayAssumption
<1> QED
  BY <1>1, <1>3, <1>4, <1>5 DEF RelayInv, InQuotas

\* Nobody has letters.
LEMMA FlushIsEmpty == FlushText = <<>>
<1>1. Nobody \notin Recipients
  BY RelayAssumption DEF Recipients
<1>2. PICK page : page = Check(Nobody, 0, Cardinality(envelopes))
  OBVIOUS
<1>3. page = {}
  BY <1>1, <1>2 DEF Check
<1>4. [1 .. Cardinality(page) -> page] = {<<>>}
  <2>1. 1 .. Cardinality(page) = 1 .. 0 /\ 0 \in Nat
    BY <1>3, FS_EmptySet
  <2>2. <<>> \in [1 .. 0 -> {}]
    OBVIOUS
  <2>3. ASSUME NEW f \in [1 .. 0 -> {}] PROVE f = <<>>
    <3>1. f \in Seq({}) /\ Len(f) = 0
      BY <2>1, LenProperties, SeqDef
    <3> QED
      BY <3>1, EmptySeq
  <2> QED
    BY <1>3, <2>1, <2>2, <2>3
<1>5. \A i, j \in DOMAIN <<>> : FALSE
  OBVIOUS
<1> QED
  BY <1>2, <1>4, <1>5 DEF FlushText

LEMMA RefilledFromNothing ==
    Refilled(<<>>) = [envelopes |-> {}, index |-> [r \in Recipients |-> {}], before |-> {}]
<1> DEFINE empty == [envelopes |-> {}, index |-> [r \in Recipients |-> {}], before |-> {}]
           Step(f) == [n \in 0 .. Len(<<>>) |->
                          IF n = 0 THEN empty ELSE Deposited(f[n - 1], <<>>[n])]
           store == CHOOSE f : f = Step(f)
<1>1. Len(<<>>) = 0 /\ 0 .. Len(<<>>) = {0}
  OBVIOUS
<1>2. Refilled(<<>>) = store[0]
  BY <1>1 DEF Refilled
<1> HIDE DEF empty
<1>3. PICK f : f = [n \in {0} |-> empty]
  OBVIOUS
<1>4. f = Step(f)
  BY <1>1, <1>3
<1>5. store = Step(store)
  BY <1>4
<1> HIDE DEF store
<1>6. store[0] = empty
  BY <1>1, <1>5
<1> QED
  BY <1>2, <1>6 DEF empty

LEMMA ReloadStep == RelayInv /\ Reload => RelayInv'
<1> SUFFICES ASSUME RelayInv, Reload PROVE RelayInv'
  OBVIOUS
<1>1. PICK text, store :
         /\ text = IF flushes # <<>> THEN {} ELSE relayFile
         /\ store = Refilled(IF text = {} THEN <<>> ELSE CHOOSE t \in text : TRUE)
         /\ relayFile' = text /\ envelopes' = store.envelopes
         /\ byRecipient' = store.index /\ before' = store.before
  BY DEF Reload
<1>2. text \subseteq {<<>>}
  BY <1>1 DEF RelayInv
<1>3. PICK listed : listed = IF text = {} THEN <<>> ELSE CHOOSE t \in text : TRUE
  OBVIOUS
<1>4. listed = <<>>
  BY <1>2, <1>3
<1>5. store = [envelopes |-> {}, index |-> [r \in Recipients |-> {}], before |-> {}]
  BY <1>1, <1>3, <1>4, RefilledFromNothing
<1>6. envelopes' = {} /\ byRecipient' = [r \in Recipients |-> {}] /\ before' = {}
  <2>1. store.envelopes = {} /\ store.index = [r \in Recipients |-> {}] /\ store.before = {}
    BY <1>5
  <2> QED
    BY <1>1, <2>1
<1>7. Indexed(envelopes', byRecipient', before') /\ InQuotas(envelopes', byRecipient')
  BY <1>6, NothingIsIndexed
<1>8. /\ hour' = hour /\ reloads' \in 0 .. MaxReloads /\ dirty' = FALSE /\ saveTimer' = FALSE
      /\ flushes' = <<>>
  BY RelayAssumption DEF Reload, RelayInv
<1>9. flushes' \in Seq({<<>>}) /\ Len(flushes') <= MaxFlushes
  BY <1>8, RelayAssumption
<1>10. relayFile' \subseteq {<<>>} /\ hour' \in 0 .. MaxHour
  BY <1>1, <1>2, <1>8 DEF RelayInv
<1> QED
  BY <1>7, <1>8, <1>9, <1>10 DEF RelayInv

LEMMA RelayStep == RelayInv /\ [RelayNext]_relayVars => RelayInv'
<1> SUFFICES ASSUME RelayInv, [RelayNext]_relayVars PROVE RelayInv'
  OBVIOUS
<1>1. ASSUME NEW e \in Envelopes, Deposit(e) PROVE RelayInv'
  BY <1>1, DepositStep
<1>2. ASSUME NEW ids \in SUBSET Ids, Ack(ids) PROVE RelayInv'
  BY <1>2, RemainingStep DEF Ack
<1>3. CASE Evict
  BY <1>3, RemainingStep DEF Evict
<1>4. CASE FlushBegin
  <2>1. /\ flushes' = IF dirty THEN Append(flushes, <<>>) ELSE flushes
        /\ Len(flushes) < MaxFlushes /\ saveTimer' = FALSE
        /\ UNCHANGED <<hour, envelopes, byRecipient, before, dirty, relayFile, reloads>>
    BY <1>4, FlushIsEmpty DEF FlushBegin
  <2>2. flushes' \in Seq({<<>>}) /\ Len(flushes') <= MaxFlushes
    BY <2>1, RelayAssumption DEF RelayInv
  <2> QED
    BY <2>1, <2>2 DEF RelayInv
<1>5. ASSUME NEW i \in DOMAIN flushes, FlushEnd(i) PROVE RelayInv'
  <2>1. /\ flushes' = RemoveAt(flushes, i)
        /\ \/ relayFile' = {flushes[i]} /\ dirty' = FALSE
           \/ relayFile' \in {{}, relayFile} /\ UNCHANGED dirty
        /\ UNCHANGED <<hour, envelopes, byRecipient, before, saveTimer, reloads>>
    BY <1>5 DEF FlushEnd
  <2>2. flushes' \in Seq({<<>>}) /\ Len(flushes') <= MaxFlushes
    <3>1. flushes \in Seq({<<>>}) /\ Len(flushes) \in Nat /\ i \in 1 .. Len(flushes)
      BY <1>5 DEF RelayInv
    <3>2. flushes' = SubSeq(flushes, 1, i - 1) \o SubSeq(flushes, i + 1, Len(flushes))
      BY <2>1 DEF RemoveAt
    <3> QED
      BY <3>1, <3>2, RelayAssumption DEF RelayInv
  <2>3. relayFile' \subseteq {<<>>}
    BY <2>1 DEF RelayInv
  <2>4. dirty' \in BOOLEAN
    BY <2>1 DEF RelayInv
  <2> QED
    BY <2>1, <2>2, <2>3, <2>4 DEF RelayInv
<1>6. CASE Reload
  BY <1>6, ReloadStep
<1>7. CASE HourPasses
  BY <1>7, RelayAssumption DEF HourPasses, RelayInv
<1>8. CASE UNCHANGED relayVars
  BY <1>8 DEF relayVars, RelayInv
<1> QED
  BY <1>1, <1>2, <1>3, <1>4, <1>5, <1>6, <1>7, <1>8 DEF RelayNext

\* Of the letters in the order of a Set, as many come before the limit as it says.
LEMMA FirstOnes ==
    ASSUME NEW letters, NEW index, NEW order, Indexed(letters, index, order),
           NEW r \in Recipients, NEW pending, IsFiniteSet(pending),
           pending \subseteq {e \in letters : e.to = r},
           NEW limit \in Nat,
           NEW page, page = {e \in pending :
                               Cardinality({f \in pending : <<f.id, e.id>> \in order}) < limit}
    PROVE  Cardinality(page) = IF limit <= Cardinality(pending) THEN limit ELSE Cardinality(pending)
<1>1. PICK n : n = Cardinality(pending)
  OBVIOUS
<1>2. n \in Nat
  BY <1>1, FS_CardinalityType
<1> DEFINE Under(e) == {f \in pending : <<f.id, e.id>> \in order}
<1>3. PICK rank : rank = [e \in pending |-> Cardinality(Under(e))]
  OBVIOUS
<1>4. ASSUME NEW e \in pending
      PROVE  /\ rank[e] = Cardinality(Under(e)) /\ IsFiniteSet(Under(e))
             /\ rank[e] \in 0 .. n - 1
  <2>1. PICK under, others : under = Under(e) /\ others = pending \ {e}
    OBVIOUS
  <2>2. IsFiniteSet(others) /\ Cardinality(others) = n - 1
    BY <1>1, <2>1, FS_RemoveElement
  <2>3. under \in SUBSET others
    BY <2>1 DEF Indexed
  <2>4. IsFiniteSet(under) /\ Cardinality(under) <= n - 1
    BY <2>2, <2>3, FS_Subset
  <2>5. Cardinality(under) \in Nat
    BY <2>4, FS_CardinalityType
  <2>6. rank[e] = Cardinality(under)
    BY <1>3, <2>1
  <2> HIDE DEF Under
  <2> QED
    BY <1>2, <2>1, <2>4, <2>5, <2>6
<1>5. ASSUME NEW e \in pending, NEW f \in pending, <<e.id, f.id>> \in order
      PROVE  rank[e] # rank[f]
  <2>1. PICK low, high : low = Under(e) /\ high = Under(f)
    OBVIOUS
  <2>2. low \in SUBSET high /\ e \in high /\ e \notin low
    BY <1>5, <2>1 DEF Indexed
  <2> HIDE DEF Under
  <2>3. IsFiniteSet(high) /\ rank[e] = Cardinality(low) /\ rank[f] = Cardinality(high)
    BY <1>4, <2>1
  <2> QED
    BY <2>2, <2>3, FS_Subset
<1> HIDE DEF Under
<1>6. ASSUME NEW e \in pending, NEW f \in pending, rank[e] = rank[f]
      PROVE  e = f
  <2>1. SUFFICES ASSUME e # f PROVE FALSE
    OBVIOUS
  <2>2. /\ e \in Envelopes /\ f \in Envelopes /\ e \in letters /\ f \in letters
        /\ e.to = r /\ f.to = r
    BY DEF Indexed
  <2>3. e.id # f.id
    BY <2>1, <2>2, RelayAssumption
  <2>4. e.id \in index[r] /\ f.id \in index[r]
    BY <2>2 DEF Indexed
  <2>5. <<e.id, f.id>> \in order \/ <<f.id, e.id>> \in order
    BY <2>3, <2>4 DEF Indexed
  <2> QED
    BY <1>5, <1>6, <2>5
<1>7. rank \in Injection(pending, 0 .. n - 1)
  <2>1. rank \in [pending -> 0 .. n - 1]
    BY <1>3, <1>4
  <2> QED
    BY <1>6, <2>1 DEF Injection, IsInjective
<1>8. IsFiniteSet(0 .. n - 1) /\ Cardinality(0 .. n - 1) = n
  BY <1>2, FS_Interval
<1>9. rank \in Surjection(pending, 0 .. n - 1)
  BY <1>1, <1>7, <1>8, FS_Injection
<1>10. \A k \in 0 .. n - 1 : \E e \in pending : rank[e] = k
  BY <1>9 DEF Surjection
<1>11. PICK m : m = IF limit <= n THEN limit ELSE n
  OBVIOUS
<1>12. m \in Nat /\ m <= n /\ m <= limit
  BY <1>2, <1>11
<1>13. page = {e \in pending : rank[e] < limit}
  BY <1>4 DEF Under
<1>14. PICK place : place = [e \in page |-> rank[e]]
  OBVIOUS
<1>15. ASSUME NEW e \in page PROVE place[e] = rank[e] /\ e \in pending /\ place[e] \in 0 .. m - 1
  <2>1. place[e] = rank[e] /\ e \in pending /\ rank[e] < limit
    BY <1>13, <1>14
  <2>2. rank[e] \in 0 .. n - 1
    BY <1>4, <2>1
  <2> QED
    BY <1>2, <1>11, <2>1, <2>2
<1>16. place \in Injection(page, 0 .. m - 1)
  <2>1. place \in [page -> 0 .. m - 1]
    BY <1>14, <1>15
  <2> QED
    BY <1>6, <1>15, <2>1 DEF Injection, IsInjective
<1>17. place \in Surjection(page, 0 .. m - 1)
  <2>1. place \in [page -> 0 .. m - 1]
    BY <1>14, <1>15
  <2>2. ASSUME NEW k \in 0 .. m - 1 PROVE \E e \in page : place[e] = k
    <3>1. k \in 0 .. n - 1 /\ k < limit
      BY <1>2, <1>12
    <3>2. PICK e \in pending : rank[e] = k
      BY <1>10, <3>1
    <3> QED
      BY <1>13, <1>15, <3>1, <3>2
  <2> QED
    BY <2>1, <2>2 DEF Surjection
<1>18. IsFiniteSet(0 .. m - 1) /\ Cardinality(0 .. m - 1) = m
  BY <1>12, FS_Interval
<1>19. Cardinality(page) = m
  BY <1>16, <1>17, <1>18, FS_Injection
<1> QED
  BY <1>1, <1>11, <1>19

LEMMA PollsServed == RelayInv => PollsAreServed
<1> SUFFICES ASSUME RelayInv, NEW r \in Recipients, NEW limit \in 1 .. MaxPerRecipient,
                    NEW page, page = Check(r, 0, limit),
                    NEW due, due = {e \in envelopes : e.to = r /\ ~IsExpired(e)}
             PROVE  page \subseteq due /\ Cardinality(page) = Min({limit, Cardinality(due)})
  BY DEF PollsAreServed
<1>0. Indexed(envelopes, byRecipient, before)
  BY DEF RelayInv
<1>1. PICK pending : pending = {e \in envelopes : e.id \in byRecipient[r] /\ ~IsExpired(e) /\ e.at > 0}
  OBVIOUS
<1>2. ASSUME NEW e \in envelopes
      PROVE  e.at > 0 /\ (e.id \in byRecipient[r] <=> e.to = r)
  <2>1. e \in Envelopes /\ (e.id \in byRecipient[r] => e.to = r)
    <3>1. e \in Envelopes
      BY <1>0 DEF Indexed
    <3> QED
      BY <1>0, <3>1, OneLetter
  <2>2. e.to = r => e.id \in byRecipient[r]
    BY DEF RelayInv, Indexed
  <2>3. e.at \in Nat \ {0}
    BY <2>1, RelayAssumption
  <2> QED
    BY <2>1, <2>2, <2>3
<1>3. pending = due
  BY <1>1, <1>2
<1>4. page = {e \in due : Cardinality({f \in due : <<f.id, e.id>> \in before}) < limit}
  BY <1>1, <1>3 DEF Check
<1>5. due \in SUBSET envelopes /\ due \subseteq {e \in envelopes : e.to = r}
  OBVIOUS
<1>6. IsFiniteSet(due)
  BY <1>5, FS_Subset DEF RelayInv, InQuotas
<1>7. limit \in Nat /\ Cardinality(due) \in Nat
  BY <1>6, FS_CardinalityType, RelayAssumption
<1>8. Cardinality(page) = IF limit <= Cardinality(due) THEN limit ELSE Cardinality(due)
  BY <1>0, <1>4, <1>5, <1>6, <1>7, FirstOnes
<1>9. PICK k : k = Cardinality(due)
  OBVIOUS
<1>10. Min({limit, k}) = IF limit <= k THEN limit ELSE k
  BY <1>7, <1>9 DEF Min
<1> QED
  BY <1>3, <1>4, <1>8, <1>9, <1>10

\* The index has the letters that the Map has, within the quotas, and who polls is
\* served, for any envelopes, quotas, limits and times (MemoryRelayStore and
\* FileRelayStore, packages/core/src/mail-store.ts).
THEOREM RelayServes == RelaySpec => []RelayHolds
<1>1. RelayInit => RelayInv
  <2>1. /\ <<>> \in Seq({<<>>}) /\ Len(<<>>) <= MaxFlushes
        /\ 0 \in 0 .. MaxHour /\ 0 \in 0 .. MaxReloads
    BY RelayAssumption
  <2> QED
    BY <2>1, NothingIsIndexed DEF RelayInit, RelayInv
<1>2. RelayInv => RelayTypeOK
  <2> SUFFICES ASSUME RelayInv PROVE RelayTypeOK
    OBVIOUS
  <2>1. <<>> \in Seq(Envelopes)
    OBVIOUS
  <2>2. flushes \in Seq(Seq(Envelopes)) /\ Len(flushes) <= MaxFlushes
    <3>1. {<<>>} \subseteq Seq(Envelopes)
      BY <2>1
    <3> QED
      BY <3>1, SeqMonotonic DEF RelayInv
  <2>3. relayFile \in SUBSET Seq(Envelopes)
    BY <2>1 DEF RelayInv
  <2> QED
    BY <2>2, <2>3 DEF RelayInv, RelayTypeOK, Indexed
<1>3. RelayInv => IndexAgrees
  BY DEF RelayInv, IndexAgrees, Indexed, InQuotas
<1> QED
  BY <1>1, <1>2, <1>3, PollsServed, RelayStep, PTL DEF RelaySpec, RelayHolds

=============================================================================
