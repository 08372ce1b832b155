------------------------- MODULE ReplicationProofs -------------------------
(***************************************************************************)
(* Theorems about Replication, for every set of agents and every bound.    *)
(***************************************************************************)
EXTENDS Replication, SequenceTheorems, FiniteSetTheorems, TLAPS

\* What n leaves out of its next delta, or has left out of one whose call has
\* not settled, or will leave out once the calls that are under way have.
Omitted(n) ==
    lastSync[n] \cup (UNION {c.version \ c.delta : c \in Range(calls[n])})
                \cup (UNION {l.version : l \in Range(lines[n]) \ {Up}})
                \cup (UNION Range(settled[n]))

AiredInv == \A n \in Nodes : Omitted(n) \subseteq aired[n]

\* A NeighborUp only waits for an agent that broadcasts nothing, and as long as
\* gossip has lost nothing on a link that stayed up, what an agent omits each
\* neighbour has or is about to get.
ReachInv ==
    \A n \in Nodes :
        /\ UpPending(n) => Idle(n)
        /\ intact => \A m \in Neighbors(n) :
              ~UpPending(n) => Omitted(n) \subseteq Coming(n, m)

-----------------------------------------------------------------------------
(***************************************************************************)
(* Elements of sequences.                                                  *)
(***************************************************************************)

\* The empty sequence has no element.
LEMMA RangeEmpty == Range(<<>>) = {}
  BY DEF Range

\* Appending adds one element.
LEMMA RangeAppend ==
  ASSUME NEW S, NEW s \in Seq(S), NEW e \in S
  PROVE  Range(Append(s, e)) = Range(s) \cup {e}
<1>1. /\ DOMAIN s = 1 .. Len(s) /\ Len(s) \in Nat
      /\ DOMAIN Append(s, e) = 1 .. Len(s) + 1
  BY LenProperties, AppendProperties
<1>2. /\ \A i \in 1 .. Len(s) : Append(s, e)[i] = s[i]
      /\ Append(s, e)[Len(s) + 1] = e
  BY AppendProperties
<1>3. \A i \in 1 .. Len(s) + 1 : i = Len(s) + 1 \/ i \in 1 .. Len(s)
  BY <1>1
<1>4. Len(s) + 1 \in 1 .. Len(s) + 1 /\ 1 .. Len(s) \subseteq 1 .. Len(s) + 1
  BY <1>1
<1> QED
  BY <1>1, <1>2, <1>3, <1>4 DEF Range

\* The head is an element, and so is every element of the tail.
LEMMA RangeTail ==
  ASSUME NEW S, NEW s \in Seq(S), s # <<>>
  PROVE  Head(s) \in Range(s) /\ Range(Tail(s)) \subseteq Range(s)
<1>1. /\ DOMAIN s = 1 .. Len(s) /\ Len(s) \in Nat
      /\ 1 \in 1 .. Len(s) /\ Head(s) = s[1]
  BY LenProperties, EmptySeq
<1>2. /\ Tail(s) \in Seq(S) /\ Len(Tail(s)) = Len(s) - 1
      /\ \A i \in 1 .. Len(Tail(s)) : Tail(s)[i] = s[i + 1]
  BY HeadTailProperties
<1>3. DOMAIN Tail(s) = 1 .. Len(s) - 1
  BY <1>2, LenProperties
<1>4. \A i \in 1 .. Len(s) - 1 : i + 1 \in 1 .. Len(s)
  BY <1>1
<1> QED
  BY <1>1, <1>2, <1>3, <1>4 DEF Range

\* The elements of a typed sequence have the type.
LEMMA RangeTyped ==
  ASSUME NEW S, NEW s \in Seq(S)
  PROVE  Range(s) \subseteq S
  BY LenProperties, ElementOfSeq DEF Range

-----------------------------------------------------------------------------
(***************************************************************************)
(* Type correctness.                                                       *)
(***************************************************************************)

\* The initial state is well-typed.
LEMMA InitTyped == Init => TypeOK
  BY ReplicationAssumption, FS_EmptySet DEF Init, TypeOK

\* A broadcast that starts adds a well-typed call.
LEMMA StartTyped ==
  ASSUME TypeOK, NEW n \in Nodes, StartBroadcast(n)
  PROVE  calls' \in [Nodes -> Seq(Call)]
<1>1. Applied(n) \in SUBSET Ops
  BY DEF TypeOK, Applied, Complete
<1>2. [delta |-> Applied(n) \ lastSync[n], version |-> Applied(n)] \in Call
  BY <1>1 DEF Call
<1>3. calls[n] \in Seq(Call)
  BY DEF TypeOK
<1>4. Append(calls[n], [delta   |-> Applied(n) \ lastSync[n],
                        version |-> Applied(n)]) \in Seq(Call)
  BY <1>2, <1>3, AppendProperties
<1> QED
  BY <1>4 DEF StartBroadcast, TypeOK

\* The next call and the next line, taken off their queues.
LEMMA HeadsTyped ==
  ASSUME TypeOK, NEW n \in Nodes
  PROVE  /\ calls[n] # <<>> => /\ Head(calls[n]).delta \in SUBSET Ops
                               /\ Head(calls[n]).version \in SUBSET Ops
                               /\ Tail(calls[n]) \in Seq(Call)
         /\ lines[n] # <<>> => /\ Head(lines[n]) \in Line
                               /\ Tail(lines[n]) \in Seq(Line)
         /\ settled[n] # <<>> => /\ Head(settled[n]) \in SUBSET Ops
                                 /\ Tail(settled[n]) \in Seq(SUBSET Ops)
<1>1. /\ calls[n] \in Seq(Call) /\ lines[n] \in Seq(Line)
      /\ settled[n] \in Seq(SUBSET Ops)
  BY DEF TypeOK
<1>2. calls[n] # <<>> => Head(calls[n]) \in Call /\ Tail(calls[n]) \in Seq(Call)
  BY <1>1, HeadTailProperties
<1>3. lines[n] # <<>> => Head(lines[n]) \in Line /\ Tail(lines[n]) \in Seq(Line)
  BY <1>1, HeadTailProperties
<1>4. settled[n] # <<>> => /\ Head(settled[n]) \in SUBSET Ops
                           /\ Tail(settled[n]) \in Seq(SUBSET Ops)
  BY <1>1, HeadTailProperties
<1> QED
  BY <1>2, <1>3, <1>4 DEF Call

\* A line that is not a NeighborUp answers a broadcast.
LEMMA LineKinds ==
  ASSUME NEW l \in Line
  PROVE  /\ l # Up => l.version \in SUBSET Ops
         /\ \A v \in SUBSET Ops : Answer(v) \in Line /\ Answer(v) # Up
                                  /\ Answer(v).version = v
<1>1. \A v : Answer(v).version = v /\ Answer(v).kind = "answer"
  BY DEF Answer
<1>2. Up.kind = "neighbor_up"
  BY DEF Up
<1>3. \A v : Answer(v) # Up
  BY <1>1, <1>2
<1>4. l # Up => \E v \in SUBSET Ops : l = Answer(v)
  BY DEF Line
<1>5. \A v \in SUBSET Ops : Answer(v) \in Line
  BY DEF Line
<1> QED
  BY <1>1, <1>3, <1>4, <1>5

\* Every step keeps the types.
LEMMA NextTyped == TypeOK /\ [Next]_vars => TypeOK'
<1> SUFFICES ASSUME TypeOK, [Next]_vars PROVE TypeOK'
  OBVIOUS
<1> USE DEF storeVars, nodeVars, pipeVars, gossipVars
<1>1. ASSUME NEW n \in Nodes, Write(n) PROVE TypeOK'
  <2>1. Applied(n) \in SUBSET Ops
    BY DEF TypeOK, Applied, Complete
  <2>2. Cardinality(written) \in Nat
    BY FS_CardinalityType DEF TypeOK
  <2>3. <<n, Cardinality(written) + 1>> \in Ops
    <3>1. Cardinality(written) + 1 \in 1 .. MaxWrites
      BY <1>1, <2>2, ReplicationAssumption DEF Write
    <3> QED
      BY <3>1 DEF Ops
  <2>4. IsFiniteSet(written')
    BY <1>1, FS_AddElement DEF TypeOK, Write
  <2> QED
    BY <1>1, <2>1, <2>3, <2>4 DEF TypeOK, Write
<1>2. ASSUME NEW n \in Nodes, Save(n) PROVE TypeOK'
  <2>1. Applied(n) \in SUBSET Ops
    BY DEF TypeOK, Applied, Complete
  <2> QED
    BY <1>2, <2>1 DEF TypeOK, Save
<1>3. ASSUME NEW n \in Nodes, Debounced(n) PROVE TypeOK'
  BY <1>3, StartTyped DEF TypeOK, Debounced
<1>4. ASSUME NEW n \in Nodes, Resync(n) PROVE TypeOK'
  BY <1>4, StartTyped DEF TypeOK, Resync
<1>5. ASSUME NEW n \in Nodes, ReadLine(n) PROVE TypeOK'
  <2>1. Tail(lines[n]) \in Seq(Line) /\ Head(lines[n]) \in Line
    BY <1>5, HeadsTyped DEF ReadLine
  <2>2. CASE Head(lines[n]) = Up
    BY <1>5, <2>1, <2>2 DEF TypeOK, ReadLine
  <2>3. CASE Head(lines[n]) # Up
    <3>1. settled[n] \in Seq(SUBSET Ops)
      BY DEF TypeOK
    <3>2. Append(settled[n], Head(lines[n]).version) \in Seq(SUBSET Ops)
      BY <2>1, <2>3, <3>1, LineKinds, AppendProperties
    <3> QED
      BY <1>5, <2>1, <2>3, <3>2 DEF TypeOK, ReadLine
  <2> QED
    BY <2>2, <2>3
<1>6. ASSUME NEW n \in Nodes, Advance(n) PROVE TypeOK'
  BY <1>6, HeadsTyped DEF TypeOK, Advance
<1>7. ASSUME NEW n \in Nodes, Deliver(n) PROVE TypeOK'
  BY <1>7 DEF TypeOK, Deliver, Message
<1>8. ASSUME NEW n \in Nodes, EngineBroadcast(n) PROVE TypeOK'
  <2>1. /\ Head(calls[n]).delta \in SUBSET Ops
        /\ Head(calls[n]).version \in SUBSET Ops
        /\ Tail(calls[n]) \in Seq(Call)
    BY <1>8, HeadsTyped DEF EngineBroadcast
  <2>2. Append(lines[n], Answer(Head(calls[n]).version)) \in Seq(Line)
    <3>1. lines[n] \in Seq(Line) /\ Answer(Head(calls[n]).version) \in Line
      BY <2>1 DEF TypeOK, Line
    <3> QED
      BY <3>1, AppendProperties
  <2>3. net' \in [Nodes -> SUBSET Message]
    BY <1>8, <2>1 DEF TypeOK, EngineBroadcast, Message
  <2> QED
    BY <1>8, <2>1, <2>2, <2>3 DEF TypeOK, EngineBroadcast
<1>9. ASSUME NEW n \in Nodes, EngineRefuse(n) PROVE TypeOK'
  BY <1>9, HeadsTyped DEF TypeOK, EngineRefuse
<1>10. ASSUME NEW n \in Nodes, Lose(n) PROVE TypeOK'
  BY <1>10 DEF TypeOK, Lose
<1>11. ASSUME NEW n \in Nodes, Restart(n) PROVE TypeOK'
  BY <1>11, ReplicationAssumption DEF TypeOK, Restart
<1>12. ASSUME NEW n \in Nodes, NEW m \in Nodes, LinkUp(n, m) PROVE TypeOK'
  <2>1. \A k \in Nodes : Append(lines[k], Up) \in Seq(Line)
    <3>1. Up \in Line /\ \A k \in Nodes : lines[k] \in Seq(Line)
      BY DEF TypeOK, Line
    <3> QED
      BY <3>1, AppendProperties
  <2>2. lines' \in [Nodes -> Seq(Line)]
    BY <1>12, <2>1 DEF TypeOK, LinkUp
  <2>3. links' \in SUBSET Pairs /\ linkups' \in 0 .. MaxLinks
    BY <1>12, ReplicationAssumption, SMTT(30) DEF TypeOK, LinkUp, Pairs
  <2> QED
    BY <1>12, <2>2, <2>3 DEF TypeOK, LinkUp
<1>13. ASSUME NEW n \in Nodes, NEW m \in Nodes, LinkDown(n, m) PROVE TypeOK'
  <2>1. PICK lost \in SUBSET ({msg \in net[m] : msg.from = n}
                              \cup {msg \in net[n] : msg.from = m}) :
          net' = [net EXCEPT ![m] = @ \ lost, ![n] = @ \ lost]
    BY <1>13 DEF LinkDown
  <2>2. net' \in [Nodes -> SUBSET Message]
    <3>1. ASSUME NEW k \in Nodes
          PROVE  net'[k] \in {net[k], net[k] \ lost, (net[k] \ lost) \ lost}
      BY <2>1 DEF TypeOK
    <3>2. \A k \in Nodes : net'[k] \in SUBSET Message
      BY <3>1 DEF TypeOK
    <3> QED
      BY <2>1, <3>2 DEF TypeOK
  <2>3. links' \in SUBSET Pairs
    BY <1>13 DEF TypeOK, LinkDown
  <2> QED
    BY <1>13, <2>2, <2>3 DEF TypeOK, LinkDown
<1>14. CASE UNCHANGED vars
  BY <1>14 DEF TypeOK, vars
<1> QED
  BY <1>1, <1>2, <1>3, <1>4, <1>5, <1>6, <1>7, <1>8, <1>9, <1>10, <1>11,
     <1>12, <1>13, <1>14 DEF Next, AgentStep, GossipStep

\* The variables keep their types in every behaviour of the agents, their
\* engines and the gossip topic.
THEOREM TypeCorrect == Spec => []TypeOK
<1> QED
  BY InitTyped, NextTyped, PTL DEF Spec

-----------------------------------------------------------------------------
(***************************************************************************)
(* What an agent leaves out.                                               *)
(***************************************************************************)

\* A step that leaves an agent's pipe alone leaves what it omits alone.
LEMMA OmittedKept ==
  ASSUME NEW n \in Nodes, lastSync'[n] = lastSync[n], calls'[n] = calls[n],
         lines'[n] = lines[n], settled'[n] = settled[n]
  PROVE  Omitted(n)' = Omitted(n)
  BY DEF Omitted

\* A broadcast that starts omits what the last one that settled covered.
LEMMA OmittedStart ==
  ASSUME TypeOK, NEW n \in Nodes, StartBroadcast(n),
         UNCHANGED <<lastSync, lines, settled>>
  PROVE  Omitted(n)' \subseteq Omitted(n)
<1> DEFINE c == [delta   |-> Applied(n) \ lastSync[n], version |-> Applied(n)]
<1>1. c \in Call /\ calls[n] \in Seq(Call)
  BY DEF TypeOK, Applied, Complete, Call
<1>2. calls'[n] = Append(calls[n], c)
  BY DEF StartBroadcast, TypeOK
<1>3. c.version \ c.delta \subseteq lastSync[n]
  OBVIOUS
<1> HIDE DEF c
<1>4. Range(Append(calls[n], c)) = Range(calls[n]) \cup {c}
  BY <1>1, RangeAppend
<1>5. Range(calls'[n]) = Range(calls[n]) \cup {c}
  BY <1>2, <1>4
<1> QED
  BY <1>3, <1>5 DEF Omitted

\* Reading a line moves an answer along, or forgets what was omitted.
LEMMA OmittedRead ==
  ASSUME TypeOK, NEW n \in Nodes, ReadLine(n)
  PROVE  Omitted(n)' \subseteq Omitted(n)
<1>1. /\ lines[n] \in Seq(Line) /\ settled[n] \in Seq(SUBSET Ops)
      /\ lines[n] # <<>> /\ lines'[n] = Tail(lines[n])
      /\ calls'[n] = calls[n]
  BY DEF ReadLine, TypeOK
<1>2. Head(lines[n]) \in Range(lines[n]) /\ Range(lines'[n]) \subseteq Range(lines[n])
  BY <1>1, RangeTail
<1>3. CASE Head(lines[n]) = Up
  <2>1. lastSync'[n] = {} /\ settled'[n] = settled[n]
    BY <1>3 DEF ReadLine, TypeOK
  <2> QED
    BY <1>1, <1>2, <2>1 DEF Omitted
<1>4. CASE Head(lines[n]) # Up
  <2>1. /\ lastSync'[n] = lastSync[n]
        /\ settled'[n] = Append(settled[n], Head(lines[n]).version)
    BY <1>4 DEF ReadLine, TypeOK
  <2>2. Head(lines[n]).version \in SUBSET Ops
    BY <1>1, <1>4, LineKinds, HeadTailProperties
  <2>3. Range(settled'[n]) = Range(settled[n]) \cup {Head(lines[n]).version}
    BY <1>1, <2>1, <2>2, RangeAppend
  <2> QED
    BY <1>1, <1>2, <1>4, <2>1, <2>3 DEF Omitted
<1> QED
  BY <1>3, <1>4

\* An await that resumes makes lastSyncVersion what its call carried.
LEMMA OmittedAdvance ==
  ASSUME TypeOK, NEW n \in Nodes, Advance(n)
  PROVE  Omitted(n)' \subseteq Omitted(n)
<1>1. /\ settled[n] \in Seq(SUBSET Ops) /\ settled[n] # <<>>
      /\ settled'[n] = Tail(settled[n]) /\ lastSync'[n] = Head(settled[n])
      /\ lines'[n] = lines[n] /\ calls'[n] = calls[n]
  BY DEF Advance, TypeOK, pipeVars
<1>2. /\ Head(settled[n]) \in Range(settled[n])
      /\ Range(settled'[n]) \subseteq Range(settled[n])
  BY <1>1, RangeTail
<1> QED
  BY <1>1, <1>2 DEF Omitted

\* Two engines announce a link; nothing else changes in what they wrote.
LEMMA LinkUpLines ==
  ASSUME TypeOK, NEW a \in Nodes, NEW b \in Nodes, LinkUp(a, b), NEW n \in Nodes
  PROVE  /\ n \in {a, b} => Range(lines'[n]) = Range(lines[n]) \cup {Up}
         /\ n \notin {a, b} => lines'[n] = lines[n]
<1>1. lines[n] \in Seq(Line) /\ Up \in Line
  BY DEF TypeOK, Line
<1>2. Range(Append(lines[n], Up)) = Range(lines[n]) \cup {Up}
  BY <1>1, RangeAppend
<1> QED
  BY <1>2 DEF LinkUp, TypeOK

\* The engine's answer carries what its message and the omitted part make up.
LEMMA OmittedBroadcast ==
  ASSUME TypeOK, NEW n \in Nodes, EngineBroadcast(n)
  PROVE  Omitted(n)' \subseteq Omitted(n) \cup Head(calls[n]).delta
<1> DEFINE c == Head(calls[n])
<1>1. /\ calls[n] \in Seq(Call) /\ calls[n] # <<>> /\ lines[n] \in Seq(Line)
      /\ calls'[n] = Tail(calls[n])
      /\ lines'[n] = Append(lines[n], Answer(c.version))
      /\ lastSync'[n] = lastSync[n] /\ settled'[n] = settled[n]
  BY DEF EngineBroadcast, TypeOK, nodeVars
<1>2. c \in Range(calls[n]) /\ Range(calls'[n]) \subseteq Range(calls[n])
  BY <1>1, RangeTail
<1>3. c.version \in SUBSET Ops
  BY <1>1, HeadsTyped
<1>4. Answer(c.version) \in Line /\ Answer(c.version).version = c.version
  BY <1>3, LineKinds, RangeTyped DEF Line
<1>5. Range(lines'[n]) = Range(lines[n]) \cup {Answer(c.version)}
  BY <1>1, <1>4, RangeAppend
<1> QED
  BY <1>1, <1>2, <1>4, <1>5 DEF Omitted

\* Only a message it puts on the topic adds to what an agent omits.
LEMMA OmittedShrinks ==
  ASSUME TypeOK, [Next]_vars, NEW n \in Nodes, ~EngineBroadcast(n)
  PROVE  Omitted(n)' \subseteq Omitted(n)
<1> USE DEF storeVars, nodeVars, pipeVars, gossipVars
<1>1. CASE \E k \in Nodes : Write(k) \/ Save(k) \/ Deliver(k) \/ Lose(k)
  BY <1>1, OmittedKept DEF Write, Save, Deliver, Lose
<1>2. ASSUME NEW k \in Nodes, Debounced(k) \/ Resync(k)
      PROVE  Omitted(n)' \subseteq Omitted(n)
  <2>1. StartBroadcast(k) /\ UNCHANGED <<lastSync, lines, settled>>
    BY <1>2 DEF Debounced, Resync
  <2>2. k # n => calls'[n] = calls[n]
    BY <2>1 DEF StartBroadcast, TypeOK
  <2> QED
    BY <2>1, <2>2, OmittedStart, OmittedKept
<1>3. ASSUME NEW k \in Nodes, ReadLine(k)
      PROVE  Omitted(n)' \subseteq Omitted(n)
  <2>1. k # n => UNCHANGED <<lastSync[n], calls[n], lines[n], settled[n]>>
    BY <1>3 DEF ReadLine, TypeOK
  <2> QED
    BY <1>3, <2>1, OmittedRead, OmittedKept
<1>4. ASSUME NEW k \in Nodes, Advance(k)
      PROVE  Omitted(n)' \subseteq Omitted(n)
  <2>1. k # n => UNCHANGED <<lastSync[n], calls[n], lines[n], settled[n]>>
    BY <1>4 DEF Advance, TypeOK
  <2> QED
    BY <1>4, <2>1, OmittedAdvance, OmittedKept
<1>5. ASSUME NEW k \in Nodes, EngineBroadcast(k)
      PROVE  Omitted(n)' \subseteq Omitted(n)
  <2>1. k # n
    BY <1>5
  <2>2. UNCHANGED <<lastSync[n], calls[n], lines[n], settled[n]>>
    BY <1>5, <2>1 DEF EngineBroadcast, TypeOK
  <2> QED
    BY <2>2, OmittedKept
<1>6. ASSUME NEW k \in Nodes, EngineRefuse(k)
      PROVE  Omitted(n)' \subseteq Omitted(n)
  <2>1. /\ UNCHANGED <<lastSync, lines, settled>>
        /\ k # n => calls'[n] = calls[n]
    BY <1>6 DEF EngineRefuse, TypeOK
  <2>2. k = n => Range(calls'[n]) \subseteq Range(calls[n])
    BY <1>6, RangeTail DEF EngineRefuse, TypeOK
  <2> QED
    BY <2>1, <2>2 DEF Omitted
<1>7. ASSUME NEW k \in Nodes, Restart(k)
      PROVE  Omitted(n)' \subseteq Omitted(n)
  <2>1. k # n => UNCHANGED <<lastSync[n], calls[n], lines[n], settled[n]>>
    BY <1>7 DEF Restart, TypeOK
  <2>2. k = n => /\ lastSync'[n] = {} /\ calls'[n] = <<>>
                 /\ lines'[n] = <<>> /\ settled'[n] = <<>>
    BY <1>7 DEF Restart, TypeOK
  <2>3. k = n => Omitted(n)' = {}
    BY <2>2, RangeEmpty DEF Omitted
  <2> QED
    BY <2>1, <2>3, OmittedKept
<1>8. ASSUME NEW a \in Nodes, NEW b \in Nodes, LinkUp(a, b)
      PROVE  Omitted(n)' \subseteq Omitted(n)
  <2>1. UNCHANGED <<lastSync, calls, settled>>
    BY <1>8 DEF LinkUp
  <2>2. Range(lines'[n]) \ {Up} = Range(lines[n]) \ {Up}
    BY <1>8, LinkUpLines
  <2> QED
    BY <2>1, <2>2 DEF Omitted
<1>9. CASE \E a, b \in Nodes : LinkDown(a, b)
  BY <1>9, OmittedKept DEF LinkDown
<1>10. CASE UNCHANGED vars
  BY <1>10, OmittedKept DEF vars
<1> QED
  BY <1>1, <1>2, <1>3, <1>4, <1>5, <1>6, <1>7, <1>8, <1>9, <1>10
     DEF Next, AgentStep, GossipStep

\* What an agent omits, its engine has broadcast since it started.
THEOREM OmittedWasBroadcast == Spec => []OmittedWasAired
<1>1. Init => AiredInv
  BY RangeEmpty DEF Init, AiredInv, Omitted
<1>2. TypeOK /\ AiredInv /\ [Next]_vars => AiredInv'
  <2> SUFFICES ASSUME TypeOK, AiredInv, [Next]_vars, NEW n \in Nodes
               PROVE  Omitted(n)' \subseteq aired'[n]
    BY DEF AiredInv
  <2> USE DEF storeVars, nodeVars, pipeVars, gossipVars
  <2>1. CASE EngineBroadcast(n)
    <3>1. aired'[n] = aired[n] \cup Head(calls[n]).delta
      BY <2>1 DEF EngineBroadcast, TypeOK
    <3> QED
      BY <2>1, <3>1, OmittedBroadcast DEF AiredInv
  <2>2. CASE Restart(n)
    <3>1. /\ lastSync'[n] = {} /\ calls'[n] = <<>>
          /\ lines'[n] = <<>> /\ settled'[n] = <<>>
      BY <2>2 DEF Restart, TypeOK
    <3> QED
      BY <3>1, RangeEmpty DEF Omitted
  <2>3. CASE ~EngineBroadcast(n) /\ ~Restart(n)
    <3>1. ASSUME NEW k \in Nodes, EngineBroadcast(k) \/ Restart(k)
          PROVE  aired'[n] = aired[n]
      <4>1. k # n
        BY <2>3, <3>1
      <4> QED
        BY <3>1, <4>1 DEF EngineBroadcast, Restart, TypeOK
    <3>2. ASSUME NEW k \in Nodes, AgentStep(k) \/ EngineRefuse(k) \/ Lose(k)
          PROVE  aired' = aired
      BY <3>2 DEF AgentStep, Write, Save, Debounced, Resync, ReadLine, Advance,
         Deliver, EngineRefuse, Lose
    <3>3. ASSUME NEW k \in Nodes, NEW l \in Nodes,
                 LinkUp(k, l) \/ LinkDown(k, l)
          PROVE  aired' = aired
      BY <3>3 DEF LinkUp, LinkDown
    <3>4. aired'[n] = aired[n]
      BY <3>1, <3>2, <3>3 DEF Next, GossipStep, vars
    <3> QED
      BY <2>3, <3>4, OmittedShrinks DEF AiredInv
  <2> QED
    BY <2>1, <2>2, <2>3
<1>3. AiredInv => OmittedWasAired
  BY DEF AiredInv, OmittedWasAired, Omitted
<1> QED
  BY TypeCorrect, <1>1, <1>2, <1>3, PTL DEF Spec

-----------------------------------------------------------------------------
(***************************************************************************)
(* What a neighbour gets.                                                  *)
(***************************************************************************)

\* A step that keeps a link, and is no loss on it, keeps what is coming over it.
LEMMA ComingKept ==
  ASSUME TypeOK, intact', [Next]_vars, NEW n \in Nodes, NEW m \in Nodes \ {n},
         {n, m} \in links, {n, m} \in links'
  PROVE  Coming(n, m) \subseteq Coming(n, m)'
<1> USE DEF storeVars, nodeVars, pipeVars, gossipVars
<1>1. ASSUME NEW k \in Nodes, Write(k)
      PROVE  Coming(n, m) \subseteq Coming(n, m)'
  BY <1>1 DEF Write, Coming, TypeOK
<1>2. ASSUME NEW k \in Nodes, Deliver(k)
      PROVE  Coming(n, m) \subseteq Coming(n, m)'
  <2> PICK msg \in net[k] :
          /\ received' = [received EXCEPT ![k] = @ \cup msg.delta]
          /\ net' = [net EXCEPT ![k] = @ \ {msg}]
    BY <1>2 DEF Deliver
  <2>1. CASE k = m
    <3>1. received'[m] = received[m] \cup msg.delta /\ net'[m] = net[m] \ {msg}
      BY <2>1 DEF TypeOK
    <3> QED
      BY <3>1 DEF Coming
  <2>2. CASE k # m
    BY <2>2 DEF Coming, TypeOK
  <2> QED
    BY <2>1, <2>2
<1>3. ASSUME NEW k \in Nodes, EngineBroadcast(k)
      PROVE  Coming(n, m) \subseteq Coming(n, m)'
  <2>1. received' = received /\ net[m] \subseteq net'[m]
    BY <1>3 DEF EngineBroadcast, TypeOK
  <2> QED
    BY <2>1 DEF Coming
<1>4. ASSUME NEW k \in Nodes, Restart(k)
      PROVE  Coming(n, m) \subseteq Coming(n, m)'
  <2>1. k # n /\ k # m
    BY <1>4 DEF Restart
  <2>2. received'[m] = received[m]
    BY <1>4, <2>1 DEF Restart, TypeOK
  <2>3. \A msg \in net[m] : msg.from = n => msg \in net'[m]
    BY <1>4, <2>1 DEF Restart
  <2> QED
    BY <2>2, <2>3 DEF Coming
<1>5. ASSUME NEW a \in Nodes, NEW b \in Nodes, LinkDown(a, b)
      PROVE  Coming(n, m) \subseteq Coming(n, m)'
  <2>1. {a, b} # {n, m} /\ received'[m] = received[m]
    BY <1>5 DEF LinkDown
  <2>2. \A msg \in net[m] : msg.from = n => msg \in net'[m]
    <3> PICK lost \in SUBSET ({msg \in net[b] : msg.from = a}
                              \cup {msg \in net[a] : msg.from = b}) :
            net' = [net EXCEPT ![b] = @ \ lost, ![a] = @ \ lost]
      BY <1>5 DEF LinkDown
    <3> QED
      BY <2>1 DEF TypeOK
  <2>3. UNION {msg.delta : msg \in {x \in net[m] : x.from = n}}
            \subseteq UNION {msg.delta : msg \in {x \in net'[m] : x.from = n}}
    BY <2>2
  <2> QED
    BY <2>1, <2>3 DEF Coming
<1>6. ASSUME NEW k \in Nodes, Save(k) \/ Debounced(k) \/ Resync(k) \/ ReadLine(k)
                              \/ Advance(k) \/ EngineRefuse(k)
      PROVE  Coming(n, m) \subseteq Coming(n, m)'
  <2>1. received' = received /\ net' = net
    BY <1>6 DEF Save, Debounced, Resync, ReadLine, Advance, EngineRefuse
  <2> QED
    BY <2>1 DEF Coming
<1>7. ASSUME NEW a \in Nodes, NEW b \in Nodes, LinkUp(a, b)
      PROVE  Coming(n, m) \subseteq Coming(n, m)'
  BY <1>7 DEF LinkUp, Coming
<1>8. CASE UNCHANGED vars
  BY <1>8 DEF vars, Coming
<1> QED
  BY <1>1, <1>2, <1>3, <1>4, <1>5, <1>6, <1>7, <1>8
     DEF Next, AgentStep, GossipStep, Lose

\* An agent with a NeighborUp to read has no broadcast under way.
LEMMA PendingIsIdle ==
  ASSUME TypeOK, ~MayRace, [Next]_vars, \A k \in Nodes : UpPending(k) => Idle(k),
         NEW n \in Nodes, UpPending(n)'
  PROVE  Idle(n)'
<1> USE DEF storeVars, nodeVars, pipeVars, gossipVars
<1>1. lines[n] \in Seq(Line) /\ Up \in Line
  BY DEF TypeOK, Line
<1>2. ASSUME UNCHANGED <<calls[n], lines[n], settled[n]>>
      PROVE  Idle(n)'
  BY <1>2 DEF UpPending, Idle
<1>3. ASSUME NEW k \in Nodes, Debounced(k) \/ Resync(k)
      PROVE  Idle(n)'
  <2>1. StartBroadcast(k) /\ UNCHANGED <<lines, settled>>
    BY <1>3 DEF Debounced, Resync
  <2>2. k # n
    BY <2>1 DEF StartBroadcast, UpPending
  <2>3. UNCHANGED <<calls[n], lines[n], settled[n]>>
    BY <2>1, <2>2 DEF StartBroadcast, TypeOK
  <2> QED
    BY <1>2, <2>3
<1>4. ASSUME NEW k \in Nodes, ReadLine(k)
      PROVE  Idle(n)'
  <2>1. CASE k = n
    <3>1. /\ lines[n] # <<>> /\ lines'[n] = Tail(lines[n])
          /\ calls'[n] = calls[n]
      BY <1>4, <2>1 DEF ReadLine, TypeOK
    <3>2. /\ Head(lines[n]) \in Range(lines[n])
          /\ Range(lines'[n]) \subseteq Range(lines[n])
      BY <1>1, <3>1, RangeTail
    <3>3. UpPending(n)
      BY <3>2 DEF UpPending
    <3>4. Idle(n)
      BY <3>3
    <3>5. Head(lines[n]) = Up
      BY <3>2, <3>4 DEF Idle
    <3>6. settled'[n] = settled[n]
      BY <1>4, <2>1, <3>5 DEF ReadLine
    <3> QED
      BY <3>1, <3>2, <3>4, <3>6 DEF Idle
  <2>2. CASE k # n
    <3>1. UNCHANGED <<calls[n], lines[n], settled[n]>>
      BY <1>4, <2>2 DEF ReadLine, TypeOK
    <3> QED
      BY <1>2, <3>1
  <2> QED
    BY <2>1, <2>2
<1>5. ASSUME NEW k \in Nodes, Advance(k)
      PROVE  Idle(n)'
  <2>1. k # n
    BY <1>5 DEF Advance, UpPending, Idle
  <2>2. UNCHANGED <<calls[n], lines[n], settled[n]>>
    BY <1>5, <2>1 DEF Advance, TypeOK
  <2> QED
    BY <1>2, <2>2
<1>6. ASSUME NEW k \in Nodes, EngineBroadcast(k)
      PROVE  Idle(n)'
  <2>1. CASE k = n
    <3>1. ~UpPending(n)
      BY <1>6, <2>1 DEF EngineBroadcast, Idle
    <3>2. Head(calls[n]).version \in SUBSET Ops
      BY <1>6, <2>1, HeadsTyped DEF EngineBroadcast
    <3> DEFINE a == Answer(Head(calls[n]).version)
    <3>3. a \in Line /\ a # Up
      <4>1. a.kind # Up.kind
        BY DEF Answer, Up
      <4> QED
        BY <3>2, <4>1 DEF Line
    <3>4. lines'[n] = Append(lines[n], a)
      BY <1>6, <2>1 DEF EngineBroadcast, TypeOK
    <3> HIDE DEF a
    <3>5. Range(Append(lines[n], a)) = Range(lines[n]) \cup {a}
      BY <1>1, <3>3, RangeAppend
    <3> QED
      BY <3>1, <3>3, <3>4, <3>5 DEF UpPending
  <2>2. CASE k # n
    <3>1. UNCHANGED <<calls[n], lines[n], settled[n]>>
      BY <1>6, <2>2 DEF EngineBroadcast, TypeOK
    <3> QED
      BY <1>2, <3>1
  <2> QED
    BY <2>1, <2>2
<1>7. ASSUME NEW k \in Nodes, EngineRefuse(k)
      PROVE  Idle(n)'
  <2>1. k # n
    BY <1>7 DEF EngineRefuse, UpPending, Idle
  <2>2. UNCHANGED <<calls[n], lines[n], settled[n]>>
    BY <1>7, <2>1 DEF EngineRefuse, TypeOK
  <2> QED
    BY <1>2, <2>2
<1>8. ASSUME NEW k \in Nodes, Restart(k)
      PROVE  Idle(n)'
  <2>1. CASE k = n
    <3>1. lines'[n] = <<>>
      BY <1>8, <2>1 DEF Restart, TypeOK
    <3> QED
      BY <3>1, RangeEmpty DEF UpPending
  <2>2. CASE k # n
    <3>1. UNCHANGED <<calls[n], lines[n], settled[n]>>
      BY <1>8, <2>2 DEF Restart, TypeOK
    <3> QED
      BY <1>2, <3>1
  <2> QED
    BY <2>1, <2>2
<1>9. ASSUME NEW a \in Nodes, NEW b \in Nodes, LinkUp(a, b)
      PROVE  Idle(n)'
  <2>1. UNCHANGED <<calls, settled>>
    BY <1>9 DEF LinkUp
  <2>2. CASE n \in {a, b}
    <3>1. Idle(n)
      BY <1>9, <2>2 DEF LinkUp
    <3> QED
      BY <1>9, <2>1, <2>2, <3>1, LinkUpLines DEF Idle
  <2>3. CASE n \notin {a, b}
    <3>1. lines'[n] = lines[n]
      BY <1>9, <2>3, LinkUpLines
    <3> QED
      BY <1>2, <2>1, <3>1
  <2> QED
    BY <2>2, <2>3
<1>10. ASSUME \/ \E k \in Nodes : Write(k) \/ Save(k) \/ Deliver(k) \/ Lose(k)
              \/ \E a, b \in Nodes : LinkDown(a, b)
              \/ UNCHANGED vars
       PROVE  Idle(n)'
  <2>1. UNCHANGED <<calls, lines, settled>>
    BY <1>10 DEF Write, Save, Deliver, Lose, LinkDown, vars
  <2> QED
    BY <1>2, <2>1
<1> QED
  BY <1>3, <1>4, <1>5, <1>6, <1>7, <1>8, <1>9, <1>10
     DEF Next, AgentStep, GossipStep

\* A NeighborUp that waits is read or goes with the process; once an agent
\* has read the last one it omits nothing.
LEMMA PendingRead ==
  ASSUME TypeOK, [Next]_vars, NEW n \in Nodes, UpPending(n), Idle(n),
         ~UpPending(n)'
  PROVE  Omitted(n)' = {}
<1> USE DEF storeVars, nodeVars, pipeVars, gossipVars
<1>1. lines[n] \in Seq(Line) /\ Range(lines[n]) \subseteq {Up}
      /\ calls[n] = <<>> /\ settled[n] = <<>>
  BY DEF TypeOK, Idle
<1>2. lines'[n] # lines[n]
  BY DEF UpPending
<1>3. ASSUME ReadLine(n)
      PROVE  Omitted(n)' = {}
  <2>1. lines[n] # <<>> /\ lines'[n] = Tail(lines[n])
    BY <1>3 DEF ReadLine, TypeOK
  <2>2. /\ Head(lines[n]) \in Range(lines[n])
        /\ Range(lines'[n]) \subseteq Range(lines[n])
    BY <1>1, <2>1, RangeTail
  <2>3. Head(lines[n]) = Up
    BY <1>1, <2>2
  <2>4. lastSync'[n] = {} /\ calls'[n] = <<>> /\ settled'[n] = <<>>
    BY <1>1, <1>3, <2>3 DEF ReadLine, TypeOK
  <2> QED
    BY <1>1, <2>2, <2>4, RangeEmpty DEF Omitted
<1>4. ASSUME Restart(n)
      PROVE  Omitted(n)' = {}
  <2>1. /\ lastSync'[n] = {} /\ calls'[n] = <<>>
        /\ lines'[n] = <<>> /\ settled'[n] = <<>>
    BY <1>4 DEF Restart, TypeOK
  <2> QED
    BY <2>1, RangeEmpty DEF Omitted
<1>5. ~EngineBroadcast(n)
  BY <1>1 DEF EngineBroadcast
<1>6. ASSUME NEW k \in Nodes,
             k # n /\ (ReadLine(k) \/ EngineBroadcast(k) \/ Restart(k))
      PROVE  lines'[n] = lines[n]
  BY <1>6 DEF ReadLine, EngineBroadcast, Restart, TypeOK
<1>7. ASSUME NEW k \in Nodes,
             \/ Write(k) \/ Save(k) \/ Debounced(k) \/ Resync(k) \/ Advance(k)
             \/ Deliver(k) \/ EngineRefuse(k) \/ Lose(k)
      PROVE  lines'[n] = lines[n]
  BY <1>7 DEF Write, Save, Debounced, Resync, Advance, Deliver, EngineRefuse,
     Lose
<1>8. ASSUME NEW a \in Nodes, NEW b \in Nodes, LinkUp(a, b)
      PROVE  lines'[n] = lines[n]
  BY <1>8, LinkUpLines DEF UpPending
<1>9. ASSUME NEW a \in Nodes, NEW b \in Nodes, LinkDown(a, b)
      PROVE  lines'[n] = lines[n]
  BY <1>9 DEF LinkDown
<1>10. UNCHANGED vars => lines'[n] = lines[n]
  BY DEF vars
<1> QED
  BY <1>2, <1>3, <1>4, <1>5, <1>6, <1>7, <1>8, <1>9, <1>10
     DEF Next, AgentStep, GossipStep

\* A link comes up only with a NeighborUp for both of its ends.
LEMMA NewLinkPending ==
  ASSUME TypeOK, [Next]_vars, NEW n \in Nodes, NEW m \in Nodes,
         {n, m} \notin links, {n, m} \in links'
  PROVE  UpPending(n)'
<1> USE DEF storeVars, nodeVars, pipeVars, gossipVars
<1>1. ASSUME NEW a \in Nodes, NEW b \in Nodes, LinkUp(a, b)
      PROVE  UpPending(n)'
  <2>1. n \in {a, b}
    BY <1>1 DEF LinkUp
  <2> QED
    BY <1>1, <2>1, LinkUpLines DEF UpPending
<1>2. ASSUME NEW k \in Nodes, AgentStep(k) \/ GossipStep(k)
      PROVE  FALSE
  BY <1>2 DEF AgentStep, GossipStep, Write, Save, Debounced, Resync, ReadLine,
     Advance, Deliver, EngineBroadcast, EngineRefuse, Lose, Restart
<1>3. ASSUME NEW a \in Nodes, NEW b \in Nodes, LinkDown(a, b)
      PROVE  FALSE
  BY <1>3 DEF LinkDown
<1> QED
  BY <1>1, <1>2, <1>3 DEF Next, vars

\* A message that was lost stays lost.
LEMMA IntactBefore ==
  ASSUME TypeOK, [Next]_vars, intact'
  PROVE  intact
<1> USE DEF storeVars, nodeVars, pipeVars, gossipVars
<1>1. ASSUME NEW k \in Nodes, AgentStep(k) \/ GossipStep(k)
      PROVE  intact
  BY <1>1 DEF AgentStep, GossipStep, Write, Save, Debounced, Resync, ReadLine,
     Advance, Deliver, EngineBroadcast, EngineRefuse, Lose, Restart
<1>2. ASSUME NEW a \in Nodes, NEW b \in Nodes, LinkUp(a, b) \/ LinkDown(a, b)
      PROVE  intact
  BY <1>2 DEF LinkUp, LinkDown
<1>3. CASE UNCHANGED vars
  BY <1>3 DEF vars
<1> QED
  BY <1>1, <1>2, <1>3 DEF Next

\* The invariant that says what an agent leaves out is kept by every step.
LEMMA ReachKept ==
  ASSUME TypeOK, ~MayRace, ReachInv, [Next]_vars
  PROVE  ReachInv'
<1>1. \A n \in Nodes : UpPending(n)' => Idle(n)'
  BY PendingIsIdle DEF ReachInv
<1>2. ASSUME intact', NEW n \in Nodes, NEW m \in Nodes \ {n},
             {n, m} \in links', ~UpPending(n)'
      PROVE  Omitted(n)' \subseteq Coming(n, m)'
  <2>0. intact
    BY <1>2, IntactBefore
  <2>1. {n, m} \in links
    BY <1>2, NewLinkPending
  <2>2. CASE UpPending(n)
    BY <1>2, <2>2, PendingRead DEF ReachInv
  <2>3. CASE ~UpPending(n)
    <3>1. Omitted(n) \subseteq Coming(n, m)
      BY <2>0, <2>1, <2>3 DEF ReachInv, Neighbors
    <3>2. Coming(n, m) \subseteq Coming(n, m)'
      BY <1>2, <2>1, ComingKept
    <3>3. CASE EngineBroadcast(n)
      <4> DEFINE d == Head(calls[n]).delta
      <4>1. Omitted(n)' \subseteq Omitted(n) \cup d
        BY <3>3, OmittedBroadcast
      <4>2. d # {} => [from |-> n, delta |-> d] \in net'[m]
        BY <2>1, <3>3 DEF EngineBroadcast, Neighbors
      <4>3. d \subseteq Coming(n, m)'
        BY <4>2 DEF Coming
      <4> QED
        BY <3>1, <3>2, <4>1, <4>3
    <3>4. CASE ~EngineBroadcast(n)
      BY <3>1, <3>2, <3>4, OmittedShrinks
    <3> QED
      BY <3>3, <3>4
  <2> QED
    BY <2>2, <2>3
<1> QED
  BY <1>1, <1>2 DEF ReachInv, Neighbors

\* When a NeighborUp never overtakes a broadcast, and until gossip loses a
\* message on a link that stays up, whatever an agent leaves out of its deltas
\* every neighbour has or is about to get.
THEOREM SyncedReachesNeighbors ==
  ASSUME ~MayRace
  PROVE  Spec => []SyncedIsDelivered
<1>1. Init => ReachInv
  BY RangeEmpty DEF Init, ReachInv, UpPending, Neighbors
<1>2. TypeOK /\ ReachInv /\ [Next]_vars => ReachInv'
  BY ReachKept
<1>3. ReachInv => SyncedIsDelivered
  BY DEF ReachInv, SyncedIsDelivered, Omitted
<1> QED
  BY TypeCorrect, <1>1, <1>2, <1>3, PTL DEF Spec

-----------------------------------------------------------------------------
(***************************************************************************)
(* Agents at rest.                                                         *)
(***************************************************************************)

\* No line or message is under way, and every agent has had an answer to a
\* broadcast of what it shows.
Resting ==
    \A n \in Nodes : lines[n] = <<>> /\ net[n] = {} /\ lastSync[n] = Applied(n)

NeighborsAgree == \A n \in Nodes : \A m \in Neighbors(n) : Applied(n) = Applied(m)

\* Whatever is anywhere was written, and what an operation depends on is closed.
WrittenInv ==
    /\ \A op \in written : op[2] <= Cardinality(written)
    /\ \A op \in Ops : deps[op] \subseteq written
    /\ \A op \in Ops : \A x \in deps[op] : deps[x] \subseteq deps[op]
    /\ \A n \in Nodes :
          /\ received[n] \subseteq written /\ saved[n] \subseteq written
          /\ \A msg \in net[n] : msg.delta \subseteq written
          /\ \A c \in Range(calls[n]) : c.delta \subseteq written

\* What an agent shows has the whole past of each of its operations.
LEMMA AppliedIsClosed ==
  ASSUME TypeOK, WrittenInv, NEW n \in Nodes
  PROVE  /\ Applied(n) \subseteq received[n] /\ Applied(n) \subseteq written
         /\ \A op \in Applied(n) : deps[op] \subseteq Applied(n)
<1>1. Applied(n) \subseteq received[n]
  BY DEF Applied, Complete
<1>2. received[n] \subseteq written /\ received[n] \subseteq Ops
  BY DEF WrittenInv, TypeOK
<1>3. ASSUME NEW op \in Applied(n), NEW x \in deps[op]
      PROVE  x \in Applied(n)
  <2>1. op \in received[n] /\ deps[op] \subseteq received[n] /\ op \in Ops
    BY <1>1, <1>2 DEF Applied, Complete
  <2>2. deps[x] \subseteq deps[op]
    BY <2>1 DEF WrittenInv
  <2> QED
    BY <2>1, <2>2 DEF Applied, Complete
<1> QED
  BY <1>1, <1>2, <1>3

\* A new operation is one that nothing depends on.
LEMMA WriteWritten ==
  ASSUME TypeOK, WrittenInv, NEW n \in Nodes, Write(n)
  PROVE  WrittenInv'
<1> DEFINE op == <<n, Cardinality(written) + 1>>
<1>1. /\ written' = written \cup {op}
      /\ deps' = [deps EXCEPT ![op] = Applied(n)]
      /\ received' = [received EXCEPT ![n] = @ \cup {op}]
      /\ saved' = saved /\ net' = net /\ calls' = calls
      /\ Cardinality(written) < MaxWrites
  BY DEF Write, pipeVars, gossipVars
<1>2. IsFiniteSet(written) /\ Cardinality(written) \in Nat
  BY FS_CardinalityType DEF TypeOK
<1>3. op \in Ops
  <2>1. Cardinality(written) + 1 \in 1 .. MaxWrites
    BY <1>1, <1>2, ReplicationAssumption
  <2> QED
    BY <2>1 DEF Ops
<1>4. op \notin written
  <2> SUFFICES ASSUME op \in written PROVE FALSE
    OBVIOUS
  <2>1. op[2] <= Cardinality(written)
    BY DEF WrittenInv
  <2> QED
    BY <2>1, <1>2
<1>5. Cardinality(written') = Cardinality(written) + 1
  BY <1>1, <1>2, <1>4, FS_AddElement
<1>6. ASSUME NEW o \in written' PROVE o[2] <= Cardinality(written')
  <2>1. CASE o = op
    BY <2>1, <1>2, <1>5
  <2>2. CASE o \in written
    <3>1. o[2] <= Cardinality(written) /\ o[2] \in Nat
      BY <2>2 DEF WrittenInv, TypeOK, Ops
    <3> QED
      BY <3>1, <1>2, <1>5
  <2> QED
    BY <1>1, <1>6, <2>1, <2>2
<1> HIDE DEF op
<1>7. deps \in [Ops -> SUBSET Ops]
  BY DEF TypeOK
<1>8. deps'[op] = Applied(n) /\ \A o \in Ops \ {op} : deps'[o] = deps[o]
  BY <1>1, <1>3, <1>7
<1>9. Applied(n) \subseteq written /\ \A o \in Applied(n) : deps[o] \subseteq Applied(n)
  BY AppliedIsClosed
<1>10. written \subseteq Ops
  BY DEF TypeOK
<1>11. ASSUME NEW o \in Ops PROVE deps'[o] \subseteq written /\ op \notin deps'[o]
  <2>1. CASE o = op
    BY <2>1, <1>4, <1>8, <1>9
  <2>2. CASE o # op
    BY <2>2, <1>4, <1>8 DEF WrittenInv
  <2> QED
    BY <2>1, <2>2
<1>12. ASSUME NEW o \in Ops, NEW x \in deps'[o] PROVE deps'[x] \subseteq deps'[o]
  <2>1. x \in Ops \ {op}
    BY <1>10, <1>11, <1>12
  <2>2. deps'[x] = deps[x]
    BY <2>1, <1>8
  <2>3. CASE o = op
    BY <2>2, <2>3, <1>8, <1>9, <1>12
  <2>4. CASE o # op
    <3>1. deps'[o] = deps[o]
      BY <2>4, <1>8
    <3> QED
      BY <2>2, <3>1, <1>12 DEF WrittenInv
  <2> QED
    BY <2>3, <2>4
<1>13. ASSUME NEW m \in Nodes PROVE received'[m] \subseteq written'
  <2>1. received'[m] \subseteq received[m] \cup {op}
    BY <1>1 DEF TypeOK
  <2>2. received[m] \subseteq written
    BY DEF WrittenInv
  <2> QED
    BY <2>1, <2>2, <1>1
<1>14. \A o \in Ops : deps'[o] \subseteq written'
  BY <1>1, <1>11
<1>15. \A m \in Nodes :
          /\ saved'[m] \subseteq written'
          /\ \A msg \in net'[m] : msg.delta \subseteq written'
          /\ \A c \in Range(calls'[m]) : c.delta \subseteq written'
  <2>1. written \subseteq written'
    BY <1>1
  <2>2. \A m \in Nodes :
          /\ saved[m] \subseteq written
          /\ \A msg \in net[m] : msg.delta \subseteq written
          /\ \A c \in Range(calls[m]) : c.delta \subseteq written
    BY DEF WrittenInv
  <2> QED
    BY <2>1, <2>2, <1>1
<1> QED
  BY <1>6, <1>12, <1>13, <1>14, <1>15 DEF WrittenInv

\* A step that writes nothing and brings nothing new to any place.
LEMMA OtherWritten ==
  ASSUME WrittenInv, written' = written, deps' = deps,
         \A n \in Nodes :
            /\ received'[n] \subseteq written /\ saved'[n] \subseteq written
            /\ \A msg \in net'[n] : msg.delta \subseteq written
            /\ \A c \in Range(calls'[n]) : c.delta \subseteq written
  PROVE  WrittenInv'
  BY DEF WrittenInv

LEMMA WrittenKept ==
  ASSUME TypeOK, WrittenInv, [Next]_vars
  PROVE  WrittenInv'
<1> USE DEF storeVars, nodeVars, pipeVars, gossipVars
<1>0. \A n \in Nodes :
          /\ received[n] \subseteq written /\ saved[n] \subseteq written
          /\ \A msg \in net[n] : msg.delta \subseteq written
          /\ \A c \in Range(calls[n]) : c.delta \subseteq written
  BY DEF WrittenInv
<1>1. ASSUME NEW n \in Nodes, Write(n) PROVE WrittenInv'
  BY <1>1, WriteWritten
<1>2. ASSUME NEW n \in Nodes, Save(n) PROVE WrittenInv'
  <2>1. saved' = [saved EXCEPT ![n] = Applied(n)] /\ written' = written /\ deps' = deps
        /\ received' = received /\ net' = net /\ calls' = calls
    BY <1>2 DEF Save
  <2>2. \A m \in Nodes : saved'[m] \subseteq written
    BY <2>1, <1>0, AppliedIsClosed DEF TypeOK
  <2> QED
    BY <2>1, <2>2, <1>0, OtherWritten
<1>3. ASSUME NEW n \in Nodes, Debounced(n) \/ Resync(n) PROVE WrittenInv'
  <2> DEFINE call == [delta |-> Applied(n) \ lastSync[n], version |-> Applied(n)]
  <2>1. calls' = [calls EXCEPT ![n] = Append(@, call)] /\ written' = written /\ deps' = deps
        /\ received' = received /\ net' = net /\ saved' = saved
    BY <1>3 DEF Debounced, Resync, StartBroadcast
  <2>2. call.delta \subseteq written /\ call \in Call
    <3>1. Applied(n) \subseteq written /\ Applied(n) \subseteq Ops
      BY AppliedIsClosed DEF TypeOK
    <3> QED
      BY <3>1 DEF Call
  <2>3. calls[n] \in Seq(Call)
    BY DEF TypeOK
  <2> HIDE DEF call
  <2>4. calls'[n] = Append(calls[n], call) /\ \A m \in Nodes \ {n} : calls'[m] = calls[m]
    BY <2>1 DEF TypeOK
  <2>5. Range(calls'[n]) = Range(calls[n]) \cup {call}
    BY <2>2, <2>3, <2>4, RangeAppend
  <2>6. \A m \in Nodes : \A c \in Range(calls'[m]) : c.delta \subseteq written
    BY <2>2, <2>4, <2>5, <1>0
  <2> QED
    BY <2>1, <2>6, <1>0, OtherWritten
<1>4. ASSUME NEW n \in Nodes, ReadLine(n) \/ Advance(n) PROVE WrittenInv'
  <2>1. UNCHANGED <<written, deps, received, saved, net, calls>>
    BY <1>4 DEF ReadLine, Advance
  <2> QED
    BY <2>1, <1>0, OtherWritten
<1>5. ASSUME NEW n \in Nodes, Deliver(n) PROVE WrittenInv'
  <2>1. PICK msg \in net[n] :
           /\ received' = [received EXCEPT ![n] = @ \cup msg.delta]
           /\ net' = [net EXCEPT ![n] = @ \ {msg}]
           /\ UNCHANGED <<written, deps, saved, calls>>
    BY <1>5 DEF Deliver
  <2>2. \A m \in Nodes : net'[m] \subseteq net[m] /\ received'[m] \subseteq received[m] \cup msg.delta
    BY <2>1 DEF TypeOK
  <2>3. msg.delta \subseteq written
    BY <1>0
  <2> QED
    BY <2>1, <2>2, <2>3, <1>0, OtherWritten
<1>6. ASSUME NEW n \in Nodes, EngineBroadcast(n) PROVE WrittenInv'
  <2> DEFINE delta == Head(calls[n]).delta
             msg   == [from |-> n, delta |-> delta]
  <2>1. calls[n] # <<>> /\ calls' = [calls EXCEPT ![n] = Tail(@)]
        /\ UNCHANGED <<written, deps, received, saved>>
    BY <1>6 DEF EngineBroadcast
  <2>2. calls[n] \in Seq(Call)
    BY DEF TypeOK
  <2>3. Head(calls[n]) \in Range(calls[n]) /\ Range(Tail(calls[n])) \subseteq Range(calls[n])
    BY <2>1, <2>2, RangeTail
  <2>4. delta \subseteq written
    BY <2>3, <1>0
  <2>5. \A m \in Nodes : net'[m] \subseteq net[m] \cup {msg}
    BY <1>6 DEF EngineBroadcast
  <2>6. \A m \in Nodes : \A c \in Range(calls'[m]) : c.delta \subseteq written
    <3>1. \A m \in Nodes : Range(calls'[m]) \subseteq Range(calls[m])
      BY <2>1, <2>3 DEF TypeOK
    <3> QED
      BY <3>1, <1>0
  <2>7. msg.delta = delta
    OBVIOUS
  <2> HIDE DEF msg, delta
  <2>8. \A m \in Nodes : \A x \in net'[m] : x.delta \subseteq written
    BY <2>4, <2>5, <2>7, <1>0
  <2> QED
    BY <2>1, <2>6, <2>8, <1>0, OtherWritten
<1>7. ASSUME NEW n \in Nodes, EngineRefuse(n) PROVE WrittenInv'
  <2>1. calls[n] # <<>> /\ calls' = [calls EXCEPT ![n] = Tail(@)]
        /\ UNCHANGED <<written, deps, received, saved, net>>
    BY <1>7 DEF EngineRefuse
  <2>2. calls[n] \in Seq(Call)
    BY DEF TypeOK
  <2>3. Range(Tail(calls[n])) \subseteq Range(calls[n])
    BY <2>1, <2>2, RangeTail
  <2>4. \A m \in Nodes : Range(calls'[m]) \subseteq Range(calls[m])
    BY <2>1, <2>3 DEF TypeOK
  <2> QED
    BY <2>1, <2>4, <1>0, OtherWritten
<1>8. ASSUME NEW n \in Nodes, Lose(n) PROVE WrittenInv'
  <2>1. UNCHANGED <<written, deps, received, saved, calls>>
        /\ \A m \in Nodes : net'[m] \subseteq net[m]
    BY <1>8 DEF Lose, TypeOK
  <2> QED
    BY <2>1, <1>0, OtherWritten
<1>9. ASSUME NEW n \in Nodes, Restart(n) PROVE WrittenInv'
  <2>1. UNCHANGED <<written, deps, saved>>
        /\ received' = [received EXCEPT ![n] = saved[n]]
        /\ calls' = [calls EXCEPT ![n] = <<>>]
    BY <1>9 DEF Restart
  <2>2. \A m \in Nodes : net'[m] \subseteq net[m]
    BY <1>9 DEF Restart
  <2>3. \A m \in Nodes : Range(calls'[m]) \subseteq Range(calls[m])
    BY <2>1, RangeEmpty DEF TypeOK
  <2>4. \A m \in Nodes : received'[m] \subseteq received[m] \cup saved[m]
    BY <2>1 DEF TypeOK
  <2> QED
    BY <2>1, <2>2, <2>3, <2>4, <1>0, OtherWritten
<1>10. ASSUME NEW n \in Nodes, NEW m \in Nodes, LinkUp(n, m) PROVE WrittenInv'
  <2>1. UNCHANGED <<written, deps, received, saved, net, calls>>
    BY <1>10 DEF LinkUp
  <2> QED
    BY <2>1, <1>0, OtherWritten
<1>11. ASSUME NEW n \in Nodes, NEW m \in Nodes, LinkDown(n, m) PROVE WrittenInv'
  <2>1. UNCHANGED <<written, deps, received, saved, calls>>
    BY <1>11 DEF LinkDown
  <2>2. \A k \in Nodes : net'[k] \subseteq net[k]
    <3>1. PICK lost \in SUBSET ({msg \in net[m] : msg.from = n}
                                \cup {msg \in net[n] : msg.from = m}) :
            net' = [net EXCEPT ![m] = @ \ lost, ![n] = @ \ lost]
      BY <1>11 DEF LinkDown
    <3>2. ASSUME NEW k \in Nodes PROVE net'[k] \in {net[k], net[k] \ lost, (net[k] \ lost) \ lost}
      BY <3>1 DEF TypeOK
    <3> QED
      BY <3>2
  <2> QED
    BY <2>1, <2>2, <1>0, OtherWritten
<1>12. CASE UNCHANGED vars
  <2>1. UNCHANGED <<written, deps, received, saved, net, calls>>
    BY <1>12 DEF vars
  <2> QED
    BY <2>1, <1>0, OtherWritten
<1> QED
  BY <1>1, <1>2, <1>3, <1>4, <1>5, <1>6, <1>7, <1>8, <1>9, <1>10, <1>11, <1>12
     DEF Next, AgentStep, GossipStep

LEMMA RestAgrees ==
  ASSUME TypeOK, WrittenInv, SyncedIsDelivered, intact, Resting
  PROVE  NeighborsAgree
<1>1. ASSUME NEW n \in Nodes, NEW m \in Nodes, m \in Neighbors(n)
      PROVE  Applied(n) \subseteq Applied(m)
  <2>1. ~UpPending(n) /\ net[m] = {} /\ lastSync[n] = Applied(n)
    BY RangeEmpty DEF Resting, UpPending
  <2>2. Applied(n) \subseteq received[m]
    BY <1>1, <2>1 DEF SyncedIsDelivered, Coming
  <2>3. \A op \in Applied(n) : deps[op] \subseteq received[m]
    BY <2>2, AppliedIsClosed
  <2> QED
    BY <2>2, <2>3 DEF Applied, Complete
<1>2. ASSUME NEW n \in Nodes, NEW m \in Neighbors(n)
      PROVE  m \in Nodes /\ n \in Neighbors(m)
  BY <1>2 DEF Neighbors
<1>3. ASSUME NEW n \in Nodes, NEW m \in Neighbors(n) PROVE Applied(n) = Applied(m)
  <2>1. m \in Nodes /\ n \in Neighbors(m)
    BY <1>2
  <2>2. Applied(n) \subseteq Applied(m)
    BY <1>1, <2>1
  <2>3. Applied(m) \subseteq Applied(n)
    BY <1>1, <2>1
  <2> QED
    BY <2>2, <2>3
<1> QED
  BY <1>3 DEF NeighborsAgree

\* What Converges says is where this can only end: as soon as nothing is under
\* way and every agent has sent what it shows, neighbours show the same, unless
\* gossip lost a message on a link that stayed up (ReplicationManager).
THEOREM RestingNeighborsAgree ==
  ASSUME ~MayRace
  PROVE  Spec => [](intact /\ Resting => NeighborsAgree)
<1>1. Init => WrittenInv
  BY RangeEmpty, FS_EmptySet DEF Init, WrittenInv
<1>2. TypeOK /\ WrittenInv /\ [Next]_vars => WrittenInv'
  BY WrittenKept
<1>3. TypeOK /\ WrittenInv /\ SyncedIsDelivered => (intact /\ Resting => NeighborsAgree)
  BY RestAgrees
<1>4. Spec => []SyncedIsDelivered
  BY SyncedReachesNeighbors
<1> QED
  BY TypeCorrect, <1>1, <1>2, <1>3, <1>4, PTL DEF Spec
=============================================================================
