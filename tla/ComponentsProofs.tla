-------------------------- MODULE ComponentsProofs --------------------------
(***************************************************************************)
(* Proofs about Components for all values of its constants: each component *)
(* keeps its invariant, and with it the properties that the components     *)
(* have under the names of Components.  The order is that of Components:   *)
(* what each component does by itself, and then the theorems.              *)
(***************************************************************************)
EXTENDS Components, NumberLemmas

-----------------------------------------------------------------------------
(* Destinations: the marks of workers that overlap and fail, and what a     *)
(* request does to its destination, which changes only that.                *)

LEMMA DestInit == Dest!Init => Dest!DestinationsInv
<1> SUFFICES ASSUME Dest!Init  PROVE Dest!DestinationsInv
  OBVIOUS
<1> USE BatchAssumption DEF Dest!Init
<1>1. Dest!TypeOK
  BY DEF Dest!TypeOK
<1>2. Dest!Delivered = {} /\ 1 .. 0 = {}
  BY DEF Dest!Delivered
<1>3. Dest!MarksOrdered
  <2>1. ASSUME NEW w \in Sessions
        PROVE  mark[w] = 0 /\ sent[w] = 0 /\ top[w] = 0
    OBVIOUS
  <2> QED  BY <1>2, <2>1 DEF Dest!MarksOrdered
<1>4. Dest!KeysKnown
  BY DEF Dest!KeysKnown
<1> QED
  BY <1>1, <1>2, <1>3, <1>4
  DEF Dest!DestinationsInv, Dest!FirstDeliveriesInOrder, Dest!NothingPassedOver

\* Whatever the sink, a request is the rows that follow those already sent: one
\* of them, or all that are left of the batch.
LEMMA Requests ==
  ASSUME Dest!DestinationsInv, NEW w \in Sessions,
         Dest!nats_publish(w) \/ Dest!kafka_publish(w) \/
         Dest!webhook_publish(w) \/ Dest!inbox_publish(w)
  PROVE  \E n \in sent[w] + 1 .. top[w] :
            /\ Dest!Call(w, sent[w] + 1 .. n)
            /\ Dest!Cardinality(sent[w] + 1 .. n) = n - sent[w]
            /\ sink_type \in {"webhook", "inbox"} => n = top[w]
<1>1. /\ mark[w] \in Nat /\ sent[w] \in Nat /\ top[w] \in Nat
      /\ sent[w] < top[w]
      /\ sink_type \in {"webhook", "inbox"} => sent[w] \in {mark[w], top[w]}
  BY DEF Dest!DestinationsInv, Dest!TypeOK, Dest!MarksOrdered, Dest!Call,
     Dest!nats_publish, Dest!kafka_publish, Dest!webhook_publish, Dest!inbox_publish
<1>2. ASSUME NEW n \in sent[w] + 1 .. top[w]
      PROVE  Dest!Cardinality(sent[w] + 1 .. n) = n - sent[w]
  <2>1. Cardinality(sent[w] + 1 .. n) = n - sent[w]
    <3>1. sent[w] + 1 \in Int /\ n \in Int /\ sent[w] + 1 <= n
      BY <1>1
    <3>2. Cardinality(sent[w] + 1 .. n) = n - (sent[w] + 1) + 1
      BY <3>1, FS_Interval
    <3> QED  BY <1>1, <3>1, <3>2
  <2> QED  BY <2>1 DEF Cardinality, Dest!Cardinality
<1>3. CASE Dest!nats_publish(w) \/ Dest!kafka_publish(w)
  <2> DEFINE n == sent[w] + 1
  <2>1. n \in sent[w] + 1 .. top[w] /\ {n} = sent[w] + 1 .. n
    BY <1>1
  <2>2. Dest!Call(w, sent[w] + 1 .. n) /\ sink_type \notin {"webhook", "inbox"}
    BY <1>3, <2>1 DEF Dest!nats_publish, Dest!kafka_publish, Dest!NextMessage
  <2> QED  BY <1>2, <2>1, <2>2
<1>4. CASE Dest!webhook_publish(w) \/ Dest!inbox_publish(w)
  <2>1. sent[w] = mark[w] /\ top[w] \in sent[w] + 1 .. top[w]
    BY <1>1, <1>4 DEF Dest!webhook_publish, Dest!inbox_publish
  <2>2. Dest!Call(w, sent[w] + 1 .. top[w])
    BY <1>4, <2>1 DEF Dest!webhook_publish, Dest!inbox_publish, Dest!WholeBatch
  <2> QED  BY <1>2, <2>1, <2>2
<1> QED  BY <1>3, <1>4

\* What a destination takes takes effect, unless it remembers the key, and then
\* it has taken effect before.
LEMMA TakesRequest ==
  ASSUME Dest!TypeOK, Dest!KeysKnown, NEW request \in SUBSET Dest!Rows, Dest!Takes(request)
  PROVE  /\ effects' \in [Dest!Rows -> Nat] /\ keys' \subseteq SUBSET Dest!Rows
         /\ forgotten' = forgotten
         /\ request \subseteq Dest!Delivered'
         /\ Dest!Delivered \subseteq Dest!Delivered'
         /\ Dest!Delivered' \subseteq Dest!Delivered \cup request
         /\ sink_type' = sink_type => Dest!KeysKnown'
<1>1. effects \in [Dest!Rows -> Nat] /\ forgotten \in [Dest!Rows -> Nat]
      /\ keys \subseteq SUBSET Dest!Rows
  BY DEF Dest!TypeOK
<1>2. /\ effects' = [r \in Dest!Rows |->
                        effects[r] + IF r \in Dest!Fresh(request) THEN 1 ELSE 0]
      /\ forgotten' = forgotten
  BY DEF Dest!Takes
<1>3. \A r \in Dest!Rows : /\ effects[r] \in Nat
                           /\ r \in Dest!Fresh(request) => effects'[r] = effects[r] + 1
                           /\ r \notin Dest!Fresh(request) => effects'[r] = effects[r]
  BY <1>1, <1>2
<1>4. effects' \in [Dest!Rows -> Nat]
  BY <1>1, <1>2
<1>5. \A r \in request : Dest!idempotency_key(r, request) \in SUBSET Dest!Rows
                         /\ r \in Dest!idempotency_key(r, request)
                         /\ Dest!idempotency_key(r, request) \subseteq request
  BY DEF Dest!idempotency_key
<1>6. keys' \subseteq SUBSET Dest!Rows
      /\ \A k \in keys' : k \in keys \/ k \subseteq request
  BY <1>1, <1>5 DEF Dest!Takes
<1>7. Dest!Delivered \subseteq Dest!Delivered'
  BY <1>1, <1>3, <1>4 DEF Dest!Delivered
<1>8. request \subseteq Dest!Delivered'
  <2> SUFFICES ASSUME NEW r \in request  PROVE r \in Dest!Delivered'
    OBVIOUS
  <2>1. CASE r \in Dest!Fresh(request)
    BY <1>3, <2>1 DEF Dest!Delivered
  <2>2. CASE r \notin Dest!Fresh(request)
    <3>1. Dest!idempotency_key(r, request) \in keys
      BY <2>2 DEF Dest!Fresh
    <3> QED  BY <1>5, <1>7, <3>1 DEF Dest!KeysKnown
  <2> QED  BY <2>1, <2>2
<1>9. Dest!Fresh(request) \subseteq request
  BY DEF Dest!Fresh
<1>10. Dest!Delivered' \subseteq Dest!Delivered \cup request
  BY <1>3, <1>9 DEF Dest!Delivered
<1>11. ASSUME sink_type' = sink_type  PROVE Dest!KeysKnown'
  <2>1. \A k \in keys' : k \subseteq Dest!Delivered'
    BY <1>6, <1>7, <1>8 DEF Dest!KeysKnown
  <2>2. ASSUME sink_type \in {"nats", "inbox"}, NEW r \in Dest!Rows
        PROVE  effects'[r] <= forgotten'[r] + IF {r} \in keys' THEN 1 ELSE 0
    <3>0. effects[r] \in Nat /\ forgotten[r] \in Nat
          /\ effects[r] <= forgotten[r] + IF {r} \in keys THEN 1 ELSE 0
      BY <1>1, <2>2 DEF Dest!KeysKnown
    <3>1. keys' = keys \cup {Dest!idempotency_key(x, request) : x \in request}
      BY <2>2 DEF Dest!Takes
    <3>2. \A x \in request : Dest!idempotency_key(x, request) = {x}
      BY <2>2 DEF Dest!idempotency_key
    <3>3. CASE r \in Dest!Fresh(request)
      <4>1. r \in request /\ {r} \notin keys
        BY <2>2, <3>2, <3>3 DEF Dest!Fresh
      <4>2. {r} \in keys'
        BY <3>1, <3>2, <4>1
      <4> QED  BY <1>2, <1>3, <3>0, <3>3, <4>1, <4>2
    <3>4. CASE r \notin Dest!Fresh(request)
      <4>1. {r} \in keys => {r} \in keys'
        BY <3>1
      <4> QED  BY <1>2, <1>3, <3>0, <3>4, <4>1
    <3> QED  BY <3>3, <3>4
  <2> QED  BY <1>11, <2>1, <2>2 DEF Dest!KeysKnown
<1> QED  BY <1>2, <1>4, <1>6, <1>7, <1>8, <1>10, <1>11

\* Rows that take effect are those that follow what was accounted for.
LEMMA Sending ==
  ASSUME Dest!DestinationsInv, NEW w \in Sessions, NEW n \in sent[w] + 1 .. top[w],
         Dest!Takes(sent[w] + 1 .. n), dead \subseteq dead', sink_type' = sink_type
  PROVE  /\ Dest!Accounted \subseteq Dest!Accounted' /\ 1 .. n \subseteq Dest!Accounted'
         /\ Dest!FirstDeliveriesInOrder' /\ Dest!KeysKnown'
         /\ effects' \in [Dest!Rows -> Nat] /\ keys' \subseteq SUBSET Dest!Rows
         /\ forgotten' = forgotten
<1> DEFINE request == sent[w] + 1 .. n
<1>1. /\ sent[w] \in Nat /\ top[w] \in Nat /\ top[w] <= MaxRow /\ MaxRow \in Nat
      /\ 1 .. sent[w] \subseteq Dest!Accounted
      /\ Dest!TypeOK /\ Dest!KeysKnown /\ Dest!FirstDeliveriesInOrder
  BY BatchAssumption DEF Dest!DestinationsInv, Dest!TypeOK, Dest!MarksOrdered
<1>2. request \in SUBSET Dest!Rows
  BY <1>1 DEF Dest!Rows
<1>3. /\ effects' \in [Dest!Rows -> Nat] /\ keys' \subseteq SUBSET Dest!Rows
      /\ forgotten' = forgotten
      /\ request \subseteq Dest!Delivered' /\ Dest!Delivered \subseteq Dest!Delivered'
      /\ Dest!Delivered' \subseteq Dest!Delivered \cup request
      /\ Dest!KeysKnown'
  <2> HIDE DEF request
  <2>1. Dest!Takes(request)
    BY DEF request
  <2> QED  BY <1>1, <1>2, <2>1, TakesRequest
<1>4. Dest!Accounted \subseteq Dest!Accounted'
  BY <1>3 DEF Dest!Accounted
<1>5. 1 .. n \subseteq 1 .. sent[w] \cup request
  BY <1>1
<1>6. 1 .. n \subseteq Dest!Accounted'
  BY <1>1, <1>3, <1>4, <1>5 DEF Dest!Accounted
<1>7. ASSUME NEW r \in Dest!Delivered'  PROVE 1 .. r \subseteq Dest!Delivered' \cup dead'
  <2>1. CASE r \in Dest!Delivered
    BY <1>1, <1>4, <2>1 DEF Dest!FirstDeliveriesInOrder, Dest!Accounted
  <2>2. CASE r \in request
    <3>1. 1 .. r \subseteq 1 .. n
      BY <1>1, <2>2
    <3> QED  BY <1>6, <3>1 DEF Dest!Accounted
  <2> QED  BY <1>3, <2>1, <2>2
<1> QED  BY <1>3, <1>4, <1>6, <1>7 DEF Dest!FirstDeliveriesInOrder

LEMMA NotSending ==
  ASSUME Dest!DestinationsInv, effects' = effects, dead \subseteq dead'
  PROVE  Dest!Accounted \subseteq Dest!Accounted' /\ Dest!FirstDeliveriesInOrder'
<1>1. Dest!Delivered' = Dest!Delivered
  BY DEF Dest!Delivered
<1> QED
  BY <1>1 DEF Dest!DestinationsInv, Dest!FirstDeliveriesInOrder, Dest!Accounted

\* The marks of one worker become m, s and t.
Moves(w, m, s, t) ==
    /\ mark' = [mark EXCEPT ![w] = m]
    /\ sent' = [sent EXCEPT ![w] = s]
    /\ top' = [top EXCEPT ![w] = t]

InOrder(m, s, t) ==
    /\ m <= s /\ s <= t /\ t <= written' /\ t <= m + BatchSize
    /\ 1 .. s \subseteq Dest!Accounted'
    /\ sink_type \in {"webhook", "inbox"} => s \in {m, t}

LEMMA MarksStayOrdered ==
  ASSUME Dest!DestinationsInv, NEW w \in Sessions,
         NEW m \in Nat, NEW s \in Nat, NEW t \in Nat, Moves(w, m, s, t), InOrder(m, s, t),
         written \in Nat, written' \in 0 .. MaxRow, written <= written', sink_type' = sink_type,
         Dest!Accounted \subseteq Dest!Accounted'
  PROVE  /\ Dest!MarksOrdered'
         /\ mark' \in [Sessions -> 0 .. MaxRow] /\ sent' \in [Sessions -> 0 .. MaxRow]
         /\ top' \in [Sessions -> 0 .. MaxRow]
<1>1. /\ mark \in [Sessions -> 0 .. MaxRow] /\ sent \in [Sessions -> 0 .. MaxRow]
      /\ top \in [Sessions -> 0 .. MaxRow] /\ MaxRow \in Nat /\ BatchSize \in Nat
      /\ Dest!MarksOrdered
  BY BatchAssumption DEF Dest!DestinationsInv, Dest!TypeOK
<1>2. m \in 0 .. MaxRow /\ s \in 0 .. MaxRow /\ t \in 0 .. MaxRow
  BY <1>1 DEF InOrder
<1>3. /\ mark' \in [Sessions -> 0 .. MaxRow] /\ sent' \in [Sessions -> 0 .. MaxRow]
      /\ top' \in [Sessions -> 0 .. MaxRow]
  BY <1>1, <1>2 DEF Moves
<1>4. ASSUME NEW v \in Sessions
      PROVE  /\ mark'[v] <= sent'[v] /\ sent'[v] <= top'[v] /\ top'[v] <= written'
             /\ top'[v] <= mark'[v] + BatchSize
             /\ 1 .. sent'[v] \subseteq Dest!Accounted'
             /\ sink_type' \in {"webhook", "inbox"} => sent'[v] \in {mark'[v], top'[v]}
  <2>1. CASE v = w
    <3>1. mark'[v] = m /\ sent'[v] = s /\ top'[v] = t
      BY <1>1, <2>1 DEF Moves
    <3> QED  BY <3>1 DEF InOrder
  <2>2. CASE v # w
    <3>1. mark'[v] = mark[v] /\ sent'[v] = sent[v] /\ top'[v] = top[v]
      BY <1>1, <2>2 DEF Moves
    <3>2. mark[v] \in Nat /\ sent[v] \in Nat /\ top[v] \in Nat
      BY <1>1
    <3> QED  BY <1>1, <3>1, <3>2 DEF Dest!MarksOrdered
  <2> QED  BY <2>1, <2>2
<1> QED  BY <1>3, <1>4 DEF Dest!MarksOrdered

\* What the invariant says of the workers and the durable offset.
WorkersInv ==
    /\ mark \in [Sessions -> 0 .. MaxRow] /\ sent \in [Sessions -> 0 .. MaxRow]
    /\ top \in [Sessions -> 0 .. MaxRow] /\ failures \in [Sessions -> Nat]
    /\ checkpoint \in 0 .. MaxRow /\ checkpoint <= written
    /\ Dest!MarksOrdered /\ Dest!NothingPassedOver

LEMMA WorkersFacts ==
  ASSUME Dest!DestinationsInv, NEW w \in Sessions
  PROVE  /\ WorkersInv
         /\ written \in 0 .. MaxRow /\ MaxRow \in Nat /\ BatchSize \in Nat
         /\ mark[w] \in Nat /\ sent[w] \in Nat /\ top[w] \in Nat /\ failures[w] \in Nat
         /\ mark[w] <= sent[w] /\ sent[w] <= top[w] /\ top[w] <= written
         /\ top[w] <= mark[w] + BatchSize
         /\ checkpoint \in Nat
         /\ 1 .. mark[w] \subseteq Dest!Accounted /\ 1 .. sent[w] \subseteq Dest!Accounted
         /\ 1 .. checkpoint \subseteq Dest!Accounted
<1>1. WorkersInv
  BY DEF WorkersInv, Dest!DestinationsInv, Dest!TypeOK
<1>2. /\ written \in 0 .. MaxRow /\ MaxRow \in Nat /\ BatchSize \in Nat
      /\ mark[w] \in Nat /\ sent[w] \in Nat /\ top[w] \in Nat /\ failures[w] \in Nat
      /\ checkpoint \in Nat
  BY BatchAssumption DEF Dest!DestinationsInv, Dest!TypeOK
<1>3. /\ mark[w] <= sent[w] /\ sent[w] <= top[w] /\ top[w] <= written
      /\ top[w] <= mark[w] + BatchSize /\ 1 .. sent[w] \subseteq Dest!Accounted
  BY <1>1 DEF WorkersInv, Dest!MarksOrdered
<1>4. 1 .. mark[w] \subseteq 1 .. sent[w]
  BY <1>2, <1>3
<1>5. 1 .. checkpoint \subseteq Dest!Accounted
  BY <1>1 DEF WorkersInv, Dest!NothingPassedOver, Dest!Accounted
<1> QED  BY <1>1, <1>2, <1>3, <1>4, <1>5

LEMMA CommitKeeps ==
  ASSUME Dest!DestinationsInv, NEW w \in Sessions, Dest!Commit(w),
         UNCHANGED <<sink_type, written>>, Dest!Accounted \subseteq Dest!Accounted',
         1 .. top[w] \subseteq Dest!Accounted'
  PROVE  WorkersInv'
<1> DEFINE t == top[w]
<1>1. /\ WorkersInv /\ written \in 0 .. MaxRow /\ t \in Nat /\ t <= written
      /\ BatchSize \in Nat /\ checkpoint \in Nat /\ checkpoint <= written /\ MaxRow \in Nat
      /\ 1 .. checkpoint \subseteq Dest!Accounted
  BY WorkersFacts DEF WorkersInv
<1>2. Moves(w, t, t, t)
  <2>1. top \in [Sessions -> 0 .. MaxRow]
    BY <1>1 DEF WorkersInv
  <2>2. top = [top EXCEPT ![w] = t]
    BY <2>1
  <2> QED  BY <2>2 DEF Moves, Dest!Commit
<1>3. InOrder(t, t, t)
  BY <1>1 DEF InOrder
<1>4. /\ Dest!MarksOrdered'
      /\ mark' \in [Sessions -> 0 .. MaxRow] /\ sent' \in [Sessions -> 0 .. MaxRow]
      /\ top' \in [Sessions -> 0 .. MaxRow]
  <2> HIDE DEF t
  <2> QED  BY <1>1, <1>2, <1>3, MarksStayOrdered
<1>5. failures' \in [Sessions -> Nat]
  BY <1>1 DEF WorkersInv, Dest!Commit
<1>6. checkpoint' \in {checkpoint, t}
  BY DEF Dest!Commit
<1>7. checkpoint' \in 0 .. MaxRow /\ checkpoint' <= written'
      /\ 1 .. checkpoint' \subseteq Dest!Accounted'
  BY <1>1, <1>6
<1> QED  BY <1>4, <1>5, <1>7 DEF WorkersInv, Dest!NothingPassedOver, Dest!Accounted

LEMMA RestartKeeps ==
  ASSUME Dest!DestinationsInv, NEW w \in Sessions, Dest!Restart(w),
         UNCHANGED <<sink_type, written, checkpoint>>, Dest!Accounted \subseteq Dest!Accounted'
  PROVE  WorkersInv'
<1>1. /\ WorkersInv /\ written \in 0 .. MaxRow
      /\ BatchSize \in Nat /\ checkpoint \in Nat /\ checkpoint <= written
      /\ 1 .. checkpoint \subseteq Dest!Accounted
  BY WorkersFacts DEF WorkersInv
<1>2. Moves(w, checkpoint, checkpoint, checkpoint)
  BY DEF Moves, Dest!Restart
<1>3. InOrder(checkpoint, checkpoint, checkpoint)
  BY <1>1 DEF InOrder
<1>4. /\ Dest!MarksOrdered'
      /\ mark' \in [Sessions -> 0 .. MaxRow] /\ sent' \in [Sessions -> 0 .. MaxRow]
      /\ top' \in [Sessions -> 0 .. MaxRow]
  BY <1>1, <1>2, <1>3, MarksStayOrdered
<1>5. failures' \in [Sessions -> Nat]
  BY <1>1 DEF WorkersInv, Dest!Restart
<1> QED  BY <1>1, <1>4, <1>5 DEF WorkersInv, Dest!NothingPassedOver, Dest!Accounted

LEMMA BackOffKeeps ==
  ASSUME Dest!DestinationsInv, NEW w \in Sessions, Dest!BackOff(w),
         UNCHANGED <<sink_type, written>>, Dest!Accounted \subseteq Dest!Accounted'
  PROVE  WorkersInv'
<1> DEFINE m == mark[w]
<1>1. /\ WorkersInv /\ written \in 0 .. MaxRow /\ m \in Nat /\ m <= written
      /\ BatchSize \in Nat /\ 1 .. m \subseteq Dest!Accounted /\ failures[w] + 1 \in Nat
      /\ 1 .. checkpoint \subseteq Dest!Accounted
  BY WorkersFacts
<1>2. Moves(w, m, m, m)
  <2>1. mark \in [Sessions -> 0 .. MaxRow]
    BY <1>1 DEF WorkersInv
  <2>2. mark = [mark EXCEPT ![w] = m]
    BY <2>1
  <2> QED  BY <2>2 DEF Moves, Dest!BackOff
<1>3. InOrder(m, m, m)
  BY <1>1 DEF InOrder
<1>4. /\ Dest!MarksOrdered'
      /\ mark' \in [Sessions -> 0 .. MaxRow] /\ sent' \in [Sessions -> 0 .. MaxRow]
      /\ top' \in [Sessions -> 0 .. MaxRow]
  <2> HIDE DEF m
  <2> QED  BY <1>1, <1>2, <1>3, MarksStayOrdered
<1>5. failures' \in [Sessions -> Nat]
  BY <1>1 DEF WorkersInv, Dest!BackOff
<1>6. checkpoint' = checkpoint
  BY DEF Dest!BackOff
<1> QED  BY <1>1, <1>4, <1>5, <1>6 DEF WorkersInv, Dest!NothingPassedOver, Dest!Accounted

\* What the invariant says of the destination and the dead letters.
RemoteInv ==
    /\ effects \in [Dest!Rows -> Nat] /\ forgotten \in [Dest!Rows -> Nat]
    /\ keys \subseteq SUBSET Dest!Rows /\ dead \subseteq Dest!Rows
    /\ Dest!KeysKnown /\ Dest!FirstDeliveriesInOrder

OptionsInv ==
    /\ sink_type \in Dest!SinkTypes /\ dlq_enabled \in BOOLEAN
    /\ written \in 0 .. MaxRow /\ trouble \in Nat

LEMMA ThreeParts == Dest!DestinationsInv <=> WorkersInv /\ RemoteInv /\ OptionsInv
  BY DEF Dest!DestinationsInv, Dest!TypeOK, WorkersInv, RemoteInv, OptionsInv

LEMMA ThreePartsNext == WorkersInv' /\ RemoteInv' /\ OptionsInv' => Dest!DestinationsInv'
  BY DEF Dest!DestinationsInv, Dest!TypeOK, WorkersInv, RemoteInv, OptionsInv

LEMMA CallStep ==
  ASSUME Dest!DestinationsInv, NEW w \in Sessions, NEW n \in sent[w] + 1 .. top[w],
         Dest!Call(w, sent[w] + 1 .. n), Dest!Cardinality(sent[w] + 1 .. n) = n - sent[w],
         sink_type \in {"webhook", "inbox"} => n = top[w]
  PROVE  Dest!DestinationsInv'
<1> DEFINE request == sent[w] + 1 .. n
           m == mark[w]
           t == top[w]
<1>1. /\ WorkersInv /\ RemoteInv /\ OptionsInv
      /\ written \in 0 .. MaxRow /\ m \in Nat /\ sent[w] \in Nat /\ t \in Nat
      /\ m <= sent[w] /\ sent[w] <= t /\ t <= written /\ t <= m + BatchSize
      /\ 1 .. m \subseteq Dest!Accounted /\ 1 .. checkpoint \subseteq Dest!Accounted
      /\ MaxRow \in Nat /\ BatchSize \in Nat
  BY WorkersFacts, ThreeParts
<1>2. UNCHANGED <<sink_type, dlq_enabled, written>>
  BY DEF Dest!Call
<1>3. ASSUME Dest!Acknowledged(w, request)
      PROVE  Dest!DestinationsInv'
  <2>1. Dest!Takes(request) /\ UNCHANGED <<checkpoint, mark, top, failures, dead, trouble>>
    BY <1>3 DEF Dest!Acknowledged
  <2>2. RemoteInv' /\ Dest!Accounted \subseteq Dest!Accounted'
        /\ 1 .. n \subseteq Dest!Accounted'
    BY <1>1, <1>2, <2>1, Sending DEF RemoteInv
  <2>3. sent' = [sent EXCEPT ![w] = n]
    <3>1. sent[w] + (n - sent[w]) = n
      BY <1>1
    <3> QED  BY <1>3, <3>1 DEF Dest!Acknowledged
  <2>4. Moves(w, m, n, t)
    <3>1. mark = [mark EXCEPT ![w] = m] /\ top = [top EXCEPT ![w] = t]
      BY <1>1 DEF WorkersInv
    <3> QED  BY <2>1, <2>3, <3>1 DEF Moves
  <2>5. InOrder(m, n, t)
    BY <1>1, <1>2, <2>2 DEF InOrder
  <2>6. /\ Dest!MarksOrdered'
        /\ mark' \in [Sessions -> 0 .. MaxRow] /\ sent' \in [Sessions -> 0 .. MaxRow]
        /\ top' \in [Sessions -> 0 .. MaxRow]
    <3>1. n \in Nat
      BY <1>1
    <3> HIDE DEF m, t
    <3> QED  BY <1>1, <1>2, <2>2, <2>4, <2>5, <3>1, MarksStayOrdered
  <2>7. WorkersInv'
    BY <1>1, <1>2, <2>1, <2>2, <2>6 DEF WorkersInv, Dest!NothingPassedOver, Dest!Accounted
  <2>8. OptionsInv'
    BY <1>1, <1>2, <2>1 DEF OptionsInv
  <2> QED  BY <2>2, <2>7, <2>8, ThreePartsNext
<1>4. ASSUME NEW code, Dest!handle_publish_outcome(w, request, code)
      PROVE  Dest!DestinationsInv'
  <2>1. OptionsInv'
    BY <1>1, <1>2, <1>4 DEF OptionsInv, Dest!handle_publish_outcome
  <2>2. /\ dead \subseteq dead' /\ dead' \subseteq Dest!Rows
        /\ Dest!RouteToDlq(w) => m + 1 .. t \subseteq dead'
    <3>1. \/ Dest!RouteToDlq(w)
          \/ dead' = dead /\ (Dest!Restart(w) \/ Dest!BackOff(w))
      BY <1>4 DEF Dest!handle_publish_outcome, Dest!BackOff
    <3>2. dead \subseteq Dest!Rows
      BY <1>1 DEF RemoteInv
    <3>3. m + 1 .. t \subseteq Dest!Rows
      BY <1>1 DEF Dest!Rows
    <3>4. CASE Dest!RouteToDlq(w)
      BY <3>2, <3>3, <3>4 DEF Dest!RouteToDlq
    <3>5. CASE dead' = dead /\ ~ Dest!RouteToDlq(w)
      BY <3>2, <3>5
    <3> QED  BY <3>1, <3>4, <3>5
  <2>3. RemoteInv' /\ Dest!Accounted \subseteq Dest!Accounted'
    <3>1. CASE Dest!Takes(request)
      <4>1. /\ Dest!Accounted \subseteq Dest!Accounted'
            /\ Dest!FirstDeliveriesInOrder' /\ Dest!KeysKnown'
            /\ effects' \in [Dest!Rows -> Nat] /\ keys' \subseteq SUBSET Dest!Rows
            /\ forgotten' = forgotten
        BY <1>2, <2>2, <3>1, Sending
      <4> QED  BY <1>1, <2>2, <4>1 DEF RemoteInv
    <3>2. CASE Dest!Refuses
      <4>1. UNCHANGED <<keys, effects, forgotten>>
        BY <3>2 DEF Dest!Refuses, Dest!remoteVars
      <4>2. Dest!Accounted \subseteq Dest!Accounted' /\ Dest!FirstDeliveriesInOrder'
        BY <2>2, <4>1, NotSending
      <4>3. Dest!KeysKnown'
        BY <1>1, <1>2, <4>1 DEF RemoteInv, Dest!KeysKnown, Dest!Delivered
      <4> QED  BY <1>1, <2>2, <4>1, <4>2, <4>3 DEF RemoteInv
    <3> QED  BY <1>4, <3>1, <3>2 DEF Dest!handle_publish_outcome
  <2>4. WorkersInv'
    <3>1. CASE Dest!RouteToDlq(w)
      <4>1. 1 .. t \subseteq 1 .. m \cup (m + 1 .. t)
        BY <1>1
      <4>2. 1 .. t \subseteq Dest!Accounted'
        BY <1>1, <2>2, <2>3, <3>1, <4>1 DEF Dest!Accounted
      <4> QED  BY <1>2, <2>3, <3>1, <4>2, CommitKeeps DEF Dest!RouteToDlq
    <3>2. CASE Dest!Restart(w) /\ UNCHANGED <<checkpoint, dead>>
      BY <1>2, <2>3, <3>2, RestartKeeps
    <3>3. CASE Dest!BackOff(w)
      BY <1>2, <2>3, <3>3, BackOffKeeps
    <3> QED  BY <1>4, <3>1, <3>2, <3>3 DEF Dest!handle_publish_outcome
  <2> QED  BY <2>1, <2>3, <2>4, ThreePartsNext
<1> QED  BY <1>3, <1>4 DEF Dest!Call

LEMMA DestStep == Dest!DestinationsInv /\ [Dest!Next]_(Dest!vars) => Dest!DestinationsInv'
<1> SUFFICES ASSUME Dest!DestinationsInv, [Dest!Next]_(Dest!vars)
             PROVE  Dest!DestinationsInv'
  OBVIOUS
<1>0. WorkersInv /\ RemoteInv /\ OptionsInv /\ MaxRow \in Nat /\ BatchSize \in Nat
  BY ThreeParts, BatchAssumption
<1> USE DEF Dest!workerVars, Dest!remoteVars
<1>1. ASSUME UNCHANGED <<keys, effects, forgotten, dead, sink_type>>
      PROVE  RemoteInv' /\ Dest!Accounted' = Dest!Accounted
  <2>1. Dest!Delivered' = Dest!Delivered
    BY <1>1 DEF Dest!Delivered
  <2> QED
    BY <1>0, <1>1, <2>1
    DEF RemoteInv, Dest!KeysKnown, Dest!FirstDeliveriesInOrder, Dest!Accounted
<1>2. CASE Dest!write_row
  <2>1. UNCHANGED <<keys, effects, forgotten, dead, sink_type, mark, sent, top, failures,
                    checkpoint, dlq_enabled, trouble>>
        /\ written' = written + 1 /\ written < MaxRow
    BY <1>2 DEF Dest!write_row
  <2>2. RemoteInv' /\ Dest!Accounted' = Dest!Accounted
    BY <1>1, <2>1
  <2>3. OptionsInv' /\ written <= written' /\ written \in Nat
    BY <1>0, <2>1 DEF OptionsInv
  <2>4. ASSUME NEW v \in Sessions  PROVE top[v] <= written'
    <3>1. top[v] \in Nat /\ top[v] <= written
      BY WorkersFacts
    <3> QED  BY <2>1, <2>3, <3>1
  <2>5. Dest!MarksOrdered'
    BY <1>0, <2>1, <2>2, <2>4 DEF WorkersInv, Dest!MarksOrdered
  <2>6. checkpoint' <= written'
    BY <1>0, <2>1, <2>3 DEF WorkersInv
  <2>7. Dest!NothingPassedOver'
    BY <1>0, <2>1, <2>2 DEF WorkersInv, Dest!NothingPassedOver, Dest!Accounted
  <2> QED  BY <1>0, <2>1, <2>2, <2>3, <2>5, <2>6, <2>7, ThreePartsNext DEF WorkersInv
<1>3. ASSUME NEW w \in Sessions, Dest!poll(w)  PROVE Dest!DestinationsInv'
  <2> DEFINE m == mark[w]
             s == sent[w]
             t == Dest!Lesser(mark[w] + BatchSize, written)
  <2>1. UNCHANGED <<keys, effects, forgotten, dead, sink_type, mark, sent, failures,
                    checkpoint, dlq_enabled, written, trouble>>
        /\ top' = [top EXCEPT ![w] = t] /\ top[w] = mark[w] /\ mark[w] < written
    BY <1>3 DEF Dest!poll
  <2>2. /\ m \in Nat /\ s \in Nat /\ s = m /\ written \in 0 .. MaxRow /\ written \in Nat
        /\ 1 .. s \subseteq Dest!Accounted
    BY <2>1, WorkersFacts
  <2>3. t \in Nat /\ m <= t /\ t <= written /\ t <= m + BatchSize
    BY <1>0, <2>1, <2>2 DEF Dest!Lesser
  <2>4. RemoteInv' /\ Dest!Accounted' = Dest!Accounted
    BY <1>1, <2>1
  <2>5. Moves(w, m, s, t)
    <3>1. mark = [mark EXCEPT ![w] = m] /\ sent = [sent EXCEPT ![w] = s]
      BY <1>0 DEF WorkersInv
    <3> QED  BY <2>1, <3>1 DEF Moves
  <2>6. InOrder(m, s, t)
    BY <2>1, <2>2, <2>3, <2>4 DEF InOrder
  <2>7. /\ Dest!MarksOrdered'
        /\ mark' \in [Sessions -> 0 .. MaxRow] /\ sent' \in [Sessions -> 0 .. MaxRow]
        /\ top' \in [Sessions -> 0 .. MaxRow]
    <3>1. written' \in 0 .. MaxRow /\ written <= written' /\ sink_type' = sink_type
      BY <2>1, <2>2
    <3> HIDE DEF m, s, t
    <3> QED  BY <2>2, <2>3, <2>4, <2>5, <2>6, <3>1, MarksStayOrdered
  <2>8. WorkersInv'
    BY <1>0, <2>1, <2>4, <2>7 DEF WorkersInv, Dest!NothingPassedOver, Dest!Accounted
  <2>9. OptionsInv'
    BY <1>0, <2>1 DEF OptionsInv
  <2> QED  BY <2>4, <2>8, <2>9, ThreePartsNext
<1>4. ASSUME NEW w \in Sessions,
             Dest!nats_publish(w) \/ Dest!kafka_publish(w) \/
             Dest!webhook_publish(w) \/ Dest!inbox_publish(w)
      PROVE  Dest!DestinationsInv'
  BY <1>4, Requests, CallStep
<1>5. ASSUME NEW w \in Sessions, Dest!commit_checkpoint(w)  PROVE Dest!DestinationsInv'
  <2>1. UNCHANGED <<keys, effects, forgotten, dead, sink_type, written, dlq_enabled, trouble>>
        /\ Dest!Commit(w) /\ sent[w] = top[w]
    BY <1>5 DEF Dest!commit_checkpoint
  <2>2. RemoteInv' /\ Dest!Accounted' = Dest!Accounted
    BY <1>1, <2>1
  <2>3. 1 .. top[w] \subseteq Dest!Accounted
    BY <2>1, WorkersFacts
  <2>4. WorkersInv'
    BY <2>1, <2>2, <2>3, CommitKeeps
  <2>5. OptionsInv'
    BY <1>0, <2>1 DEF OptionsInv
  <2> QED  BY <2>2, <2>4, <2>5, ThreePartsNext
<1>6. ASSUME NEW w \in Sessions, Dest!restart(w)  PROVE Dest!DestinationsInv'
  <2>1. UNCHANGED <<keys, effects, forgotten, dead, sink_type, written, dlq_enabled, checkpoint>>
        /\ Dest!Restart(w)
    BY <1>6 DEF Dest!restart
  <2>2. RemoteInv' /\ Dest!Accounted' = Dest!Accounted
    BY <1>1, <2>1
  <2>3. WorkersInv'
    BY <2>1, <2>2, RestartKeeps
  <2>4. OptionsInv'
    BY <1>0, <1>6, <2>1 DEF OptionsInv, Dest!restart
  <2> QED  BY <2>2, <2>3, <2>4, ThreePartsNext
<1>7. ASSUME NEW r \in Dest!Rows, Dest!key_forgotten(r)  PROVE Dest!DestinationsInv'
  <2>1. UNCHANGED <<sink_type, dlq_enabled, written, checkpoint, mark, sent, top, failures,
                    effects, dead>>
        /\ keys' = keys \ {{r}} /\ forgotten' = [forgotten EXCEPT ![r] = forgotten[r] + 1]
    BY <1>7 DEF Dest!key_forgotten
  <2>2. Dest!Delivered' = Dest!Delivered
    BY <2>1 DEF Dest!Delivered
  <2>3. effects \in [Dest!Rows -> Nat] /\ forgotten \in [Dest!Rows -> Nat]
        /\ Dest!KeysKnown
    BY <1>0 DEF RemoteInv
  <2>4. forgotten' \in [Dest!Rows -> Nat]
    BY <2>1, <2>3
  <2>5. ASSUME sink_type \in {"nats", "inbox"}, NEW q \in Dest!Rows
        PROVE  effects'[q] <= forgotten'[q] + IF {q} \in keys' THEN 1 ELSE 0
    <3>1. /\ effects[q] \in Nat /\ forgotten[q] \in Nat
          /\ effects[q] <= forgotten[q] + IF {q} \in keys THEN 1 ELSE 0
      BY <2>3, <2>5 DEF Dest!KeysKnown
    <3>2. CASE q = r
      BY <2>1, <2>3, <3>1, <3>2
    <3>3. CASE q # r
      <4>1. {q} \in keys' <=> {q} \in keys
        BY <2>1, <3>3
      <4>2. forgotten'[q] = forgotten[q]
        BY <2>1, <2>3, <3>3
      <4> QED  BY <2>1, <3>1, <4>1, <4>2
    <3> QED  BY <3>2, <3>3
  <2>6. Dest!KeysKnown'
    BY <2>1, <2>2, <2>3, <2>5 DEF Dest!KeysKnown
  <2>7. RemoteInv'
    BY <1>0, <2>1, <2>2, <2>4, <2>6 DEF RemoteInv, Dest!FirstDeliveriesInOrder
  <2>8. WorkersInv'
    BY <1>0, <2>1, <2>2
    DEF WorkersInv, Dest!MarksOrdered, Dest!NothingPassedOver, Dest!Accounted
  <2>9. OptionsInv'
    BY <1>0, <1>7, <2>1 DEF OptionsInv, Dest!key_forgotten
  <2> QED  BY <2>7, <2>8, <2>9, ThreePartsNext
<1>8. CASE UNCHANGED Dest!vars
  <2>1. UNCHANGED <<sink_type, dlq_enabled, written, checkpoint, mark, sent, top, failures,
                    keys, effects, forgotten, dead, trouble>>
    BY <1>8 DEF Dest!vars
  <2>2. RemoteInv' /\ Dest!Accounted' = Dest!Accounted
    BY <1>1, <2>1
  <2>3. WorkersInv' /\ OptionsInv'
    BY <1>0, <2>1, <2>2
    DEF WorkersInv, OptionsInv, Dest!MarksOrdered, Dest!NothingPassedOver, Dest!Accounted
  <2> QED  BY <2>2, <2>3, ThreePartsNext
<1> QED  BY <1>2, <1>3, <1>4, <1>5, <1>6, <1>7, <1>8 DEF Dest!Next

LEMMA DestProperties ==
  Dest!DestinationsInv =>
    Dest!FirstDeliveriesInOrder /\ Dest!OnceWhileRemembered /\ Dest!NothingPassedOver
<1> SUFFICES ASSUME Dest!DestinationsInv, sink_type \in {"nats", "inbox"}, NEW r \in Dest!Rows
             PROVE  effects[r] <= 1 + forgotten[r]
  BY DEF Dest!DestinationsInv, Dest!OnceWhileRemembered
<1>1. effects[r] \in Nat /\ forgotten[r] \in Nat
  BY DEF Dest!DestinationsInv, Dest!TypeOK
<1>2. effects[r] <= forgotten[r] + IF {r} \in keys THEN 1 ELSE 0
  BY DEF Dest!DestinationsInv, Dest!KeysKnown
<1> QED  BY <1>1, <1>2

-----------------------------------------------------------------------------
(* The inbox: who holds the lock of a pending event, so that no two commits *)
(* of one event are counted against the same row.                           *)

LEMMA InboxInit == Inbox!Init => Inbox!InboxInv
<1> SUFFICES ASSUME Inbox!Init  PROVE Inbox!InboxInv
  OBVIOUS
<1>1. Inbox!TypeOK
  BY DEF Inbox!Init, Inbox!TypeOK, Inbox!RowStates
<1>2. Inbox!LockHolders
  BY DEF Inbox!Init, Inbox!LockHolders
<1>3. Inbox!OutcomesCounted
  <2>1. ASSUME NEW e \in Events
        PROVE  outcomes[e] <= forgot[e] + IF table[e] = "processed" THEN 1 ELSE 0
    <3>1. outcomes[e] = 0 /\ forgot[e] = 0
      BY DEF Inbox!Init
    <3>2. (IF table[e] = "processed" THEN 1 ELSE 0) \in {0, 1}
      OBVIOUS
    <3> QED  BY <3>1, <3>2
  <2> QED  BY <2>1 DEF Inbox!OutcomesCounted
<1> QED  BY <1>1, <1>2, <1>3 DEF Inbox!Init, Inbox!InboxInv

LEMMA InboxTypes == Inbox!TypeOK /\ [Inbox!Next]_(Inbox!vars) => Inbox!TypeOK'
<1> SUFFICES ASSUME Inbox!TypeOK, [Inbox!Next]_(Inbox!vars)  PROVE Inbox!TypeOK'
  OBVIOUS
<1> USE DEF Inbox!TypeOK, Inbox!RowStates, Inbox!historyVars
<1>1. CASE Inbox!inbox_create
  BY <1>1 DEF Inbox!inbox_create
<1>2. CASE Inbox!inbox_drop
  <2>1. forgot' \in [Events -> Nat]
    BY <1>2, \A e \in Events : forgot[e] + 1 \in Nat DEF Inbox!inbox_drop
  <2> QED  BY <1>2, <2>1 DEF Inbox!inbox_drop
<1>3. CASE Inbox!inbox_truncate_processed
  BY <1>3 DEF Inbox!inbox_truncate_processed, Inbox!Old
<1>4. ASSUME NEW e \in Events, Inbox!replay_inbox_messages(e)  PROVE Inbox!TypeOK'
  BY <1>4 DEF Inbox!replay_inbox_messages, Inbox!Replayable
<1>5. ASSUME NEW new \in SUBSET Events, Inbox!inbox_insert(new)  PROVE Inbox!TypeOK'
  BY <1>5 DEF Inbox!inbox_insert
<1>6. ASSUME NEW c \in Sessions, NEW e \in Events, Inbox!read_pending(c, e)  PROVE Inbox!TypeOK'
  BY <1>6 DEF Inbox!read_pending
<1>7. ASSUME NEW c \in Sessions, Inbox!inbox_mark_processed(c)  PROVE Inbox!TypeOK'
  <2>1. reading[c] \in Events
    BY <1>7 DEF Inbox!inbox_mark_processed
  <2> QED  BY <1>7, <2>1 DEF Inbox!inbox_mark_processed
<1>8. ASSUME NEW c \in Sessions, Inbox!processing_fails(c)  PROVE Inbox!TypeOK'
  BY <1>8 DEF Inbox!processing_fails
<1>9. ASSUME NEW c \in Sessions, Inbox!inbox_mark_failed(c)  PROVE Inbox!TypeOK'
  <2>1. retry_count' \in [Events -> Nat]
    <3>1. ASSUME NEW e \in Events  PROVE retry_count[e] + 1 \in Nat
      OBVIOUS
    <3> QED  BY <1>9, <3>1 DEF Inbox!inbox_mark_failed
  <2> QED  BY <1>9, <2>1 DEF Inbox!inbox_mark_failed
<1>10. ASSUME NEW c \in Sessions, Inbox!consumer_dies(c)  PROVE Inbox!TypeOK'
  BY <1>10 DEF Inbox!consumer_dies
<1>11. CASE UNCHANGED Inbox!vars
  BY <1>11 DEF Inbox!vars
<1> QED
  BY <1>1, <1>2, <1>3, <1>4, <1>5, <1>6, <1>7, <1>8, <1>9, <1>10, <1>11 DEF Inbox!Next

\* The table is empty while the inbox is not there.
NoTable == ~ registered => \A e \in Events : table[e] = "absent"

LEMMA NoTableStep == Inbox!TypeOK /\ NoTable /\ [Inbox!Next]_(Inbox!vars) => NoTable'
<1> SUFFICES ASSUME Inbox!TypeOK, NoTable, [Inbox!Next]_(Inbox!vars)  PROVE NoTable'
  OBVIOUS
<1> USE DEF Inbox!TypeOK, NoTable, Inbox!historyVars
<1>1. CASE Inbox!inbox_create
  BY <1>1 DEF Inbox!inbox_create
<1>2. CASE Inbox!inbox_drop
  BY <1>2 DEF Inbox!inbox_drop
<1>3. CASE Inbox!inbox_truncate_processed
  BY <1>3 DEF Inbox!inbox_truncate_processed
<1>4. ASSUME NEW e \in Events, Inbox!replay_inbox_messages(e)  PROVE NoTable'
  BY <1>4 DEF Inbox!replay_inbox_messages
<1>5. ASSUME NEW new \in SUBSET Events, Inbox!inbox_insert(new)  PROVE NoTable'
  BY <1>5 DEF Inbox!inbox_insert
<1>6. ASSUME NEW c \in Sessions, NEW e \in Events, Inbox!read_pending(c, e)  PROVE NoTable'
  BY <1>6 DEF Inbox!read_pending
<1>7. ASSUME NEW c \in Sessions, Inbox!inbox_mark_processed(c)  PROVE NoTable'
  BY <1>7 DEF Inbox!inbox_mark_processed
<1>8. ASSUME NEW c \in Sessions, Inbox!processing_fails(c)  PROVE NoTable'
  BY <1>8 DEF Inbox!processing_fails
<1>9. ASSUME NEW c \in Sessions, Inbox!inbox_mark_failed(c)  PROVE NoTable'
  BY <1>9 DEF Inbox!inbox_mark_failed
<1>10. ASSUME NEW c \in Sessions, Inbox!consumer_dies(c)  PROVE NoTable'
  BY <1>10 DEF Inbox!consumer_dies
<1>11. CASE UNCHANGED Inbox!vars
  BY <1>11 DEF Inbox!vars
<1> QED
  BY <1>1, <1>2, <1>3, <1>4, <1>5, <1>6, <1>7, <1>8, <1>9, <1>10, <1>11 DEF Inbox!Next

LEMMA LockHoldersStep == Inbox!TypeOK /\ Inbox!LockHolders /\ [Inbox!Next]_(Inbox!vars) => Inbox!LockHolders'
<1> SUFFICES ASSUME Inbox!TypeOK, Inbox!LockHolders, [Inbox!Next]_(Inbox!vars)  PROVE Inbox!LockHolders'
  OBVIOUS
<1> USE DEF Inbox!TypeOK, Inbox!LockHolders, Inbox!historyVars
<1>1. CASE Inbox!inbox_create
  BY <1>1 DEF Inbox!inbox_create
<1>2. CASE Inbox!inbox_drop
  BY <1>2 DEF Inbox!inbox_drop
<1>3. CASE Inbox!inbox_truncate_processed
  BY <1>3 DEF Inbox!inbox_truncate_processed, Inbox!Old
<1>4. ASSUME NEW e \in Events, Inbox!replay_inbox_messages(e)  PROVE Inbox!LockHolders'
  BY <1>4 DEF Inbox!replay_inbox_messages, Inbox!Replayable
<1>5. ASSUME NEW new \in SUBSET Events, Inbox!inbox_insert(new)  PROVE Inbox!LockHolders'
  BY <1>5 DEF Inbox!inbox_insert
<1>6. ASSUME NEW c \in Sessions, NEW e \in Events, Inbox!read_pending(c, e)  PROVE Inbox!LockHolders'
  BY <1>6 DEF Inbox!read_pending
<1>7. ASSUME NEW c \in Sessions, Inbox!inbox_mark_processed(c)  PROVE Inbox!LockHolders'
  BY <1>7 DEF Inbox!inbox_mark_processed
<1>8. ASSUME NEW c \in Sessions, Inbox!processing_fails(c)  PROVE Inbox!LockHolders'
  BY <1>8 DEF Inbox!processing_fails
<1>9. ASSUME NEW c \in Sessions, Inbox!inbox_mark_failed(c)  PROVE Inbox!LockHolders'
  BY <1>9 DEF Inbox!inbox_mark_failed
<1>10. ASSUME NEW c \in Sessions, Inbox!consumer_dies(c)  PROVE Inbox!LockHolders'
  BY <1>10 DEF Inbox!consumer_dies
<1>11. CASE UNCHANGED Inbox!vars
  BY <1>11 DEF Inbox!vars
<1> QED
  BY <1>1, <1>2, <1>3, <1>4, <1>5, <1>6, <1>7, <1>8, <1>9, <1>10, <1>11 DEF Inbox!Next

LEMMA OutcomesCountedStep ==
  Inbox!TypeOK /\ Inbox!LockHolders /\ Inbox!OutcomesCounted /\ [Inbox!Next]_(Inbox!vars) => Inbox!OutcomesCounted'
<1> SUFFICES ASSUME Inbox!TypeOK, Inbox!LockHolders, Inbox!OutcomesCounted, [Inbox!Next]_(Inbox!vars), row_locks',
                    NEW x \in Events
             PROVE  (outcomes[x] <= forgot[x] + IF table[x] = "processed" THEN 1 ELSE 0)'
  BY DEF Inbox!OutcomesCounted
<1> DEFINE Goal == outcomes[x] <= forgot[x] + IF table[x] = "processed" THEN 1 ELSE 0
<1> USE DEF Inbox!TypeOK, Inbox!historyVars
<1>0. /\ outcomes[x] \in Nat /\ forgot[x] \in Nat
      /\ row_locks => Goal
  BY DEF Inbox!OutcomesCounted
<1>1. CASE Inbox!inbox_create
  BY <1>0, <1>1 DEF Inbox!inbox_create
<1>2. CASE Inbox!inbox_drop
  <2>1. /\ forgot'[x] = IF table[x] = "absent" THEN forgot[x] ELSE forgot[x] + 1
        /\ table'[x] = "absent" /\ outcomes' = outcomes /\ row_locks
    BY <1>0, <1>2 DEF Inbox!inbox_drop
  <2> QED  BY <1>0, <2>1
<1>3. CASE Inbox!inbox_truncate_processed
  <2>1. PICK expired \in SUBSET Inbox!Old \ {{}} :
          /\ table' = [e \in Events |-> IF e \in expired THEN "absent" ELSE table[e]]
          /\ forgot' = [e \in Events |-> IF e \in expired THEN forgot[e] + 1
                                                          ELSE forgot[e]]
    BY <1>0, <1>3 DEF Inbox!inbox_truncate_processed
  <2>2. row_locks /\ outcomes' = outcomes
    BY <1>0, <1>3 DEF Inbox!inbox_truncate_processed
  <2>3. CASE x \in expired
    BY <1>0, <2>1, <2>2, <2>3
  <2>4. CASE x \notin expired
    BY <1>0, <2>1, <2>2, <2>4
  <2> QED  BY <2>3, <2>4
<1>4. ASSUME NEW e \in Events, Inbox!replay_inbox_messages(e)  PROVE Goal'
  BY <1>0, <1>4 DEF Inbox!replay_inbox_messages, Inbox!Replayable
<1>5. ASSUME NEW new \in SUBSET Events, Inbox!inbox_insert(new)  PROVE Goal'
  BY <1>0, <1>5 DEF Inbox!inbox_insert
<1>6. ASSUME NEW c \in Sessions, NEW e \in Events, Inbox!read_pending(c, e)  PROVE Goal'
  BY <1>0, <1>6 DEF Inbox!read_pending
<1>7. ASSUME NEW c \in Sessions, Inbox!inbox_mark_processed(c)  PROVE Goal'
  <2>1. row_locks /\ reading[c] \in Events /\ forgot' = forgot
    BY <1>0, <1>7 DEF Inbox!inbox_mark_processed
  <2>2. table[reading[c]] = "pending"
    BY <1>7, <2>1 DEF Inbox!inbox_mark_processed, Inbox!LockHolders
  <2>3. CASE x = reading[c]
    <3>1. outcomes'[x] = outcomes[x] + 1 /\ table'[x] = "processed"
      BY <1>7, <2>1, <2>2, <2>3 DEF Inbox!inbox_mark_processed
    <3> QED  BY <1>0, <2>1, <2>2, <2>3, <3>1
  <2>4. CASE x # reading[c]
    BY <1>0, <1>7, <2>1, <2>4 DEF Inbox!inbox_mark_processed
  <2> QED  BY <2>3, <2>4
<1>8. ASSUME NEW c \in Sessions, Inbox!processing_fails(c)  PROVE Goal'
  BY <1>0, <1>8 DEF Inbox!processing_fails
<1>9. ASSUME NEW c \in Sessions, Inbox!inbox_mark_failed(c)  PROVE Goal'
  BY <1>0, <1>9 DEF Inbox!inbox_mark_failed
<1>10. ASSUME NEW c \in Sessions, Inbox!consumer_dies(c)  PROVE Goal'
  BY <1>0, <1>10 DEF Inbox!consumer_dies
<1>11. CASE UNCHANGED Inbox!vars
  BY <1>0, <1>11 DEF Inbox!vars
<1> QED
  BY <1>1, <1>2, <1>3, <1>4, <1>5, <1>6, <1>7, <1>8, <1>9, <1>10, <1>11 DEF Inbox!Next

LEMMA KeptStep ==
  Inbox!TypeOK /\ [Inbox!Next]_(Inbox!vars) =>
    (registered' =>
        \A e \in Events : table[e] = "pending" /\ table'[e] # "pending" =>
            outcomes'[e] = outcomes[e] + 1)
<1> SUFFICES ASSUME Inbox!TypeOK, [Inbox!Next]_(Inbox!vars), registered', NEW x \in Events,
                    table[x] = "pending", table'[x] # "pending"
             PROVE  outcomes'[x] = outcomes[x] + 1
  OBVIOUS
<1> USE DEF Inbox!TypeOK, Inbox!historyVars
<1>1. CASE Inbox!inbox_create
  BY <1>1 DEF Inbox!inbox_create
<1>2. CASE Inbox!inbox_drop
  BY <1>2 DEF Inbox!inbox_drop
<1>3. CASE Inbox!inbox_truncate_processed
  BY <1>3 DEF Inbox!inbox_truncate_processed, Inbox!Old
<1>4. ASSUME NEW e \in Events, Inbox!replay_inbox_messages(e)  PROVE outcomes'[x] = outcomes[x] + 1
  BY <1>4 DEF Inbox!replay_inbox_messages
<1>5. ASSUME NEW new \in SUBSET Events, Inbox!inbox_insert(new)  PROVE outcomes'[x] = outcomes[x] + 1
  BY <1>5 DEF Inbox!inbox_insert
<1>6. ASSUME NEW c \in Sessions, NEW e \in Events, Inbox!read_pending(c, e)  PROVE outcomes'[x] = outcomes[x] + 1
  BY <1>6 DEF Inbox!read_pending
<1>7. ASSUME NEW c \in Sessions, Inbox!inbox_mark_processed(c)  PROVE outcomes'[x] = outcomes[x] + 1
  BY <1>7 DEF Inbox!inbox_mark_processed
<1>8. ASSUME NEW c \in Sessions, Inbox!processing_fails(c)  PROVE outcomes'[x] = outcomes[x] + 1
  BY <1>8 DEF Inbox!processing_fails
<1>9. ASSUME NEW c \in Sessions, Inbox!inbox_mark_failed(c)  PROVE outcomes'[x] = outcomes[x] + 1
  BY <1>9 DEF Inbox!inbox_mark_failed
<1>10. ASSUME NEW c \in Sessions, Inbox!consumer_dies(c)  PROVE outcomes'[x] = outcomes[x] + 1
  BY <1>10 DEF Inbox!consumer_dies
<1>11. CASE UNCHANGED Inbox!vars
  BY <1>11 DEF Inbox!vars
<1> QED
  BY <1>1, <1>2, <1>3, <1>4, <1>5, <1>6, <1>7, <1>8, <1>9, <1>10, <1>11 DEF Inbox!Next

LEMMA InboxStep == Inbox!InboxInv /\ [Inbox!Next]_(Inbox!vars) => Inbox!InboxInv'
<1> USE DEF Inbox!InboxInv
<1>1. Inbox!InboxInv /\ [Inbox!Next]_(Inbox!vars) => Inbox!TypeOK'
  BY InboxTypes
<1>2. Inbox!InboxInv /\ [Inbox!Next]_(Inbox!vars) => NoTable'
  BY NoTableStep DEF NoTable
<1>3. Inbox!InboxInv /\ [Inbox!Next]_(Inbox!vars) => Inbox!LockHolders'
  BY LockHoldersStep
<1>4. Inbox!InboxInv /\ [Inbox!Next]_(Inbox!vars) => Inbox!OutcomesCounted'
  BY OutcomesCountedStep
<1> QED  BY <1>1, <1>2, <1>3, <1>4 DEF NoTable

LEMMA InboxProperties == Inbox!InboxInv => Inbox!OneOutcome
<1> SUFFICES ASSUME Inbox!InboxInv, row_locks, NEW e \in Events
             PROVE  outcomes[e] <= 1 + forgot[e]
  BY DEF Inbox!OneOutcome
<1>1. outcomes[e] \in Nat /\ forgot[e] \in Nat
  BY DEF Inbox!InboxInv, Inbox!TypeOK
<1>2. outcomes[e] <= forgot[e] + IF table[e] = "processed" THEN 1 ELSE 0
  BY DEF Inbox!InboxInv, Inbox!OutcomesCounted
<1> QED  BY <1>1, <1>2

-----------------------------------------------------------------------------
(* Admission: what each of the validators has in common with the parser.    *)

IsSection(s) == s = [f \in DOMAIN s |-> s[f]]

\* A changed section keeps its fields, and what a field holds is what it held
\* or one of its kinds.
HoldsKinds(c, section, kinds) ==
    \A f \in DOMAIN section : c[f] = section[f] \/ c[f] \in kinds[f]

LEMMA OneChangeKeeps ==
  ASSUME NEW section, NEW kinds, IsSection(section),
         NEW c \in Row!OneChange(section, kinds)
  PROVE  IsSection(c) /\ DOMAIN c = DOMAIN section /\ HoldsKinds(c, section, kinds)
<1>1. PICK f \in DOMAIN section : \E v \in kinds[f] : c = [section EXCEPT ![f] = v]
  BY DEF Row!OneChange
<1>2. PICK v \in kinds[f] : c = [section EXCEPT ![f] = v]
  BY <1>1
<1> QED  BY <1>2 DEF IsSection, HoldsKinds

LEMMA TwoChangesKeep ==
  ASSUME NEW section, NEW kinds, IsSection(section),
         NEW c \in Row!TwoChanges(section, kinds)
  PROVE  DOMAIN c = DOMAIN section
<1>1. PICK b \in Row!OneChange(section, kinds) : c \in Row!OneChange(b, kinds)
  BY DEF Row!TwoChanges
<1>2. IsSection(b) /\ DOMAIN b = DOMAIN section
  BY OneChangeKeeps
<1>3. DOMAIN c = DOMAIN b
  BY <1>1, <1>2, OneChangeKeeps
<1> QED  BY <1>2, <1>3

\* The fields beside the sink that some rule depends on.
Ruling == {"source_type", "wire_format", "retry"}

LEMMA PlainSections ==
  /\ \A t : IsSection(Row!Plain(t)) /\ DOMAIN Row!Plain(t) = DOMAIN Row!Sink[t]
  /\ IsSection(Row!PlainBeside) /\ DOMAIN Row!PlainBeside = DOMAIN Row!Beside
  /\ \A f \in Ruling :
        f \in DOMAIN Row!PlainBeside /\ Row!PlainBeside[f] \in Row!Beside[f]
<1>1. \A t : IsSection(Row!Plain(t)) /\ DOMAIN Row!Plain(t) = DOMAIN Row!Sink[t]
  BY DEF Row!Plain, IsSection
<1>2. IsSection(Row!PlainBeside) /\ DOMAIN Row!PlainBeside = DOMAIN Row!Beside
  BY DEF Row!PlainBeside, IsSection
<1>3. ASSUME NEW f \in Ruling
      PROVE  f \in DOMAIN Row!PlainBeside /\ Row!PlainBeside[f] \in Row!Beside[f]
  <2>1. f \in DOMAIN Row!Beside
    BY DEF Row!Beside, Ruling
  <2>2. Row!PlainBeside[f] = IF f = "source_type" THEN "outbox" ELSE "absent"
    BY <2>1 DEF Row!PlainBeside, Ruling
  <2> QED  BY <1>2, <2>1, <2>2 DEF Row!Beside, Ruling
<1> QED  BY <1>1, <1>2, <1>3

LEMMA RowsWellFormed ==
  ASSUME NEW d \in Row!Rows
  PROVE  Row!WellFormed(d)
<1>1. PICK t \in Row!SinkTypes \cup {"removed"} :
        \/ d \in [type : {t}, beside : {Row!PlainBeside},
                  sink : Row!TwoChanges(Row!Plain(t), Row!Sink[t])]
        \/ d \in [type : {t}, beside : Row!OneChange(Row!PlainBeside, Row!Beside),
                  sink : Row!OneChange(Row!Plain(t), Row!Sink[t])]
        \/ d \in [type : {t}, beside : Row!OneChange(Row!PlainGroup, Row!Beside),
                  sink : {Row!Plain(t)}]
  BY DEF Row!Rows
<1>2. /\ d.type = t
      /\ \/ d.beside = Row!PlainBeside
         \/ d.beside \in Row!OneChange(Row!PlainBeside, Row!Beside)
         \/ d.beside \in Row!OneChange(Row!PlainGroup, Row!Beside)
      /\ \/ d.sink \in Row!TwoChanges(Row!Plain(t), Row!Sink[t])
         \/ d.sink \in Row!OneChange(Row!Plain(t), Row!Sink[t])
         \/ d.sink = Row!Plain(t)
  BY <1>1
<1>3. t \in DOMAIN Row!Sink
  BY DEF Row!SinkTypes, Row!Sink
<1>4. DOMAIN d.sink = DOMAIN Row!Sink[t]
  <2>1. IsSection(Row!Plain(t)) /\ DOMAIN Row!Plain(t) = DOMAIN Row!Sink[t]
    BY PlainSections
  <2>2. DOMAIN d.sink = DOMAIN Row!Plain(t)
    BY <1>2, <2>1, OneChangeKeeps, TwoChangesKeep
  <2> QED  BY <2>1, <2>2
<1>5. ASSUME NEW f \in Ruling
      PROVE  d.beside[f] \in Row!Beside[f]
  <2>1. /\ f \in DOMAIN Row!PlainBeside /\ Row!PlainBeside[f] \in Row!Beside[f]
        /\ IsSection(Row!PlainBeside)
    BY PlainSections
  <2>2. CASE d.beside \in Row!OneChange(Row!PlainBeside, Row!Beside)
    <3>1. HoldsKinds(d.beside, Row!PlainBeside, Row!Beside)
      BY <2>1, <2>2, OneChangeKeeps
    <3> QED  BY <2>1, <3>1 DEF HoldsKinds
  <2>3. CASE d.beside \in Row!OneChange(Row!PlainGroup, Row!Beside)
    <3>1. /\ IsSection(Row!PlainGroup) /\ DOMAIN Row!PlainGroup = DOMAIN Row!PlainBeside
          /\ Row!PlainGroup[f] = Row!PlainBeside[f]
      BY <2>1 DEF Row!PlainGroup, IsSection, Ruling
    <3>2. HoldsKinds(d.beside, Row!PlainGroup, Row!Beside)
      BY <2>3, <3>1, OneChangeKeeps
    <3> QED  BY <2>1, <3>1, <3>2 DEF HoldsKinds
  <2> QED  BY <1>2, <2>1, <2>2, <2>3
<1> QED  BY <1>2, <1>3, <1>4, <1>5 DEF Row!WellFormed, Ruling

\* What the API stores is a row, too, and none of a removed surface.
LEMMA ApiStores ==
  ASSUME NEW d \in Row!Rows, Row!relay_set_outbox_v2_impl(d)
  PROVE  LET stored_ == Row!full_config(d)
         IN  /\ Row!WellFormed(stored_)
             /\ Row!validate_wire_format(stored_) /\ Row!validate_connector(stored_)
<1> DEFINE s == Row!full_config(d)
           wire == IF d.beside.wire_format \in {"absent", "null", "number"} THEN "native"
                   ELSE d.beside.wire_format
<1>1. Row!WellFormed(d) /\ d.beside.wire_format # "removed" /\ d.type \in Row!SUPPORTED_SINKS
  BY RowsWellFormed DEF Row!relay_set_outbox_v2_impl, Row!validate_outbox_surface
<1>2. IsSection(Row!PlainBeside) /\ DOMAIN Row!PlainBeside = DOMAIN Row!Beside
  BY PlainSections
<1>3. \A f \in Ruling : f \in DOMAIN Row!PlainBeside
  BY PlainSections
<1>4. d = [type |-> d.type, beside |-> d.beside, sink |-> d.sink]
  BY DEF Row!Rows
<1>5. s.type = d.type /\ s.sink = d.sink
  BY <1>4 DEF Row!full_config
<1>6. \E a, b : s.beside = [Row!PlainBeside EXCEPT !.sink_key = a, !.batch_size = b,
                                                   !.wire_format = wire]
  BY <1>4 DEF Row!full_config
<1>7. /\ s.beside.source_type = "outbox" /\ s.beside.retry = "absent"
      /\ s.beside.wire_format = wire
  <2>1. Row!PlainBeside["source_type"] = "outbox" /\ Row!PlainBeside["retry"] = "absent"
    BY <1>2, <1>3 DEF Row!PlainBeside, Ruling
  <2> HIDE DEF wire, s
  <2> QED  BY <1>2, <1>3, <1>6, <2>1 DEF Ruling, IsSection
<1>8. wire \in {"absent", "null", "native", "cloudevents", "number"}
  BY <1>1 DEF Row!WellFormed, Row!Beside
<1>9. Row!WellFormed(s)
  <2> HIDE DEF s, wire
  <2> QED  BY <1>1, <1>5, <1>7, <1>8 DEF Row!WellFormed, Row!Beside
<1>10. Row!validate_wire_format(s) /\ Row!validate_connector(s)
  <2> HIDE DEF s, wire
  <2> QED
    BY <1>1, <1>5, <1>7, <1>8
    DEF Row!validate_wire_format, Row!validate_connector, Row!SUPPORTED_SINKS
<1> QED  BY <1>9, <1>10

LEMMA RowInit == Row!Init => Row!AdmissionInv
  BY DEF Row!Init, Row!AdmissionInv, Row!StageEarned

\* Only resolution and the factories decide after the preflight, and nothing
\* they look at changes.
LEMMA RowStep == Row!AdmissionInv /\ [Row!Next]_(Row!vars) => Row!AdmissionInv'
<1> SUFFICES ASSUME Row!AdmissionInv, [Row!Next]_(Row!vars)  PROVE Row!AdmissionInv'
  OBVIOUS
<1>0. /\ by \in {"api", "sql"} /\ secrets \in BOOLEAN /\ compiled \in BOOLEAN
      /\ row = NoCatalogRow <=> stage = "none"
      /\ row # NoCatalogRow => Row!WellFormed(row)
      /\ row # NoCatalogRow /\ by = "api" =>
            Row!validate_wire_format(row) /\ Row!validate_connector(row)
      /\ Row!StageEarned
  BY DEF Row!AdmissionInv
<1>1. CASE Row!relay_set_outbox_v2
  <2>1. PICK asked \in Row!Rows :
          Row!relay_set_outbox_v2_impl(asked) /\ row' = Row!full_config(asked)
    BY <1>1 DEF Row!relay_set_outbox_v2
  <2>2. row' # NoCatalogRow
    BY <2>1, NobodyAssumption
  <2>3. /\ Row!WellFormed(row')
        /\ Row!validate_wire_format(row') /\ Row!validate_connector(row')
    BY <2>1, ApiStores
  <2>4. by' = "api" /\ stage' = "stored" /\ secrets' = secrets /\ compiled' = compiled
    BY <1>1 DEF Row!relay_set_outbox_v2
  <2>5. Row!StageEarned'
    BY <2>4 DEF Row!StageEarned
  <2> QED  BY <1>0, <2>2, <2>3, <2>4, <2>5 DEF Row!AdmissionInv
<1>2. CASE Row!sql_insert
  <2>1. /\ row' \in Row!Rows /\ by' = "sql" /\ stage' = "stored"
        /\ secrets' = secrets /\ compiled' = compiled
    BY <1>2 DEF Row!sql_insert
  <2>2. row' # NoCatalogRow /\ Row!WellFormed(row')
    BY <2>1, NobodyAssumption, RowsWellFormed
  <2>3. Row!StageEarned'
    BY <2>1 DEF Row!StageEarned
  <2> QED  BY <1>0, <2>1, <2>2, <2>3 DEF Row!AdmissionInv
<1>3. CASE Row!relay_delete
  BY <1>0, <1>3 DEF Row!relay_delete, Row!AdmissionInv, Row!StageEarned
\* The other steps leave the row and the relay as they are.
<1>4. ASSUME UNCHANGED <<row, by, compiled>>, secrets' \in BOOLEAN,
             stage' = "none" <=> row = NoCatalogRow,
             stage' \in {"none", "stored", "invalid", "unsupported", "passed", "unresolved",
                         "resolved", "refused", "unreachable", "running"},
             stage' = "unsupported" => Row!parse_runtime(row) = "unsupported",
             stage' \in {"passed", "unresolved", "resolved", "refused", "unreachable", "running"} =>
                Row!parse_runtime(row) = "passed" /\ Row!is_available(row.type),
             stage' = "refused" => ~(Row!build_source(row) /\ Row!build_sink(row))
      PROVE  Row!AdmissionInv'
  <2>1. /\ Row!is_available(row'.type) = Row!is_available(row.type)
        /\ Row!is_available(row.type)' = Row!is_available(row.type)
        /\ Row!build_sink(row)' = Row!build_sink(row)
    BY <1>4 DEF Row!is_available, Row!build_sink, Row!build_inbox, Row!connect
  <2>2. Row!StageEarned'
    BY <1>4, <2>1 DEF Row!StageEarned
  <2> QED  BY <1>0, <1>4, <2>2 DEF Row!AdmissionInv
<1> USE DEF Row!StageEarned
<1>5. CASE Row!secret_provided
  BY <1>0, <1>4, <1>5 DEF Row!secret_provided, Row!AdmissionInv
<1>6. CASE Row!startup_preflight
  <2>1. Row!parse_runtime(row) \in {"invalid", "unsupported", "passed"}
    BY DEF Row!parse_runtime
  <2> QED  BY <1>0, <1>4, <1>6, <2>1 DEF Row!startup_preflight
<1>7. CASE Row!resolve_pipeline_secrets
  BY <1>0, <1>4, <1>7 DEF Row!resolve_pipeline_secrets
<1>8. CASE Row!build_worker
  <2>1. CASE Row!build_source(row) /\ Row!build_sink(row)
    BY <1>0, <1>4, <1>8, <2>1 DEF Row!build_worker
  <2>2. CASE ~(Row!build_source(row) /\ Row!build_sink(row))
    BY <1>0, <1>4, <1>8, <2>2 DEF Row!build_worker
  <2> QED  BY <2>1, <2>2
<1>9. CASE Row!reconcile
  BY <1>0, <1>4, <1>9 DEF Row!reconcile
<1>10. CASE UNCHANGED Row!vars
  BY <1>0, <1>4, <1>10 DEF Row!vars, Row!AdmissionInv
<1> QED
  BY <1>1, <1>2, <1>3, <1>5, <1>6, <1>7, <1>8, <1>9, <1>10 DEF Row!Next

\* What the parser decides, rule by rule.
LEMMA ParserPasses ==
  ASSUME NEW d, Row!parse_runtime(d) = "passed"
  PROVE  /\ Row!deserialize(d) /\ Row!validate_wire_format(d) /\ Row!validate_batch_size(d)
         /\ Row!validate_connector(d) /\ Row!validate_connector_fields(d)
         /\ Row!validate_supported_source(d) /\ Row!validate_supported_sink(d)
         /\ Row!validate_sections(d) /\ Row!validate_secret_references(d)
  BY DEF Row!parse_runtime

\* The factories ask for nothing that the parser did not ask for, but for the
\* new names, a safe endpoint, and names and connection strings that are fit.
LEMMA ParserCoversFactories ==
  ASSUME NEW d, Row!parse_runtime(d) = "passed", Row!is_available(d.type),
         ~(Row!build_source(d) /\ Row!build_sink(d))
  PROVE  \/ Row!OldNames(d) \/ Row!UnsafeEndpoint(d)
         \/ Row!UnfitGroupOutbox(d) \/ Row!UnfitInbox(d)
<1> SUFFICES ASSUME ~ Row!OldNames(d), ~ Row!UnsafeEndpoint(d),
                    ~ Row!UnfitGroupOutbox(d), ~ Row!UnfitInbox(d)
             PROVE  Row!build_source(d) /\ Row!build_sink(d)
  OBVIOUS
<1>1. Row!build_source(d) /\ (d.type # "stdout" => d.beside.sink_key = "sink")
  BY ParserPasses
  DEF Row!build_source, Row!validate_connector, Row!deserialize, Row!OldNames,
      Row!UnfitGroupOutbox, Row!validate_relay_identifier
<1>2. Row!validate_supported_sink(d)
  BY ParserPasses
<1>3. ASSUME d.type = "nats"  PROVE Row!nats_new_with_options(d)
  BY <1>2, <1>3 DEF Row!validate_supported_sink, Row!validate_nats, Row!nats_new_with_options
<1>4. ASSUME d.type = "kafka"  PROVE Row!kafka_new_with_options(d)
  <2>1. Row!validate_kafka(d)
    BY <1>2, <1>4 DEF Row!validate_supported_sink
  <2>2. \A f \in {"topic", "topic_template"} : d.sink[f] \notin {"blank", "malformed"}
    BY <2>1 DEF Row!validate_kafka, Row!validate_destination_text
  <2> QED  BY <2>1, <2>2 DEF Row!validate_kafka, Row!kafka_new_with_options
<1>5. ASSUME d.type = "webhook"  PROVE Row!webhook_new_with_options(d)
  BY <1>2, <1>5
  DEF Row!validate_supported_sink, Row!validate_webhook, Row!webhook_new_with_options,
      Row!validate_url, Row!is_forbidden_hostname, Row!WithTls, Row!UnsafeEndpoint
<1>6. ASSUME d.type \in {"inbox", "pg_outbox"}  PROVE Row!build_inbox(d)
  BY <1>6
  DEF Row!build_inbox, Row!connect, Row!parse_ssl_mode_checked, Row!Present,
      Row!resolve_inbox_relation, Row!validate_relay_identifier, Row!UnfitInbox
<1> QED  BY <1>1, <1>3, <1>4, <1>5, <1>6 DEF Row!build_sink

\* What the parser accepts, the published schema accepts, sink by sink.
LEMMA ParserCoversSchemaSink ==
  ASSUME NEW d, Row!WellFormed(d), Row!parse_runtime(d) = "passed",
         ~(d.type = "kafka" /\ d.sink.security_protocol = "number")
  PROVE  Row!schema_sink(d)
<1>1. Row!validate_supported_sink(d) /\ d.type \in Row!SinkTypes
  BY ParserPasses DEF Row!validate_connector
<1>2. CASE d.type \in {"inbox", "pg_outbox"}
  BY <1>1, <1>2
  DEF Row!schema_sink, Row!validate_supported_sink, Row!validate_inbox,
      Row!require_string_field, Row!optional_non_empty_string_field, Row!Strings
<1>3. CASE d.type = "nats"
  <2>1. Row!validate_nats(d)
    BY <1>1, <1>3 DEF Row!validate_supported_sink
  <2>2. DOMAIN d.sink = {"url", "allow_insecure", "token", "username", "password",
                         "credentials_file", "tls_client_cert", "tls_client_key",
                         "subject", "subject_template"}
    BY <1>3 DEF Row!WellFormed, Row!Sink
  <2>3. /\ d.sink.url \in Row!Strings
        /\ d.sink.allow_insecure \in {"absent", "true", "false"}
        /\ d.sink.token \in {"absent", "reference"}
        /\ d.sink.password \in {"absent", "reference"}
        /\ \A f \in {"username", "credentials_file", "tls_client_cert", "tls_client_key"} :
              d.sink[f] \in {"absent"} \cup Row!Strings
        /\ \A f \in {"subject", "subject_template"} :
              d.sink[f] \in {"absent", "text", "reference", "broken"}
        /\ "absent" \in {d.sink.subject, d.sink.subject_template}
    BY <2>1
    DEF Row!validate_nats, Row!require_string_field, Row!optional_non_empty_string_field,
        Row!optional_bool_field, Row!optional_secret_reference_field,
        Row!validate_destination_text, Row!Present
  <2>4. "number" \notin {"absent"} \cup Row!Strings
    BY DEF Row!Strings
  <2>5. \A f \in DOMAIN d.sink : d.sink[f] # "number"
    BY <2>2, <2>3, <2>4
  <2> QED  BY <1>3, <2>3, <2>5 DEF Row!schema_sink
<1>4. CASE d.type = "kafka"
  <2>1. Row!validate_kafka(d)
    BY <1>1, <1>4 DEF Row!validate_supported_sink
  <2>2. DOMAIN d.sink = {"brokers", "allow_insecure", "sasl_password", "security_protocol",
                         "ssl_ca_location", "sasl_mechanism", "topic", "topic_template"}
    BY <1>4 DEF Row!WellFormed, Row!Sink
  <2>3. /\ d.sink.brokers \in Row!Strings
        /\ d.sink.allow_insecure \in {"absent", "true", "false"}
        /\ d.sink.security_protocol \in {"absent", "ssl", "plaintext"}
        /\ d.sink.ssl_ca_location \in {"absent"} \cup Row!Strings
        /\ d.sink.sasl_password \in {"absent", "reference"}
        /\ d.sink.sasl_mechanism \in {"absent", "listed"}
        /\ \A f \in {"topic", "topic_template"} :
              d.sink[f] \in {"absent", "text", "reference", "broken"}
        /\ "absent" \in {d.sink.topic, d.sink.topic_template}
    BY <1>4, <2>1
    DEF Row!validate_kafka, Row!KafkaTransport, Row!require_string_field,
        Row!optional_non_empty_string_field, Row!optional_bool_field,
        Row!optional_secret_reference_field, Row!validate_destination_text, Row!Present
  <2>4. "number" \notin {"absent"} \cup Row!Strings
    BY DEF Row!Strings
  <2>5. \A f \in DOMAIN d.sink : d.sink[f] # "number"
    BY <2>2, <2>3, <2>4
  <2> QED  BY <1>4, <2>3, <2>5 DEF Row!schema_sink
<1>5. CASE d.type = "webhook"
  <2>1. Row!validate_webhook(d)
    BY <1>1, <1>5 DEF Row!validate_supported_sink
  <2> QED
    BY <1>5, <2>1
    DEF Row!schema_sink, Row!validate_webhook, Row!optional_bool_field,
        Row!optional_secret_reference_field
<1>6. CASE d.type \in {"stdout", "file"}
  BY <1>1, <1>6
  DEF Row!schema_sink, Row!validate_supported_sink, Row!validate_diagnostics
<1> QED  BY <1>1, <1>2, <1>3, <1>4, <1>5, <1>6 DEF Row!SinkTypes

LEMMA ParserCoversSchema ==
  ASSUME NEW d, Row!WellFormed(d), Row!parse_runtime(d) = "passed"
  PROVE  \/ Row!pipeline_schema(d)
         \/ d.beside.source_type = "absent" \/ d.beside.sink_key = "config"
         \/ "null" \in {d.beside.batch_size, d.beside.wire_format, d.beside.retry}
         \/ d.type = "kafka" /\ d.sink.security_protocol = "number"
<1> SUFFICES ASSUME d.beside.source_type # "absent", d.beside.sink_key # "config",
                    d.beside.batch_size # "null", d.beside.wire_format # "null",
                    d.beside.retry # "null",
                    ~(d.type = "kafka" /\ d.sink.security_protocol = "number")
             PROVE  Row!pipeline_schema(d)
  OBVIOUS
<1>1. Row!schema_sink(d)
  BY ParserCoversSchemaSink
<1>2. /\ d.type \in Row!SinkTypes
      /\ d.beside.source_type = "outbox" /\ d.beside.sink_key = "sink"
      /\ d.beside.typo = "absent" /\ d.beside.source_mode = "absent"
  BY ParserPasses DEF Row!validate_connector, Row!validate_connector_fields, Row!deserialize
<1>3. d.beside.batch_size \in {"absent", "fits"} \cup
         (IF d.type \in {"stdout", "file"} THEN {"sink_max", "api_max"} ELSE {})
  BY ParserPasses DEF Row!validate_sections, Row!WithinCapabilities
<1>4. d.beside.wire_format \in {"absent", "native", "cloudevents"}
  BY ParserPasses
  DEF Row!WellFormed, Row!Beside, Row!validate_wire_format, Row!deserialize
<1>5. d.beside.retry \in {"absent", "fine"}
  BY ParserPasses DEF Row!WellFormed, Row!Beside, Row!validate_sections
<1>6. /\ d.beside.outbox \in Row!Strings
      /\ d.beside.consumer_group \in Row!Strings \cup {"absent"}
      /\ d.beside.visibility_seconds \in {"absent", "fits"}
  BY ParserPasses DEF Row!validate_supported_source
<1> QED  BY <1>1, <1>2, <1>3, <1>4, <1>5, <1>6 DEF Row!pipeline_schema

LEMMA RowProperties ==
  Row!AdmissionInv =>
    Row!ValidatedRowsStart /\ Row!SchemaCoversParser /\ Row!MigrationListsRemoved
<1> SUFFICES ASSUME Row!AdmissionInv
             PROVE  Row!ValidatedRowsStart /\ Row!SchemaCoversParser /\ Row!MigrationListsRemoved
  OBVIOUS
<1>0. /\ by \in {"api", "sql"}
      /\ row = NoCatalogRow <=> stage = "none"
      /\ row # NoCatalogRow => Row!WellFormed(row)
      /\ row # NoCatalogRow /\ by = "api" =>
            Row!validate_wire_format(row) /\ Row!validate_connector(row)
      /\ Row!StageEarned
  BY DEF Row!AdmissionInv
<1>1. Row!ValidatedRowsStart
  BY <1>0, ParserCoversFactories
  DEF Row!ValidatedRowsStart, Row!StageEarned, Row!run_validate_config
<1>2. Row!SchemaCoversParser
  <2>1. stage = "passed" => Row!WellFormed(row) /\ Row!parse_runtime(row) = "passed"
    BY <1>0 DEF Row!StageEarned
  <2> QED  BY <2>1, ParserCoversSchema DEF Row!SchemaCoversParser
<1>3. ASSUME stage = "unsupported"  PROVE Row!removed_surface(row) /\ by = "sql"
  <2>1. ~ Row!validate_wire_format(row) \/ ~ Row!validate_connector(row)
    BY <1>0, <1>3 DEF Row!StageEarned, Row!parse_runtime
  <2>2. row.beside.source_type \in {"absent", "outbox", "removed"}
    BY <1>0, <1>3 DEF Row!WellFormed, Row!Beside
  <2>3. Row!removed_surface(row)
    BY <2>1, <2>2
    DEF Row!removed_surface, Row!validate_wire_format, Row!validate_connector,
        Row!MIGRATE_SINKS
  <2> QED  BY <1>0, <1>3, <2>1, <2>3
<1>4. ASSUME stage \in {"passed", "resolved", "running"}  PROVE ~ Row!removed_surface(row)
  <2>1. Row!parse_runtime(row) = "passed"
    BY <1>0, <1>4 DEF Row!StageEarned
  <2> QED
    BY <2>1, ParserPasses
    DEF Row!removed_surface, Row!deserialize, Row!validate_wire_format,
        Row!validate_connector, Row!MIGRATE_SINKS
<1> QED  BY <1>1, <1>2, <1>3, <1>4 DEF Row!MigrationListsRemoved

-----------------------------------------------------------------------------
(* Publishing: ids, checks and the relay's checkpoint across the lives of   *)
(* an outbox.                                                               *)

LEMMA PublishInit == Publish!Init => Publish!PublishingInv
<1> SUFFICES ASSUME Publish!Init  PROVE Publish!PublishingInv
  OBVIOUS
<1> USE DEF Publish!Init
<1>1. Publish!TypeOK
  BY NumbersAssumption DEF Publish!TypeOK, Publish!Stages, Publish!Jobs
<1>2. Publish!Writing = {}
  BY DEF Publish!Writing
<1>3. Publish!ChecksPassed
  BY DEF Publish!ChecksPassed
<1> QED
  BY <1>1, <1>2, <1>3
  DEF Publish!PublishingInv, Publish!IdsUnique, Publish!CheckedWhilePermitted,
      Publish!WritesAhead, Publish!BatchRead, Publish!NewOutboxIsSeen,
      Publish!NothingOutlivesItsOutbox

\* The part of the types that publishing sessions and the relay leave alone.
OutboxTypes ==
    /\ outbox \in {NoOutbox, "enabled", "disabled"}
    /\ publishers \subseteq Roles /\ members \subseteq Roles
    /\ groups \subseteq Groups /\ offsets \subseteq groups
    /\ admin \in [Sessions -> Publish!Jobs]

\* The rest, and all that is said of rows and ids.
RowsInv ==
    /\ messages \subseteq [id : 1 .. last_id, checked : BOOLEAN]
    /\ last_id \in 0 .. MaxId /\ relay_checkpoint \in 0 .. last_id /\ polled \in 0 .. last_id
    /\ call \in [Roles -> [stage : Publish!Stages, id : 0 .. last_id]]
    /\ Publish!IdsUnique /\ Publish!CheckedWhilePermitted
    /\ Publish!BatchRead /\ Publish!NewOutboxIsSeen

LEMMA PublishParts ==
  Publish!PublishingInv <=>
    OutboxTypes /\ RowsInv /\ Publish!ChecksPassed /\ Publish!WritesAhead
    /\ Publish!NothingOutlivesItsOutbox
  BY DEF Publish!PublishingInv, Publish!TypeOK, OutboxTypes, RowsInv

LEMMA PublishPartsNext ==
  OutboxTypes' /\ RowsInv' /\ Publish!ChecksPassed' /\ Publish!WritesAhead'
  /\ Publish!NothingOutlivesItsOutbox' => Publish!PublishingInv'
  BY DEF Publish!PublishingInv, Publish!TypeOK, OutboxTypes, RowsInv

\* A check that a call passed, or passes now, is remembered.
LEMMA ChecksKept ==
  ASSUME Publish!ChecksPassed, Publish!Watch,
         \A p \in Roles :
            /\ call'[p].stage # "idle" => call[p].stage # "idle" \/ Publish!Enabled'
            /\ call'[p].stage \in {"allowed", "fenced", "written"} =>
                  call[p].stage \in {"allowed", "fenced", "written"} \/ Publish!Permitted(p)'
  PROVE  Publish!ChecksPassed'
<1> DEFINE running == {p \in Roles : call'[p].stage # "idle"}
<1>1. /\ saw_enabled' = {p \in running : p \in saw_enabled \/ Publish!Enabled'}
      /\ saw_permitted' = {p \in running : p \in saw_permitted \/ Publish!Permitted(p)'}
  BY DEF Publish!Watch
<1>2. ASSUME NEW p \in Roles, call'[p].stage # "idle"
      PROVE  p \in saw_enabled'
  BY <1>1, <1>2 DEF Publish!ChecksPassed
<1>3. ASSUME NEW p \in Roles, call'[p].stage \in {"allowed", "fenced", "written"}
      PROVE  p \in saw_permitted'
  <2>1. p \in running
    BY <1>3
  <2>2. p \in saw_permitted \/ Publish!Permitted(p)'
    BY <1>3 DEF Publish!ChecksPassed
  <2> QED  BY <1>1, <2>1, <2>2
<1> QED  BY <1>2, <1>3 DEF Publish!ChecksPassed

\* A change of the configuration that leaves the outbox where it is.
LEMMA ConfigurationKeeps ==
  ASSUME Publish!PublishingInv, UNCHANGED <<messages, last_id, call, Publish!relay_vars>>,
         Publish!Watch, OutboxTypes', Publish!NothingOutlivesItsOutbox',
         Publish!outbox_exists => Publish!outbox_exists'
  PROVE  Publish!PublishingInv'
<1>0. /\ OutboxTypes /\ RowsInv /\ Publish!ChecksPassed /\ Publish!WritesAhead
      /\ UNCHANGED <<messages, last_id, call, polled, relay_checkpoint, delivered>>
  BY PublishParts DEF Publish!relay_vars
<1>1. RowsInv'
  BY <1>0
  DEF RowsInv, Publish!IdsUnique, Publish!Writing, Publish!CheckedWhilePermitted,
      Publish!BatchRead, Publish!NewOutboxIsSeen
<1>2. Publish!ChecksPassed'
  BY <1>0, ChecksKept
<1>3. Publish!WritesAhead'
  BY <1>0 DEF Publish!WritesAhead, Publish!Writing
<1> QED  BY <1>1, <1>2, <1>3, PublishPartsNext

\* A step of a call that writes no row.
LEMMA StageKeeps ==
  ASSUME Publish!PublishingInv, Publish!Watch, NEW p \in Roles,
         NEW stage_ \in Publish!Stages \ {"written"}, Publish!Stage(p, stage_),
         UNCHANGED <<Publish!outbox_vars, messages, last_id, admin, Publish!relay_vars>>,
         stage_ # "idle" => call[p].stage # "idle" \/ Publish!Enabled,
         stage_ \in {"allowed", "fenced"} =>
            call[p].stage \in {"allowed", "fenced", "written"} \/ Publish!Permitted(p)
  PROVE  Publish!PublishingInv'
<1>0. /\ OutboxTypes /\ RowsInv /\ Publish!ChecksPassed /\ Publish!WritesAhead
      /\ Publish!NothingOutlivesItsOutbox
      /\ UNCHANGED <<outbox, publishers, members, groups, offsets, admin,
                     messages, last_id, polled, relay_checkpoint, delivered>>
  BY PublishParts DEF Publish!relay_vars, Publish!outbox_vars
<1>1. /\ last_id \in Nat
      /\ call \in [Roles -> [stage : Publish!Stages, id : 0 .. last_id]]
      /\ call' = [call EXCEPT ![p] = [stage |-> stage_, id |-> 0]]
  BY <1>0, NumbersAssumption DEF RowsInv, Publish!Stage
<1>2. call' \in [Roles -> [stage : Publish!Stages, id : 0 .. last_id]]
  BY <1>1
<1>3. /\ call'[p].stage = stage_
      /\ \A q \in Roles : q # p => call'[q] = call[q]
  BY <1>1
<1>4. Publish!Writing' \subseteq Publish!Writing
      /\ \A q \in Publish!Writing' : call'[q] = call[q]
  BY <1>3 DEF Publish!Writing
<1>5. RowsInv'
  BY <1>0, <1>2, <1>4
  DEF RowsInv, Publish!IdsUnique, Publish!CheckedWhilePermitted,
      Publish!BatchRead, Publish!NewOutboxIsSeen
<1>6. Publish!ChecksPassed'
  <2>1. Publish!Enabled' = Publish!Enabled /\ Publish!Permitted(p)' = Publish!Permitted(p)
    BY <1>0 DEF Publish!Enabled, Publish!Permitted
  <2> QED  BY <1>0, <1>3, <2>1, ChecksKept
<1>7. Publish!WritesAhead'
  BY <1>0, <1>4 DEF Publish!WritesAhead, Publish!outbox_exists
<1>8. OutboxTypes' /\ Publish!NothingOutlivesItsOutbox'
  BY <1>0 DEF OutboxTypes, Publish!NothingOutlivesItsOutbox
<1> QED  BY <1>5, <1>6, <1>7, <1>8, PublishPartsNext

LEMMA InsertStep ==
  ASSUME Publish!PublishingInv, Publish!Watch, NEW p \in Roles, Publish!insert(p)
  PROVE  Publish!PublishingInv'
<1>0. /\ OutboxTypes /\ RowsInv /\ Publish!ChecksPassed /\ Publish!WritesAhead
      /\ Publish!NothingOutlivesItsOutbox
      /\ UNCHANGED <<Publish!outbox_vars, messages, admin, Publish!relay_vars>>
      /\ UNCHANGED <<outbox, publishers, members, groups, offsets, polled,
                     relay_checkpoint, delivered>>
      /\ call[p].stage = "fenced"
  BY PublishParts DEF Publish!relay_vars, Publish!outbox_vars, Publish!insert
<1>1. CASE ~ Publish!outbox_exists
  BY <1>0, <1>1, StageKeeps DEF Publish!insert, Publish!Stages
<1>2. CASE Publish!outbox_exists
  <2> DEFINE id == last_id + 1
             written_ == [stage |-> "written", id |-> id]
  <2>1. /\ last_id \in Nat /\ MaxId \in Nat /\ id \in 1 .. MaxId /\ last_id' = id
        /\ call' = [call EXCEPT ![p] = written_]
        /\ polled \in 0 .. last_id /\ relay_checkpoint \in 0 .. last_id
        /\ messages \subseteq [id : 1 .. last_id, checked : BOOLEAN]
        /\ call \in [Roles -> [stage : Publish!Stages, id : 0 .. last_id]]
    BY <1>0, <1>2, NumbersAssumption DEF RowsInv, Publish!insert, Publish!NextId
  <2>2. written_ \in [stage : Publish!Stages, id : 0 .. id]
    BY <2>1 DEF Publish!Stages
  <2>3. 0 .. last_id \subseteq 0 .. id /\ 1 .. last_id \subseteq 1 .. id
    BY <2>1
  <2>4. \A q \in Roles : call[q] \in [stage : Publish!Stages, id : 0 .. id]
    BY <2>1, <2>3
  <2>5. /\ call' \in [Roles -> [stage : Publish!Stages, id : 0 .. id]]
        /\ call'[p] = written_ /\ \A q \in Roles \ {p} : call'[q] = call[q]
    <3> HIDE DEF written_
    <3> QED  BY <2>1, <2>2, <2>4
  <2>6. messages \subseteq [id : 1 .. id, checked : BOOLEAN]
    BY <2>1, <2>3
  <2>7. \A m \in messages : m.id \in 1 .. last_id
    BY <2>1
  <2>8. Publish!Writing' = Publish!Writing \cup {p}
    BY <2>5 DEF Publish!Writing
  <2>9. \A q \in Publish!Writing' \ {p} : q \in Publish!Writing /\ call'[q] = call[q]
    BY <2>5, <2>8 DEF Publish!Writing
  <2>10. \A q \in Publish!Writing' \ {p} : call'[q].id \in 0 .. last_id
    BY <2>1, <2>9 DEF Publish!Writing
  <2>11. Publish!IdsUnique'
    <3>1. \A m, n \in messages : m.id = n.id => m = n
      BY <1>0 DEF RowsInv, Publish!IdsUnique
    <3>2. ASSUME NEW q \in Publish!Writing', NEW m \in messages  PROVE m.id # call'[q].id
      <4>1. CASE q = p
        BY <2>1, <2>5, <2>7, <4>1
      <4>2. CASE q # p
        BY <1>0, <2>9, <4>2 DEF RowsInv, Publish!IdsUnique
      <4> QED  BY <4>1, <4>2
    <3>3. ASSUME NEW q \in Publish!Writing', NEW r \in Publish!Writing',
                 call'[q].id = call'[r].id
          PROVE  q = r
      <4>1. ASSUME NEW v \in Publish!Writing' \ {p}  PROVE call'[v].id # call'[p].id
        BY <2>1, <2>5, <2>10
      <4>2. CASE q # p /\ r # p
        BY <1>0, <2>9, <3>3, <4>2 DEF RowsInv, Publish!IdsUnique
      <4> QED  BY <3>3, <4>1, <4>2
    <3> QED  BY <1>0, <3>1, <3>2, <3>3 DEF Publish!IdsUnique
  <2>12. RowsInv'
    <3>1. last_id' \in 0 .. MaxId /\ relay_checkpoint' \in 0 .. last_id'
          /\ polled' \in 0 .. last_id'
      BY <1>0, <2>1
    <3>2. Publish!CheckedWhilePermitted' /\ Publish!BatchRead' /\ Publish!NewOutboxIsSeen'
      BY <1>0
      DEF RowsInv, Publish!CheckedWhilePermitted, Publish!BatchRead, Publish!NewOutboxIsSeen
    <3> QED  BY <1>0, <2>1, <2>5, <2>6, <2>11, <3>1, <3>2 DEF RowsInv
  <2>13. Publish!ChecksPassed'
    <3>1. \A q \in Roles : call'[q].stage # "idle" => call[q].stage # "idle"
      BY <1>0, <2>5
    <3>2. \A q \in Roles : call'[q].stage \in {"allowed", "fenced", "written"} =>
                             call[q].stage \in {"allowed", "fenced", "written"}
      BY <1>0, <2>5
    <3> QED  BY <1>0, <3>1, <3>2, ChecksKept
  <2>14. Publish!WritesAhead'
    <3>1. ASSUME NEW q \in Publish!Writing'
          PROVE  call'[q].id > relay_checkpoint /\ call'[q].id > polled
      <4>1. CASE q = p
        BY <2>1, <2>5, <4>1
      <4>2. CASE q # p
        BY <1>0, <2>9, <4>2 DEF Publish!WritesAhead
      <4> QED  BY <4>1, <4>2
    <3> QED  BY <1>0, <1>2, <3>1 DEF Publish!WritesAhead, Publish!outbox_exists
  <2> QED
    BY <1>0, <2>12, <2>13, <2>14, PublishPartsNext
    DEF OutboxTypes, Publish!NothingOutlivesItsOutbox
<1> QED  BY <1>1, <1>2

LEMMA CommitStep ==
  ASSUME Publish!PublishingInv, Publish!Watch, NEW p \in Roles, Publish!commit(p)
  PROVE  Publish!PublishingInv'
<1> DEFINE new == [id |-> call[p].id,
                   checked |-> p \in saw_enabled /\ p \in saw_permitted]
<1>0. /\ OutboxTypes /\ RowsInv /\ Publish!ChecksPassed /\ Publish!WritesAhead
      /\ Publish!NothingOutlivesItsOutbox
      /\ UNCHANGED <<outbox, publishers, members, groups, offsets, admin, last_id, polled,
                     relay_checkpoint, delivered>>
      /\ call[p].stage = "written" /\ messages' = messages \cup {new}
      /\ call' = [call EXCEPT ![p] = [stage |-> "idle", id |-> 0]]
  BY PublishParts
  DEF Publish!relay_vars, Publish!outbox_vars, Publish!commit, Publish!Stage
<1>1. /\ last_id \in Nat /\ relay_checkpoint \in Nat /\ polled \in Nat
      /\ messages \subseteq [id : 1 .. last_id, checked : BOOLEAN]
      /\ call \in [Roles -> [stage : Publish!Stages, id : 0 .. last_id]]
  BY <1>0, NumbersAssumption DEF RowsInv
<1>2. /\ call' \in [Roles -> [stage : Publish!Stages, id : 0 .. last_id]]
      /\ call'[p].stage = "idle" /\ \A q \in Roles \ {p} : call'[q] = call[q]
  BY <1>0, <1>1 DEF Publish!Stages
<1>3. /\ p \in Publish!Writing
      /\ \A q \in Publish!Writing' : q \in Publish!Writing /\ q # p /\ call'[q] = call[q]
  BY <1>0, <1>2 DEF Publish!Writing
<1>4. /\ call[p].id \in 1 .. last_id /\ call[p].id > relay_checkpoint /\ call[p].id > polled
      /\ Publish!outbox_exists
  BY <1>0, <1>1, <1>3 DEF Publish!WritesAhead
<1>5. p \in saw_enabled /\ p \in saw_permitted
  BY <1>0 DEF Publish!ChecksPassed
<1>6. new \in [id : 1 .. last_id, checked : BOOLEAN] /\ new.checked /\ new.id = call[p].id
  BY <1>4, <1>5
<1> HIDE DEF new
<1>7. Publish!IdsUnique'
  <2>1. ASSUME NEW m \in messages', NEW n \in messages', m.id = n.id  PROVE m = n
    BY <1>0, <1>3, <1>6, <2>1 DEF RowsInv, Publish!IdsUnique
  <2>2. ASSUME NEW q \in Publish!Writing', NEW m \in messages'  PROVE m.id # call'[q].id
    <3>1. CASE m = new
      BY <1>0, <1>3, <1>6, <3>1 DEF RowsInv, Publish!IdsUnique
    <3>2. CASE m \in messages
      BY <1>0, <1>3, <3>2 DEF RowsInv, Publish!IdsUnique
    <3> QED  BY <1>0, <3>1, <3>2
  <2>3. \A q, r \in Publish!Writing' : call'[q].id = call'[r].id => q = r
    BY <1>0, <1>3 DEF RowsInv, Publish!IdsUnique
  <2> QED  BY <2>1, <2>2, <2>3 DEF Publish!IdsUnique
<1>8. Publish!BatchRead' /\ Publish!NewOutboxIsSeen'
  BY <1>0, <1>1, <1>4, <1>6 DEF RowsInv, Publish!BatchRead, Publish!NewOutboxIsSeen
<1>9. Publish!CheckedWhilePermitted'
  BY <1>0, <1>6 DEF RowsInv, Publish!CheckedWhilePermitted
<1>10. RowsInv'
  BY <1>0, <1>1, <1>2, <1>6, <1>7, <1>8, <1>9 DEF RowsInv
<1>11. Publish!ChecksPassed'
  BY <1>0, <1>2, ChecksKept
<1>12. Publish!WritesAhead'
  BY <1>0, <1>3 DEF Publish!WritesAhead, Publish!outbox_exists
<1>13. OutboxTypes' /\ Publish!NothingOutlivesItsOutbox'
  BY <1>0, <1>4 DEF OutboxTypes, Publish!NothingOutlivesItsOutbox, Publish!outbox_exists
<1> QED  BY <1>10, <1>11, <1>12, <1>13, PublishPartsNext

\* Nobody is writing while the outbox is dropped.
LEMMA DropStep ==
  ASSUME Publish!PublishingInv, Publish!Watch, NEW a \in Sessions, Publish!drop_delete(a)
  PROVE  Publish!PublishingInv'
<1>0. /\ OutboxTypes /\ RowsInv /\ Publish!ChecksPassed
      /\ UNCHANGED <<members, last_id, call, polled, relay_checkpoint>>
      /\ messages' = {} /\ publishers' = {} /\ groups' = {} /\ offsets' = {}
      /\ outbox' = NoOutbox /\ admin' = [admin EXCEPT ![a] = [op |-> "idle"]]
      /\ Publish!Writing = {}
  BY PublishParts DEF Publish!drop_delete, Publish!Sharing, Publish!Writing
<1>1. Publish!Writing' = {}
  BY <1>0 DEF Publish!Writing
<1>2. RowsInv'
  BY <1>0, <1>1
  DEF RowsInv, Publish!IdsUnique, Publish!CheckedWhilePermitted,
      Publish!BatchRead, Publish!NewOutboxIsSeen
<1>3. Publish!ChecksPassed'
  BY <1>0, ChecksKept
<1>4. OutboxTypes'
  BY <1>0 DEF OutboxTypes, Publish!Jobs
<1> QED
  BY <1>0, <1>1, <1>2, <1>3, <1>4, PublishPartsNext
  DEF Publish!WritesAhead, Publish!NothingOutlivesItsOutbox

\* The relay reads what is ahead of its checkpoint while nobody is writing.
LEMMA PollStep ==
  ASSUME Publish!PublishingInv, Publish!Watch, Publish!poll
  PROVE  Publish!PublishingInv'
<1> DEFINE ids == {m.id : m \in Publish!Unread}
<1>0. /\ OutboxTypes /\ RowsInv /\ Publish!ChecksPassed /\ Publish!NothingOutlivesItsOutbox
      /\ UNCHANGED <<outbox, publishers, members, groups, offsets, admin, messages, last_id,
                     call, relay_checkpoint>>
      /\ polled' = Publish!Max(ids) /\ delivered' = delivered \cup ids
      /\ Publish!Unread # {} /\ Publish!Writing = {}
  BY PublishParts DEF Publish!outbox_vars, Publish!poll, Publish!Sharing, Publish!Writing
<1>1. /\ last_id \in Nat /\ relay_checkpoint \in 0 .. last_id
      /\ messages \subseteq [id : 1 .. last_id, checked : BOOLEAN]
  BY <1>0, NumbersAssumption DEF RowsInv
<1>2. ids \in SUBSET (0 .. last_id) /\ ids # {}
  BY <1>0, <1>1 DEF Publish!Unread
<1>3. Publish!Max(ids) \in ids
  <2> HIDE DEF ids
  <2>1. PICK x \in ids : \A y \in ids : y <= x
    BY <1>1, <1>2, GreatestExists
  <2>2. ids \subseteq Int
    BY <1>1, <1>2
  <2>3. \A y \in ids : x >= y
    BY <2>1, <2>2
  <2> QED  BY <2>3 DEF Publish!Max
<1>4. polled' \in 0 .. last_id
  BY <1>0, <1>2, <1>3
<1>5. Publish!BatchRead' /\ Publish!NewOutboxIsSeen'
  <2>1. ASSUME NEW m \in messages  PROVE m.id \in delivered'
    <3>1. m.id \in Nat /\ relay_checkpoint \in Nat
      BY <1>1
    <3>2. CASE m.id > relay_checkpoint
      BY <1>0, <3>2 DEF Publish!Unread
    <3>3. CASE m.id <= relay_checkpoint
      BY <1>0, <3>3 DEF RowsInv, Publish!NewOutboxIsSeen
    <3> QED  BY <3>1, <3>2, <3>3
  <2> QED  BY <1>0, <2>1 DEF Publish!BatchRead, Publish!NewOutboxIsSeen
<1>6. Publish!Writing' = {}
  BY <1>0 DEF Publish!Writing
<1>7. RowsInv'
  BY <1>0, <1>4, <1>5, <1>6 DEF RowsInv, Publish!IdsUnique, Publish!CheckedWhilePermitted
<1>8. Publish!ChecksPassed'
  BY <1>0, ChecksKept
<1>9. OutboxTypes' /\ Publish!NothingOutlivesItsOutbox' /\ Publish!WritesAhead'
  BY <1>0, <1>6 DEF OutboxTypes, Publish!NothingOutlivesItsOutbox, Publish!WritesAhead
<1> QED  BY <1>7, <1>8, <1>9, PublishPartsNext

LEMMA AcknowledgeStep ==
  ASSUME Publish!PublishingInv, Publish!Watch, Publish!acknowledge
  PROVE  Publish!PublishingInv'
<1>0. /\ OutboxTypes /\ RowsInv /\ Publish!ChecksPassed /\ Publish!NothingOutlivesItsOutbox
      /\ Publish!WritesAhead
      /\ UNCHANGED <<outbox, publishers, members, groups, offsets, admin, messages, last_id,
                     call, delivered>>
      /\ relay_checkpoint' = Publish!Max({relay_checkpoint, polled}) /\ polled' = 0
  BY PublishParts DEF Publish!outbox_vars, Publish!acknowledge
<1>1. /\ last_id \in Nat /\ relay_checkpoint \in 0 .. last_id /\ polled \in 0 .. last_id
      /\ messages \subseteq [id : 1 .. last_id, checked : BOOLEAN]
  BY <1>0, NumbersAssumption DEF RowsInv
<1>2. relay_checkpoint' \in {relay_checkpoint, polled}
  <2>1. \E x \in {relay_checkpoint, polled} : \A y \in {relay_checkpoint, polled} : x >= y
    BY <1>1
  <2> QED  BY <1>0, <2>1 DEF Publish!Max
<1>3. relay_checkpoint' \in 0 .. last_id /\ polled' \in 0 .. last_id
  BY <1>0, <1>1, <1>2
<1>4. Publish!NewOutboxIsSeen'
  BY <1>0, <1>2 DEF RowsInv, Publish!BatchRead, Publish!NewOutboxIsSeen
<1>5. Publish!BatchRead'
  BY <1>0, <1>1 DEF Publish!BatchRead
<1>6. Publish!Writing' = Publish!Writing
  BY <1>0 DEF Publish!Writing
<1>7. RowsInv'
  BY <1>0, <1>3, <1>4, <1>5, <1>6 DEF RowsInv, Publish!IdsUnique, Publish!CheckedWhilePermitted
<1>8. Publish!ChecksPassed'
  BY <1>0, ChecksKept
<1>9. Publish!WritesAhead'
  <2>1. ASSUME NEW p \in Publish!Writing
        PROVE  call[p].id > relay_checkpoint' /\ call[p].id > polled'
    <3>1. call[p].id > relay_checkpoint /\ call[p].id > polled /\ call[p].id \in Nat
      BY <1>0, <1>1, <2>1 DEF Publish!WritesAhead, RowsInv, Publish!Writing
    <3> QED  BY <1>0, <1>1, <1>2, <3>1
  <2> QED  BY <1>0, <1>6, <2>1 DEF Publish!WritesAhead, Publish!outbox_exists
<1>10. OutboxTypes' /\ Publish!NothingOutlivesItsOutbox'
  BY <1>0 DEF OutboxTypes, Publish!NothingOutlivesItsOutbox
<1> QED  BY <1>7, <1>8, <1>9, <1>10, PublishPartsNext

LEMMA PublishStep == Publish!PublishingInv /\ [Publish!Next]_(Publish!vars) => Publish!PublishingInv'
<1> SUFFICES ASSUME Publish!PublishingInv, [Publish!Next]_(Publish!vars)
             PROVE  Publish!PublishingInv'
  OBVIOUS
<1>0. OutboxTypes /\ Publish!NothingOutlivesItsOutbox /\ Publish!ChecksPassed
      /\ NoOutbox \notin {"enabled", "disabled"}
  BY PublishParts, NobodyAssumption
<1>1. CASE UNCHANGED Publish!vars
  <2>1. UNCHANGED <<outbox, publishers, members, groups, offsets, messages, last_id, call,
                    admin, polled, relay_checkpoint, delivered, saw_enabled, saw_permitted>>
    BY <1>1 DEF Publish!vars, Publish!outbox_vars, Publish!relay_vars
  <2> QED
    BY <2>1
    DEF Publish!PublishingInv, Publish!TypeOK, Publish!IdsUnique, Publish!Writing,
        Publish!ChecksPassed, Publish!CheckedWhilePermitted, Publish!WritesAhead,
        Publish!outbox_exists, Publish!BatchRead, Publish!NewOutboxIsSeen,
        Publish!NothingOutlivesItsOutbox
<1>2. SUFFICES ASSUME Publish!Next  PROVE Publish!PublishingInv'
  BY <1>1
<1>3. Publish!Watch
  BY <1>2 DEF Publish!Next
<1> USE DEF Publish!outbox_vars, Publish!relay_vars
<1>4. ASSUME NEW p \in Roles, Publish!read_enabled(p)  PROVE Publish!PublishingInv'
  BY <1>3, <1>4, StageKeeps DEF Publish!read_enabled, Publish!Stages
<1>5. ASSUME NEW p \in Roles, Publish!check_acl(p)  PROVE Publish!PublishingInv'
  <2>1. CASE Publish!acl_verdict(p)
    <3>1. Publish!Permitted(p)
      BY <2>1 DEF Publish!acl_verdict, Publish!Permitted
    <3> QED  BY <1>3, <1>5, <2>1, <3>1, StageKeeps DEF Publish!check_acl, Publish!Stages
  <2>2. CASE ~ Publish!acl_verdict(p)
    BY <1>3, <1>5, <2>2, StageKeeps DEF Publish!check_acl, Publish!Stages
  <2> QED  BY <2>1, <2>2
<1>6. ASSUME NEW p \in Roles, Publish!lock_outbox(p)  PROVE Publish!PublishingInv'
  BY <1>3, <1>6, StageKeeps DEF Publish!lock_outbox, Publish!Stages
<1>7. ASSUME NEW p \in Roles, Publish!rollback(p)  PROVE Publish!PublishingInv'
  BY <1>3, <1>7, StageKeeps DEF Publish!rollback, Publish!Stages
\* What an administrative session is to do.
<1>8. ASSUME NEW a \in Sessions, NEW job \in Publish!Jobs, Publish!Begin(a, job)
      PROVE  Publish!PublishingInv'
  <2>1. OutboxTypes' /\ Publish!NothingOutlivesItsOutbox'
    BY <1>0, <1>8 DEF OutboxTypes, Publish!NothingOutlivesItsOutbox, Publish!Begin
  <2> QED  BY <1>3, <1>8, <2>1, ConfigurationKeeps DEF Publish!Begin, Publish!outbox_exists
<1>9. ASSUME NEW a \in Sessions, Publish!outbox_create(a) \/ Publish!outbox_drop(a)
      PROVE  Publish!PublishingInv'
  BY <1>8, <1>9 DEF Publish!outbox_create, Publish!outbox_drop, Publish!Jobs
<1>10. ASSUME NEW a \in Sessions, Publish!outbox_grant_publish(a)  PROVE Publish!PublishingInv'
  BY <1>8, <1>10 DEF Publish!outbox_grant_publish, Publish!Jobs
<1>11. ASSUME NEW a \in Sessions, Publish!create_consumer_group(a)  PROVE Publish!PublishingInv'
  BY <1>8, <1>11 DEF Publish!create_consumer_group, Publish!Jobs
<1>12. ASSUME NEW a \in Sessions, Publish!create_insert(a)  PROVE Publish!PublishingInv'
  <2>1. OutboxTypes' /\ Publish!NothingOutlivesItsOutbox'
    BY <1>0, <1>12
    DEF OutboxTypes, Publish!NothingOutlivesItsOutbox, Publish!create_insert,
        Publish!Done, Publish!Jobs, Publish!outbox_exists
  <2> QED
    BY <1>0, <1>3, <1>12, <2>1, ConfigurationKeeps
    DEF Publish!create_insert, Publish!Done, Publish!outbox_exists
<1>13. ASSUME NEW a \in Sessions, Publish!grant_insert(a)  PROVE Publish!PublishingInv'
  <2>1. admin[a].role \in Roles
    BY <1>0, <1>13 DEF OutboxTypes, Publish!grant_insert, Publish!Jobs
  <2>2. OutboxTypes' /\ Publish!NothingOutlivesItsOutbox'
    BY <1>0, <1>13, <2>1
    DEF OutboxTypes, Publish!NothingOutlivesItsOutbox, Publish!grant_insert,
        Publish!Done, Publish!Jobs, Publish!outbox_exists
  <2> QED
    BY <1>0, <1>3, <1>13, <2>2, ConfigurationKeeps
    DEF Publish!grant_insert, Publish!Done, Publish!outbox_exists
<1>14. ASSUME NEW a \in Sessions, Publish!group_insert(a)  PROVE Publish!PublishingInv'
  <2>1. admin[a].group \in Groups
    BY <1>0, <1>14 DEF OutboxTypes, Publish!group_insert, Publish!Jobs
  <2>2. OutboxTypes' /\ Publish!NothingOutlivesItsOutbox'
    BY <1>0, <1>14, <2>1
    DEF OutboxTypes, Publish!NothingOutlivesItsOutbox, Publish!group_insert,
        Publish!Done, Publish!Jobs, Publish!outbox_exists
  <2> QED
    BY <1>0, <1>3, <1>14, <2>2, ConfigurationKeeps
    DEF Publish!group_insert, Publish!Done, Publish!outbox_exists
<1>15. ASSUME NEW g \in Groups, Publish!commit_offset(g) \/ Publish!drop_consumer_group(g)
       PROVE  Publish!PublishingInv'
  <2>1. OutboxTypes' /\ Publish!NothingOutlivesItsOutbox'
    BY <1>0, <1>15
    DEF OutboxTypes, Publish!NothingOutlivesItsOutbox, Publish!commit_offset,
        Publish!drop_consumer_group, Publish!OneStatement
  <2> QED
    BY <1>3, <1>15, <2>1, ConfigurationKeeps
    DEF Publish!commit_offset, Publish!drop_consumer_group, Publish!OneStatement,
        Publish!outbox_exists
<1>16. ASSUME NEW r \in Roles, Publish!outbox_revoke_publish(r) \/ Publish!membership(r)
       PROVE  Publish!PublishingInv'
  <2>1. OutboxTypes' /\ Publish!NothingOutlivesItsOutbox'
    BY <1>0, <1>16
    DEF OutboxTypes, Publish!NothingOutlivesItsOutbox, Publish!outbox_revoke_publish,
        Publish!membership, Publish!OneStatement
  <2> QED
    BY <1>3, <1>16, <2>1, ConfigurationKeeps
    DEF Publish!outbox_revoke_publish, Publish!membership, Publish!OneStatement,
        Publish!outbox_exists
<1>17. CASE Publish!outbox_disable \/ Publish!outbox_enable
  <2>1. OutboxTypes' /\ Publish!NothingOutlivesItsOutbox' /\ Publish!outbox_exists'
    BY <1>0, <1>17
    DEF OutboxTypes, Publish!NothingOutlivesItsOutbox, Publish!outbox_disable,
        Publish!outbox_enable, Publish!OneStatement, Publish!outbox_exists
  <2> QED
    BY <1>3, <1>17, <2>1, ConfigurationKeeps
    DEF Publish!outbox_disable, Publish!outbox_enable, Publish!OneStatement
<1> QED
  BY <1>2, <1>3, <1>4, <1>5, <1>6, <1>7, <1>9, <1>10, <1>11, <1>12, <1>13, <1>14, <1>15, <1>16,
     <1>17, InsertStep, CommitStep, DropStep, PollStep, AcknowledgeStep
  DEF Publish!Next

LEMMA PublishProperties ==
  Publish!PublishingInv =>
    Publish!CheckedWhilePermitted /\ Publish!NewOutboxIsSeen /\ Publish!NothingOutlivesItsOutbox
  BY DEF Publish!PublishingInv

-----------------------------------------------------------------------------
(* The sweep command: the outbox it is at, those behind it and those ahead. *)

LEMMA LoopInit == Command!Init => Command!LoopInv
<1> SUFFICES ASSUME Command!Init  PROVE Command!LoopInv
  OBVIOUS
<1> USE SweepAssumption, NobodyAssumption DEF Command!Init
<1>1. Command!TypeOK
  <2>1. \A o \in Sessions : eligible[o] \in Nat
    OBVIOUS
  <2>2. eligible \in [Sessions -> Nat]
    BY <2>1
  <2> QED  BY <2>1, <2>2 DEF Command!TypeOK
<1>2. Command!LoopInOrder
  BY DEF Command!LoopInOrder
<1>3. Command!DoneCompletely /\ Command!StillToTry /\ Command!EveryOutboxTried
  BY DEF Command!DoneCompletely, Command!StillToTry, Command!EveryOutboxTried
<1> QED  BY <1>1, <1>2, <1>3 DEF Command!LoopInv

\* A call takes a batch from an outbox, or all that no other sweep holds.
LEMMA Batches ==
  ASSUME Command!TypeOK, NEW o \in Sessions
  PROVE  /\ Command!Affected(o) \in Nat
         /\ Command!Affected(o) <= Command!Free(o) /\ Command!Affected(o) <= SweepBatch
         /\ ~options.dry_run /\ Command!HasMore(o) => Command!Affected(o) = SweepBatch
         /\ ~options.dry_run /\ ~Command!HasMore(o) =>
               Command!Affected(o) = Command!Free(o)
<1> DEFINE free == Command!Free(o)
           both == {SweepBatch, free}
<1>1. /\ eligible[o] \in Nat /\ locked[o] \in Nat /\ locked[o] <= eligible[o]
      /\ options.dry_run \in BOOLEAN
  BY DEF Command!TypeOK, Command!Options
<1>2. free \in Nat /\ SweepBatch \in Nat
  BY <1>1, NumbersAssumption DEF Command!Free
<1> HIDE DEF free
<1>3. Command!Min(both) \in both /\ \A x \in both : Command!Min(both) <= x
  <2>1. \E x \in both : \A y \in both : x <= y
    BY <1>2
  <2> HIDE DEF both
  <2> QED  BY <2>1 DEF Command!Min
<1>4. Command!Affected(o) = IF options.dry_run THEN 0 ELSE Command!Min(both)
  BY DEF Command!Affected, free
<1>5. Command!HasMore(o) <=> free > SweepBatch
  BY DEF Command!HasMore, free
<1> QED  BY <1>1, <1>2, <1>3, <1>4, <1>5 DEF free

\* What is removed is gone from the rows that could be, and counted.
LEMMA Removed ==
  ASSUME Command!TypeOK, NEW o \in Sessions, Command!Remove(o, Command!Affected(o)),
         locked' = locked
  PROVE  /\ eligible' \in [Sessions -> Nat] /\ deleted' \in [Sessions -> Nat]
         /\ \A q \in Sessions : locked'[q] <= eligible'[q]
         /\ deleted'[o] = deleted[o] + Command!Affected(o)
         /\ \A q \in Sessions \ {o} : deleted'[q] = deleted[q]
         /\ ~options.dry_run /\ ~Command!HasMore(o) => Command!Free(o)' = 0
<1> DEFINE n == Command!Affected(o)
<1>1. /\ eligible \in [Sessions -> Nat] /\ locked \in [Sessions -> Nat]
      /\ \A q \in Sessions : locked[q] <= eligible[q]
      /\ deleted \in [Sessions -> Nat]
  BY DEF Command!TypeOK
<1>2. /\ n \in Nat /\ n <= eligible[o] - locked[o]
      /\ ~options.dry_run /\ ~Command!HasMore(o) => n = eligible[o] - locked[o]
  BY Batches DEF Command!Free
<1>3. /\ eligible' = [eligible EXCEPT ![o] = eligible[o] - n]
      /\ deleted' = [deleted EXCEPT ![o] = deleted[o] + n]
  BY DEF Command!Remove
<1> HIDE DEF n
<1>4. eligible[o] - n \in Nat /\ locked[o] <= eligible[o] - n
  BY <1>1, <1>2
<1>5. /\ eligible' \in [Sessions -> Nat] /\ deleted' \in [Sessions -> Nat]
      /\ eligible'[o] = eligible[o] - n /\ deleted'[o] = deleted[o] + n
      /\ \A q \in Sessions \ {o} : eligible'[q] = eligible[q] /\ deleted'[q] = deleted[q]
  BY <1>1, <1>2, <1>3, <1>4
<1>6. \A q \in Sessions : locked'[q] <= eligible'[q]
  BY <1>1, <1>4, <1>5
<1>7. ~options.dry_run /\ ~Command!HasMore(o) => Command!Free(o)' = 0
  BY <1>1, <1>2, <1>5 DEF Command!Free
<1> QED  BY <1>5, <1>6, <1>7 DEF n

\* Nothing of the loop moves.
LEMMA WorldKeeps ==
  ASSUME Command!LoopInv, Command!TypeOK', existing' \subseteq existing,
         emptied \subseteq emptied',
         UNCHANGED <<options, Command!loopVars, deleted, called>>
  PROVE  Command!LoopInv'
<1>1. UNCHANGED <<sweep_phase, queue, current, batches, total_deleted, sweep_failures>>
  BY DEF Command!loopVars
<1>2. Command!LoopInOrder'
  BY <1>1 DEF Command!LoopInv, Command!LoopInOrder, Command!Limit
<1>3. Command!DoneCompletely'
  BY <1>1 DEF Command!LoopInv, Command!DoneCompletely
<1>4. Command!StillToTry' /\ Command!EveryOutboxTried'
  BY <1>1 DEF Command!LoopInv, Command!StillToTry, Command!EveryOutboxTried
<1> QED  BY <1>2, <1>3, <1>4 DEF Command!LoopInv

\* A failure is recorded, whatever the call had removed before.
LEMMA FailureKeeps ==
  ASSUME Command!LoopInv, Command!TypeOK', NEW o \in Sessions, Command!Calling(o),
         Command!RecordFailure(o), called' = called \cup {o},
         emptied \subseteq emptied', UNCHANGED <<options, existing>>,
         \A q \in Sessions \ {o} : deleted'[q] = deleted[q]
  PROVE  Command!LoopInv'
<1>0. /\ Command!TypeOK /\ Command!LoopInOrder /\ Command!DoneCompletely
      /\ Command!StillToTry /\ Command!EveryOutboxTried
      /\ sweep_phase = "sweeping" /\ current = o /\ current # NoOutbox
      /\ UNCHANGED <<options, existing, sweep_phase, queue, batches>>
      /\ current' = NoOutbox /\ sweep_failures' = sweep_failures \cup {o}
  BY NobodyAssumption DEF Command!LoopInv, Command!Calling, Command!RecordFailure
<1>1. called' \cap queue' = {} /\ current' \notin queue'
  BY <1>0, NobodyAssumption DEF Command!LoopInOrder, Command!TypeOK
<1>2. \A q \in Sessions \ called' : deleted'[q] = 0
  BY <1>0 DEF Command!LoopInOrder
<1>3. Command!LoopInOrder'
  BY <1>0, <1>1, <1>2 DEF Command!LoopInOrder
<1>4. Command!DoneCompletely'
  BY <1>0 DEF Command!DoneCompletely, Command!TypeOK
<1>5. Command!StillToTry' /\ Command!EveryOutboxTried'
  BY <1>0 DEF Command!StillToTry, Command!EveryOutboxTried
<1> QED  BY <1>3, <1>4, <1>5 DEF Command!LoopInv

LEMMA CallSweepStep ==
  ASSUME Command!LoopInv, Command!TypeOK', NEW o \in Sessions, Command!call_sweep(o),
         emptied' = emptied \cup {q \in Sessions : Command!Free(q)' = 0}
  PROVE  Command!LoopInv'
<1> DEFINE dry == options.dry_run
           stays == ~dry /\ Command!HasMore(o) /\ batches + 1 # Command!Limit
<1>0. /\ Command!TypeOK /\ Command!LoopInOrder /\ Command!DoneCompletely
      /\ Command!StillToTry /\ Command!EveryOutboxTried
      /\ sweep_phase = "sweeping" /\ current = o /\ current # NoOutbox
      /\ batches < Command!Limit
      /\ UNCHANGED <<options, existing, locked, sweep_phase, queue, sweep_failures>>
      /\ batches' = batches + 1 /\ called' = called \cup {o}
      /\ current' = IF stays THEN o ELSE NoOutbox
      /\ Command!Remove(o, Command!Affected(o))
  BY NobodyAssumption DEF Command!LoopInv, Command!Calling, Command!call_sweep
<1>1. /\ batches \in Nat /\ deleted \in [Sessions -> Nat]
      /\ options \in [dry_run : BOOLEAN, max_batches : 1 .. MaxBatches]
      /\ SweepBatch \in Nat /\ o \notin queue
  BY <1>0, NumbersAssumption DEF Command!TypeOK, Command!Options, Command!LoopInOrder
<1>2. /\ Command!Limit \in Nat
      /\ ~dry => Command!Limit = options.max_batches
  BY <1>1, SweepAssumption DEF Command!Limit
<1>3. /\ deleted'[o] = deleted[o] + Command!Affected(o)
      /\ \A q \in Sessions \ {o} : deleted'[q] = deleted[q]
      /\ ~dry /\ ~Command!HasMore(o) => o \in emptied'
      /\ ~dry /\ Command!HasMore(o) => Command!Affected(o) = SweepBatch
  <2>1. Command!TypeOK /\ locked' = locked /\ Command!Remove(o, Command!Affected(o))
    BY <1>0
  <2>2. ~dry /\ ~Command!HasMore(o) => Command!Free(o)' = 0
    BY <2>1, Removed
  <2>3. ~dry /\ Command!HasMore(o) => Command!Affected(o) = SweepBatch
    BY <2>1, Batches
  <2>4. o \in {q \in Sessions : Command!Free(q)' = 0} <=> Command!Free(o)' = 0
    OBVIOUS
  <2> QED  BY <2>1, <2>2, <2>3, <2>4, Removed
<1>4. ~dry => deleted[o] = batches * SweepBatch
  BY <1>0 DEF Command!LoopInOrder
<1>5. ~dry /\ Command!HasMore(o) => deleted'[o] = (batches + 1) * SweepBatch
  <2>1. (batches + 1) * SweepBatch = batches * SweepBatch + SweepBatch
    BY <1>1
  <2> QED  BY <1>3, <1>4, <2>1
<1>6. Command!LoopInOrder'
  <2>1. current' \notin queue' /\ called' \cap queue' = {}
    BY <1>0, <1>1, NobodyAssumption DEF Command!LoopInOrder, Command!TypeOK
  <2>2. \A q \in Sessions \ called' : deleted'[q] = 0
    BY <1>0, <1>3 DEF Command!LoopInOrder
  <2>3. ASSUME current' # NoOutbox
        PROVE  /\ stays /\ current' = o /\ o \in called'
               /\ batches' < Command!Limit'
               /\ deleted'[current'] = batches' * SweepBatch
    <3>1. stays /\ current' = o
      BY <1>0, <2>3
    <3>2. Command!Limit' = Command!Limit
      BY <1>0 DEF Command!Limit
    <3>3. batches' < Command!Limit'
      BY <1>0, <1>1, <1>2, <3>1, <3>2
    <3> QED  BY <1>0, <1>5, <3>1, <3>3
  <2> HIDE DEF stays
  <2> QED  BY <1>0, <2>1, <2>2, <2>3 DEF Command!LoopInOrder
<1>7. Command!DoneCompletely'
  <2> SUFFICES ASSUME ~dry, NEW q \in called' \ {current'}
               PROVE  \/ q \in sweep_failures' \/ q \in emptied'
                      \/ deleted'[q] = options.max_batches * SweepBatch
    BY <1>0 DEF Command!DoneCompletely
  <2>1. CASE q = o
    <3>1. ~stays
      BY <1>0, <2>1
    <3>2. CASE ~Command!HasMore(o)
      BY <1>3, <2>1, <3>2
    <3>3. CASE Command!HasMore(o)
      <4>1. batches + 1 = options.max_batches
        BY <1>2, <3>1, <3>3
      <4> QED  BY <1>5, <2>1, <3>3, <4>1
    <3> QED  BY <3>2, <3>3
  <2>2. CASE q # o
    <3>1. q \in called \ {current} /\ q \in Sessions
      BY <1>0, <2>2 DEF Command!TypeOK
    <3> HIDE DEF dry
    <3>2. \/ q \in sweep_failures \/ q \in emptied
          \/ deleted[q] = options.max_batches * SweepBatch
      BY <1>0, <3>1 DEF Command!DoneCompletely, dry
    <3> QED  BY <1>0, <1>3, <2>2, <3>1, <3>2
  <2> QED  BY <2>1, <2>2
<1>8. Command!StillToTry' /\ Command!EveryOutboxTried'
  BY <1>0 DEF Command!StillToTry, Command!EveryOutboxTried
<1> QED  BY <1>6, <1>7, <1>8 DEF Command!LoopInv

LEMMA LoopStep == Command!LoopInv /\ [Command!Next]_(Command!vars) => Command!LoopInv'
<1> SUFFICES ASSUME Command!LoopInv, [Command!Next]_(Command!vars)
             PROVE  Command!LoopInv'
  OBVIOUS
<1>0. /\ Command!TypeOK /\ Command!LoopInOrder /\ Command!DoneCompletely
      /\ Command!StillToTry /\ Command!EveryOutboxTried
  BY DEF Command!LoopInv
<1>1. CASE UNCHANGED Command!vars
  <2>1. UNCHANGED <<options, existing, eligible, locked, Command!loopVars, sweep_phase, queue,
                    current, batches, total_deleted, connected, deleted, emptied, called>>
    BY <1>1 DEF Command!vars, Command!worldVars, Command!loopVars
  <2>2. Command!TypeOK'
    BY <1>0, <2>1 DEF Command!TypeOK
  <2> QED  BY <2>1, <2>2, WorldKeeps
<1>2. SUFFICES ASSUME Command!Next  PROVE Command!LoopInv'
  BY <1>1
<1>3. /\ emptied' = emptied \cup {q \in Sessions : Command!Free(q)' = 0}
      /\ emptied \subseteq emptied' /\ emptied' \subseteq Sessions
  BY <1>0, <1>2 DEF Command!Next, Command!TypeOK
<1> USE DEF Command!worldVars
<1>4. ASSUME NEW o \in Sessions, Command!row_grows_old(o)  PROVE Command!LoopInv'
  <2>1. eligible[o] + 1 \in Nat /\ locked[o] <= eligible[o] + 1
    BY <1>0 DEF Command!TypeOK
  <2>2. Command!TypeOK'
    BY <1>0, <1>3, <1>4, <2>1 DEF Command!TypeOK, Command!row_grows_old, Command!loopVars
  <2> QED  BY <1>3, <1>4, <2>2, WorldKeeps DEF Command!row_grows_old
<1>5. ASSUME NEW o \in Sessions, Command!other_sweep_locks(o)  PROVE Command!LoopInv'
  <2>1. locked[o] + 1 \in Nat /\ locked[o] + 1 <= eligible[o]
    BY <1>0, <1>5 DEF Command!TypeOK, Command!other_sweep_locks, Command!Free
  <2>2. Command!TypeOK'
    BY <1>0, <1>3, <1>5, <2>1 DEF Command!TypeOK, Command!other_sweep_locks, Command!loopVars
  <2> QED  BY <1>3, <1>5, <2>2, WorldKeeps DEF Command!other_sweep_locks
<1>6. ASSUME NEW o \in Sessions, Command!other_sweep_ends(o)  PROVE Command!LoopInv'
  <2>1. /\ locked[o] - 1 \in Nat /\ eligible[o] - 1 \in Nat
        /\ locked[o] - 1 <= eligible[o] - 1 /\ locked[o] - 1 <= eligible[o]
    BY <1>0, <1>6 DEF Command!TypeOK, Command!other_sweep_ends
  <2>2. Command!TypeOK'
    BY <1>0, <1>3, <1>6, <2>1 DEF Command!TypeOK, Command!other_sweep_ends, Command!loopVars
  <2> QED  BY <1>3, <1>6, <2>2, WorldKeeps DEF Command!other_sweep_ends
<1>7. ASSUME NEW o \in Sessions, Command!outbox_dropped(o)  PROVE Command!LoopInv'
  <2>1. Command!TypeOK'
    BY <1>0, <1>3, <1>7 DEF Command!TypeOK, Command!outbox_dropped, Command!loopVars
  <2> QED  BY <1>3, <1>7, <2>1, WorldKeeps DEF Command!outbox_dropped
<1>8. CASE Command!connection_lost
  <2>1. Command!TypeOK'
    BY <1>0, <1>3, <1>8 DEF Command!TypeOK, Command!connection_lost, Command!loopVars
  <2> QED  BY <1>3, <1>8, <2>1, WorldKeeps DEF Command!connection_lost
<1>9. CASE Command!list_outboxes
  <2>1. /\ UNCHANGED <<options, existing, current, batches, deleted, called>>
        /\ sweep_phase = "listing"
        /\ \/ sweep_phase' = "sweeping" /\ queue' = existing /\ sweep_failures' = sweep_failures
           \/ sweep_phase' = "failed" /\ queue' = queue /\ sweep_failures' = {"list"}
    BY <1>9 DEF Command!list_outboxes
  <2>2. existing \subseteq Sessions /\ queue = {} /\ current = NoOutbox /\ called = {}
        /\ NoOutbox \notin Sessions
    BY <1>0, <2>1, NobodyAssumption DEF Command!TypeOK, Command!LoopInOrder
  <2>3. Command!TypeOK'
    BY <1>0, <1>3, <1>9, <2>2 DEF Command!TypeOK, Command!list_outboxes
  <2>4. Command!LoopInOrder'
    BY <1>0, <2>1, <2>2 DEF Command!LoopInOrder
  <2>5. Command!DoneCompletely'
    BY <2>1, <2>2 DEF Command!DoneCompletely
  <2>6. Command!StillToTry' /\ Command!EveryOutboxTried'
    BY <2>1, <2>2 DEF Command!StillToTry, Command!EveryOutboxTried
  <2> QED  BY <2>3, <2>4, <2>5, <2>6 DEF Command!LoopInv
<1>10. ASSUME NEW o \in Sessions, Command!next_outbox(o)  PROVE Command!LoopInv'
  <2>1. /\ UNCHANGED <<options, existing, eligible, locked, sweep_phase, sweep_failures,
                       total_deleted, connected, deleted, called>>
        /\ sweep_phase = "sweeping" /\ current = NoOutbox /\ o \in queue
        /\ current' = o /\ queue' = queue \ {o} /\ batches' = 0
    BY <1>10 DEF Command!next_outbox
  <2>2. Command!TypeOK'
    BY <1>0, <1>3, <2>1 DEF Command!TypeOK
  <2>3. o \notin called /\ deleted[o] = 0 /\ NoOutbox \notin called
    BY <1>0, <2>1, NobodyAssumption DEF Command!LoopInOrder, Command!TypeOK
  <2>4. 0 < Command!Limit' /\ 0 * SweepBatch = 0
    BY <1>0, <2>1, SweepAssumption, NumbersAssumption
    DEF Command!Limit, Command!TypeOK, Command!Options
  <2>5. Command!LoopInOrder'
    BY <1>0, <2>1, <2>3, <2>4 DEF Command!LoopInOrder
  <2>6. Command!DoneCompletely'
    BY <1>0, <1>3, <2>1, <2>3 DEF Command!DoneCompletely
  <2>7. Command!StillToTry' /\ Command!EveryOutboxTried'
    BY <1>0, <2>1, NobodyAssumption
    DEF Command!StillToTry, Command!EveryOutboxTried, Command!TypeOK
  <2> QED  BY <2>2, <2>5, <2>6, <2>7 DEF Command!LoopInv
<1>11. ASSUME NEW o \in Sessions, Command!call_sweep(o)  PROVE Command!LoopInv'
  <2>1. locked' = locked /\ Command!Remove(o, Command!Affected(o))
    BY <1>11 DEF Command!call_sweep
  <2>2. /\ eligible' \in [Sessions -> Nat] /\ deleted' \in [Sessions -> Nat]
        /\ \A q \in Sessions : locked'[q] <= eligible'[q]
    BY <1>0, <2>1, Removed
  <2>3. batches + 1 \in Nat /\ total_deleted + Command!Affected(o) \in Nat
    BY <1>0, Batches DEF Command!TypeOK
  <2>4. Command!TypeOK'
    BY <1>0, <1>3, <1>11, <2>2, <2>3 DEF Command!TypeOK, Command!call_sweep
  <2> QED  BY <1>3, <1>11, <2>4, CallSweepStep
<1>12. ASSUME NEW o \in Sessions, Command!sweep_fails(o)  PROVE Command!LoopInv'
  <2>1. Command!TypeOK'
    BY <1>0, <1>3, <1>12 DEF Command!TypeOK, Command!sweep_fails, Command!RecordFailure
  <2> QED  BY <1>3, <1>12, <2>1, FailureKeeps DEF Command!sweep_fails
<1>13. ASSUME NEW o \in Sessions, Command!commit_unanswered(o)  PROVE Command!LoopInv'
  <2>1. locked' = locked /\ Command!Remove(o, Command!Affected(o))
    BY <1>13 DEF Command!commit_unanswered
  <2>2. /\ eligible' \in [Sessions -> Nat] /\ deleted' \in [Sessions -> Nat]
        /\ \A q \in Sessions : locked'[q] <= eligible'[q]
        /\ \A q \in Sessions \ {o} : deleted'[q] = deleted[q]
    BY <1>0, <2>1, Removed
  <2>3. Command!TypeOK'
    BY <1>0, <1>3, <1>13, <2>2
    DEF Command!TypeOK, Command!commit_unanswered, Command!RecordFailure
  <2> QED  BY <1>3, <1>13, <2>2, <2>3, FailureKeeps DEF Command!commit_unanswered
<1>14. CASE Command!maintain_partitions
  <2>1. /\ UNCHANGED <<options, existing, eligible, locked, queue, current, batches,
                       total_deleted, connected, deleted, called>>
        /\ sweep_phase = "sweeping" /\ queue = {} /\ current = NoOutbox
        /\ sweep_failures \subseteq sweep_failures'
        /\ sweep_phase' = IF sweep_failures' = {} THEN "ok" ELSE "failed"
    BY <1>14 DEF Command!maintain_partitions
  <2>2. Command!TypeOK'
    BY <1>0, <1>3, <2>1 DEF Command!TypeOK
  <2>3. Command!LoopInOrder'
    BY <1>0, <2>1 DEF Command!LoopInOrder
  <2>4. Command!DoneCompletely'
    BY <1>0, <1>3, <2>1 DEF Command!DoneCompletely
  <2>5. existing \subseteq called
    BY <1>0, <2>1, NobodyAssumption DEF Command!StillToTry, Command!TypeOK
  <2>6. Command!StillToTry' /\ Command!EveryOutboxTried'
    BY <2>1, <2>5 DEF Command!StillToTry, Command!EveryOutboxTried
  <2> QED  BY <2>2, <2>3, <2>4, <2>6 DEF Command!LoopInv
<1> QED
  BY <1>2, <1>4, <1>5, <1>6, <1>7, <1>8, <1>9, <1>10, <1>11, <1>12, <1>13, <1>14
  DEF Command!Next, Command!Command

\* The number of rows that a call removed, and of those that were removed before
\* it: the new ones are none of them.
LEMMA OneBatchMore ==
  ASSUME Command!TypeOK, Command!IsFiniteSet(Command!DeletedRows), NEW o \in Sessions,
         Command!Remove(o, Command!Affected(o)), locked' = locked
  PROVE  /\ Command!IsFiniteSet(Command!DeletedRows')
         /\ Command!Cardinality(Command!DeletedRows')
              = Command!Cardinality(Command!DeletedRows) + Command!Affected(o)
<1> DEFINE n == Command!Affected(o)
           from == deleted[o] + 1
           to == deleted[o] + n
           new == {o} \X (from .. to)
           old == Command!DeletedRows
<1>1. /\ \A S : Command!Cardinality(S) = Cardinality(S)
      /\ \A S : Command!IsFiniteSet(S) = IsFiniteSet(S)
  BY DEF Command!Cardinality, Cardinality, Command!IsFiniteSet, IsFiniteSet
<1>2. n \in Nat /\ deleted[o] \in Nat
  BY Batches DEF Command!TypeOK
<1>3. /\ \A q \in Sessions : deleted[q] \in Nat
      /\ deleted'[o] = to /\ \A q \in Sessions \ {o} : deleted'[q] = deleted[q]
  BY Removed DEF Command!TypeOK
<1> HIDE DEF n
<1>4. \A d : d \in Command!DeletedRows <=> \E q \in Sessions : d \in {q} \X (1 .. deleted[q])
  BY DEF Command!DeletedRows
<1>5. \A d : d \in Command!DeletedRows' <=> \E q \in Sessions : d \in {q} \X (1 .. deleted'[q])
  BY DEF Command!DeletedRows
<1>6. Command!DeletedRows' = old \cup new
  <2>1. 1 .. deleted'[o] = (1 .. deleted[o]) \cup (from .. to)
    BY <1>2, <1>3
  <2>2. \A d : d \in {o} \X (1 .. deleted'[o]) <=> d \in {o} \X (1 .. deleted[o]) \/ d \in new
    BY <2>1
  <2>3. \A q \in Sessions \ {o} : {q} \X (1 .. deleted'[q]) = {q} \X (1 .. deleted[q])
    BY <1>3
  <2> HIDE DEF new, old
  <2>4. \A d : d \in Command!DeletedRows' <=> d \in Command!DeletedRows \/ d \in new
    BY <1>4, <1>5, <2>2, <2>3
  <2> QED  BY <2>4 DEF old
<1>7. old \cap new = {}
  <2>1. (1 .. deleted[o]) \cap (from .. to) = {}
    BY <1>2
  <2>2. ASSUME NEW d \in old, d \in new  PROVE FALSE
    <3>1. PICK q \in Sessions : d \in {q} \X (1 .. deleted[q])
      BY <1>4, <2>2
    <3>2. d[1] = q /\ d[2] \in 1 .. deleted[q]
      BY <3>1
    <3>3. d[1] = o /\ d[2] \in from .. to
      BY <2>2
    <3> QED  BY <2>1, <3>2, <3>3
  <2> QED  BY <2>2
<1>8. IsFiniteSet(new) /\ Cardinality(new) = n
  <2>1. IsFiniteSet({o}) /\ Cardinality({o}) = 1
    BY FS_Singleton
  <2>2. from \in Int /\ to \in Int
    BY <1>2
  <2>3. IsFiniteSet(from .. to) /\ Cardinality(from .. to) = IF from > to THEN 0 ELSE to - from + 1
    BY <2>2, FS_Interval
  <2>4. IsFiniteSet(new) /\ Cardinality(new) = Cardinality({o}) * Cardinality(from .. to)
    BY <2>1, <2>3, FS_Product
  <2>5. Cardinality(from .. to) = n
    BY <1>2, <2>3
  <2> QED  BY <1>2, <2>1, <2>4, <2>5
<1> HIDE DEF new, old
<1>9. IsFiniteSet(old) /\ Cardinality(old) \in Nat
  <2>1. Command!IsFiniteSet(old)
    BY DEF old
  <2>2. Command!IsFiniteSet(old) = IsFiniteSet(old)
    BY <1>1
  <2> QED  BY <2>1, <2>2, FS_CardinalityType
<1>10. /\ IsFiniteSet(old \cup new)
       /\ Cardinality(old \cup new) = Cardinality(old) + Cardinality(new) - Cardinality(old \cap new)
  BY <1>8, <1>9, FS_Union
<1>11. Cardinality(old \cup new) = Cardinality(old) + n
  BY <1>2, <1>7, <1>8, <1>9, <1>10, FS_EmptySet
<1>12. /\ Command!IsFiniteSet(old \cup new)
       /\ Command!Cardinality(old \cup new) = Command!Cardinality(old) + n
  <2>1. Command!IsFiniteSet(old \cup new) = IsFiniteSet(old \cup new)
    BY <1>1
  <2>2. /\ Command!Cardinality(old \cup new) = Cardinality(old \cup new)
        /\ Command!Cardinality(old) = Cardinality(old)
    BY <1>1
  <2> QED  BY <1>10, <1>11, <2>1, <2>2
<1> QED  BY <1>6, <1>12 DEF old, n

LEMMA CountedInit == Command!Init => Command!Counted
<1> SUFFICES ASSUME Command!Init  PROVE Command!Counted
  OBVIOUS
<1>1. Command!DeletedRows = {}
  BY DEF Command!Init, Command!DeletedRows
<1>2. Command!IsFiniteSet({}) /\ Command!Cardinality({}) = 0
  BY FS_EmptySet DEF Command!Cardinality, Cardinality, Command!IsFiniteSet, IsFiniteSet
<1> QED  BY <1>1, <1>2, NumbersAssumption DEF Command!Init, Command!Counted

\* A batch is counted, unless its answer is lost; the connection that was lost
\* with it lets no other batch follow.
LEMMA CountedStep ==
  Command!LoopInv /\ Command!Counted /\ [Command!Next]_(Command!vars) => Command!Counted'
<1> SUFFICES ASSUME Command!LoopInv, Command!Counted, [Command!Next]_(Command!vars)
             PROVE  Command!Counted'
  OBVIOUS
<1> DEFINE count == Command!Cardinality(Command!DeletedRows)
<1>0. /\ Command!TypeOK
      /\ Command!IsFiniteSet(Command!DeletedRows) /\ total_deleted \in Nat /\ SweepBatch \in Nat
      /\ count \in total_deleted .. total_deleted + SweepBatch
      /\ connected \/ sweep_failures = {} => total_deleted = count
  BY NumbersAssumption DEF Command!LoopInv, Command!TypeOK, Command!Counted
<1>1. deleted' = deleted =>
         Command!DeletedRows' = Command!DeletedRows /\ count' = count
  BY DEF Command!DeletedRows
<1>2. ASSUME NEW o \in Sessions, Command!call_sweep(o)  PROVE Command!Counted'
  <2>1. /\ Command!Remove(o, Command!Affected(o)) /\ locked' = locked /\ connected
        /\ total_deleted' = total_deleted + Command!Affected(o)
    BY <1>2 DEF Command!call_sweep
  <2>2. Command!IsFiniteSet(Command!DeletedRows') /\ count' = count + Command!Affected(o)
    BY <1>0, <2>1, OneBatchMore
  <2>3. Command!Affected(o) \in Nat
    BY <1>0, Batches
  <2> QED  BY <1>0, <2>1, <2>2, <2>3 DEF Command!Counted
<1>3. ASSUME NEW o \in Sessions, Command!commit_unanswered(o)  PROVE Command!Counted'
  <2>1. /\ Command!Remove(o, Command!Affected(o)) /\ locked' = locked
        /\ connected /\ ~connected' /\ total_deleted' = total_deleted
        /\ sweep_failures' # {}
    BY <1>3 DEF Command!commit_unanswered, Command!RecordFailure
  <2>2. Command!IsFiniteSet(Command!DeletedRows') /\ count' = count + Command!Affected(o)
    BY <1>0, <2>1, OneBatchMore
  <2>3. Command!Affected(o) \in Nat /\ Command!Affected(o) <= SweepBatch
    BY <1>0, Batches
  <2> QED  BY <1>0, <2>1, <2>2, <2>3 DEF Command!Counted
<1>4. ASSUME UNCHANGED <<deleted, total_deleted>>, connected' => connected,
             sweep_failures' = {} => sweep_failures = {}
      PROVE  Command!Counted'
  BY <1>0, <1>1, <1>4 DEF Command!Counted
<1>5. ASSUME NEW o \in Sessions,
             \/ Command!row_grows_old(o) \/ Command!outbox_dropped(o)
             \/ Command!other_sweep_locks(o) \/ Command!other_sweep_ends(o)
      PROVE  Command!Counted'
  BY <1>4, <1>5
  DEF Command!row_grows_old, Command!outbox_dropped, Command!other_sweep_locks,
      Command!other_sweep_ends, Command!loopVars
<1>6. CASE Command!connection_lost \/ Command!list_outboxes \/ Command!maintain_partitions
  BY <1>4, <1>6
  DEF Command!connection_lost, Command!list_outboxes, Command!maintain_partitions,
      Command!loopVars
<1>7. ASSUME NEW o \in Sessions, Command!next_outbox(o) \/ Command!sweep_fails(o)
      PROVE  Command!Counted'
  BY <1>4, <1>7 DEF Command!next_outbox, Command!sweep_fails, Command!RecordFailure
<1>8. CASE UNCHANGED Command!vars
  BY <1>4, <1>8 DEF Command!vars, Command!loopVars
<1> QED
  BY <1>2, <1>3, <1>5, <1>6, <1>7, <1>8 DEF Command!Next, Command!Command

LEMMA SweepInit == Command!Init => Command!SweepInv
<1> QED  BY LoopInit, CountedInit DEF Command!SweepInv

LEMMA SweepStep == Command!SweepInv /\ [Command!Next]_(Command!vars) => Command!SweepInv'
<1> QED  BY LoopStep, CountedStep DEF Command!SweepInv

\* After a success nothing has failed and no outbox is left in the loop.
LEMMA SweepProperties ==
  Command!SweepInv =>
    Command!SuccessIsComplete /\ Command!EveryOutboxTried /\ Command!ReportsWhatWasDeleted
<1> SUFFICES ASSUME Command!LoopInv, Command!Counted
             PROVE  /\ Command!SuccessIsComplete /\ Command!EveryOutboxTried
                    /\ Command!ReportsWhatWasDeleted
  BY DEF Command!SweepInv
<1>1. sweep_phase = "ok" => sweep_failures = {}
  BY DEF Command!LoopInv, Command!StillToTry
<1>2. ASSUME sweep_phase = "ok", ~options.dry_run, NEW o \in called
      PROVE  deleted[o] = options.max_batches * SweepBatch \/ o \in emptied
  <2>1. sweep_failures = {} /\ o \in called \ {current}
    BY <1>1, <1>2, NobodyAssumption DEF Command!LoopInv, Command!LoopInOrder, Command!TypeOK
  <2> QED  BY <1>2, <2>1 DEF Command!LoopInv, Command!DoneCompletely
<1>3. Command!ReportsWhatWasDeleted
  BY <1>1 DEF Command!Counted, Command!ReportsWhatWasDeleted
<1> QED  BY <1>2, <1>3 DEF Command!LoopInv, Command!SuccessIsComplete

-----------------------------------------------------------------------------
(* The replay and the partitions have proofs of their own; what is proved   *)
(* there of their modules is carried over to the instances.                 *)

RP == INSTANCE ReplayProofs WITH
    MaxId <- MaxReplayId, rows <- replay_rows, top <- replay_top

SP == INSTANCE PartitionsProofs WITH
    Outboxes <- Sessions, MaxId <- MaxStoredId,
    rows <- stored, last_id <- identity, offset <- relay_offset

LEMMA SameReplayInit == RP!Init <=> Replay!Init
  BY DEF RP!Init, Replay!Init, RP!PipelineRows, Replay!PipelineRows, RP!Ranges, Replay!Ranges

LEMMA SamePolled == RP!Polled = Replay!Polled
<1>1. \A S : RP!Cardinality(S) = Replay!Cardinality(S)
  BY DEF RP!Cardinality, Replay!Cardinality
<1> QED  BY <1>1 DEF RP!Polled, Replay!Polled

LEMMA SameReplayNext == RP!Next <=> Replay!Next
<1>1. \A S : RP!Cardinality(S) = Replay!Cardinality(S)
  BY DEF RP!Cardinality, Replay!Cardinality
<1>2. \A id : RP!InRange(id) <=> Replay!InRange(id)
  BY DEF RP!InRange, Replay!InRange
<1>3. \A S : RP!Last(S) = Replay!Last(S)
  BY DEF RP!Last, Replay!Last
<1>4. \A S : RP!filter_replay_batch(S) = Replay!filter_replay_batch(S)
  BY <1>2 DEF RP!filter_replay_batch, Replay!filter_replay_batch
<1> USE DEF RP!replayVars, Replay!replayVars, RP!outboxVars, Replay!outboxVars
<1>5. RP!publish_row <=> Replay!publish_row
  BY DEF RP!publish_row, Replay!publish_row
<1>6. RP!live_worker_commits <=> Replay!live_worker_commits
  BY DEF RP!live_worker_commits, Replay!live_worker_commits
<1>7. RP!admin_rewind_relay_offset <=> Replay!admin_rewind_relay_offset
  BY DEF RP!admin_rewind_relay_offset, Replay!admin_rewind_relay_offset
<1>8. \A id : RP!sweep(id) <=> Replay!sweep(id)
  BY DEF RP!sweep, Replay!sweep
<1>9. RP!run_replay_once <=> Replay!run_replay_once
  BY <1>2 DEF RP!run_replay_once, Replay!run_replay_once
<1>10. RP!configure_replay <=> Replay!configure_replay
  BY DEF RP!configure_replay, Replay!configure_replay, RP!BeforeFirst, Replay!BeforeFirst
<1>11. RP!poll_and_decode <=> Replay!poll_and_decode
  BY <1>3, <1>4, SamePolled DEF RP!poll_and_decode, Replay!poll_and_decode
<1>12. RP!batch_disposed <=> Replay!batch_disposed
  BY DEF RP!batch_disposed, Replay!batch_disposed, RP!acknowledge, Replay!acknowledge
<1>13. RP!back_off <=> Replay!back_off
  BY DEF RP!back_off, Replay!back_off
<1>14. RP!replay_aborts <=> Replay!replay_aborts
  BY DEF RP!replay_aborts, Replay!replay_aborts
<1>15. RP!compare_checkpoints <=> Replay!compare_checkpoints
  BY DEF RP!compare_checkpoints, Replay!compare_checkpoints
<1> QED
  BY <1>5, <1>6, <1>7, <1>8, <1>9, <1>10, <1>11, <1>12, <1>13, <1>14, <1>15
  DEF RP!Next, Replay!Next, RP!ReplayStep, Replay!ReplayStep

LEMMA SameStoreInit == SP!Init <=> Store!Init
  BY DEF SP!Init, Store!Init, SP!Idle, Store!Idle

\* Ranges, the extremes of the ids, and what is in a range.
LEMMA SameRanges ==
  /\ \A id : SP!Lower(id) = Store!Lower(id)
  /\ \A min, max, ahead : SP!Ranges(min, max, ahead) = Store!Ranges(min, max, ahead)
  /\ \A lower : SP!RowsIn(lower) = Store!RowsIn(lower)
  /\ SP!InDefault = Store!InDefault
  /\ SP!MinId = Store!MinId /\ SP!HighestId = Store!HighestId
<1>1. \A id : SP!Lower(id) = Store!Lower(id)
  BY DEF SP!Lower, Store!Lower
<1>2. \A min, max, ahead : SP!Ranges(min, max, ahead) = Store!Ranges(min, max, ahead)
  BY <1>1 DEF SP!Ranges, Store!Ranges
<1>3. /\ \A lower : SP!RowsIn(lower) = Store!RowsIn(lower)
      /\ SP!InDefault = Store!InDefault
  BY <1>1 DEF SP!RowsIn, Store!RowsIn, SP!InDefault, Store!InDefault
<1>4. \A S : SP!Min(S) = Store!Min(S) /\ SP!Max(S) = Store!Max(S)
  BY DEF SP!Min, Store!Min, SP!Max, Store!Max
<1>5. SP!MinId = Store!MinId /\ SP!HighestId = Store!HighestId
  BY <1>4 DEF SP!MinId, Store!MinId, SP!HighestId, Store!HighestId
<1> QED  BY <1>1, <1>2, <1>3, <1>5

LEMMA SameStoreNext == SP!Next <=> Store!Next
<1> USE DEF SP!tableVars, Store!tableVars
<1>1. SP!Idle = Store!Idle /\ (SP!NobodyWrites <=> Store!NobodyWrites)
      /\ (SP!DefaultLocked <=> Store!DefaultLocked)
      /\ SP!Missing = Store!Missing
      /\ \A c : SP!Droppable(c) <=> Store!Droppable(c)
  BY SameRanges
  DEF SP!Idle, Store!Idle, SP!NobodyWrites, Store!NobodyWrites, SP!DefaultLocked,
      Store!DefaultLocked, SP!Missing, Store!Missing, SP!Droppable, Store!Droppable
<1>2. \A o : SP!outbox_publish(o) <=> Store!outbox_publish(o)
  BY <1>1, SameRanges DEF SP!outbox_publish, Store!outbox_publish
<1>3. \A o : SP!end_transaction(o) <=> Store!end_transaction(o)
  BY DEF SP!end_transaction, Store!end_transaction
<1>4. \A o : SP!relay_batch(o) <=> Store!relay_batch(o)
  BY <1>1 DEF SP!relay_batch, Store!relay_batch
<1>5. \A o : SP!outbox_sweep(o) <=> Store!outbox_sweep(o)
  BY <1>1 DEF SP!outbox_sweep, Store!outbox_sweep
<1>6. SP!admin_convert_outbox_storage <=> Store!admin_convert_outbox_storage
  BY <1>1, SameRanges
  DEF SP!admin_convert_outbox_storage, Store!admin_convert_outbox_storage,
      SP!NewIdentity, Store!NewIdentity
<1>7. SP!begin_maintenance <=> Store!begin_maintenance
  BY <1>1, SameRanges DEF SP!begin_maintenance, Store!begin_maintenance
<1>8. SP!create_ranges <=> Store!create_ranges
  BY <1>1, SameRanges DEF SP!create_ranges, Store!create_ranges
<1>9. \A c : SP!count_rows(c) <=> Store!count_rows(c)
  BY <1>1 DEF SP!count_rows, Store!count_rows
<1>10. SP!drop_child <=> Store!drop_child
  BY <1>1, SameRanges DEF SP!drop_child, Store!drop_child
<1>11. SP!end_maintenance <=> Store!end_maintenance
  BY <1>1 DEF SP!end_maintenance, Store!end_maintenance
<1> QED
  BY <1>2, <1>3, <1>4, <1>5, <1>6, <1>7, <1>8, <1>9, <1>10, <1>11 DEF SP!Next, Store!Next

LEMMA SameStoreInv == SP!PartitionsInv /\ SP!IdsUnique => Store!PartitionsInv /\ Store!IdsUnique
<1> SUFFICES ASSUME SP!PartitionsInv, SP!IdsUnique
             PROVE  Store!PartitionsInv /\ Store!IdsUnique
  OBVIOUS
<1>1. Store!TypeOK
  BY DEF SP!PartitionsInv, SP!TypeOK, Store!TypeOK, SP!Stages, Store!Stages
<1>2. Store!IdsDrawn /\ Store!IdentityAhead
  BY DEF SP!PartitionsInv, SP!IdsDrawn, Store!IdsDrawn, SP!IdentityAhead, Store!IdentityAhead
<1>3. Store!DefaultIsClear
  BY SameRanges
  DEF SP!PartitionsInv, SP!DefaultIsClear, Store!DefaultIsClear, SP!Idle, Store!Idle
<1>4. Store!IdsUnique
  BY DEF SP!IdsUnique, Store!IdsUnique
<1> QED  BY <1>1, <1>2, <1>3, <1>4 DEF Store!PartitionsInv

-----------------------------------------------------------------------------
(* What ComponentsNext does to a component is a step of that component or   *)
(* none.                                                                    *)

LEMMA PlaysDest == [ComponentsNext]_ComponentsVars => [Dest!Next]_(Dest!vars)
  BY DEF ComponentsNext, ComponentsVars, dest_vars, Dest!vars

LEMMA PlaysInbox == [ComponentsNext]_ComponentsVars => [Inbox!Next]_(Inbox!vars)
  BY DEF ComponentsNext, ComponentsVars, inbox_vars, Inbox!vars

LEMMA PlaysReplay == [ComponentsNext]_ComponentsVars => [Replay!Next]_(Replay!vars)
  BY DEF ComponentsNext, ComponentsVars, replay_vars, Replay!vars

LEMMA PlaysRow == [ComponentsNext]_ComponentsVars => [Row!Next]_(Row!vars)
  BY DEF ComponentsNext, ComponentsVars, row_vars, Row!vars

LEMMA PlaysPublish == [ComponentsNext]_ComponentsVars => [Publish!Next]_(Publish!vars)
  BY DEF ComponentsNext, ComponentsVars, publish_vars, Publish!vars,
         Publish!outbox_vars, Publish!relay_vars

LEMMA PlaysCommand == [ComponentsNext]_ComponentsVars => [Command!Next]_(Command!vars)
  BY DEF ComponentsNext, ComponentsVars, sweep_vars, Command!vars,
         Command!worldVars, Command!loopVars

LEMMA PlaysStore == [ComponentsNext]_ComponentsVars => [Store!Next]_(Store!vars)
  BY DEF ComponentsNext, ComponentsVars, store_vars, Store!vars, Store!tableVars

\* Each component's invariant, whichever component the behaviour is about.
AllInv ==
    /\ Dest!DestinationsInv
    /\ Inbox!InboxInv
    /\ Row!AdmissionInv
    /\ Publish!PublishingInv
    /\ Command!SweepInv

LEMMA FiveComponents == ComponentsSpec => []AllInv
<1>1. ComponentsInit => AllInv
  BY DestInit, InboxInit, RowInit, PublishInit, SweepInit DEF ComponentsInit, AllInv
<1>2. AllInv /\ [ComponentsNext]_ComponentsVars => AllInv'
  <2> SUFFICES ASSUME AllInv, [ComponentsNext]_ComponentsVars  PROVE AllInv'
    OBVIOUS
  <2>1. Dest!DestinationsInv'
    BY PlaysDest, DestStep DEF AllInv
  <2>2. Inbox!InboxInv'
    BY PlaysInbox, InboxStep DEF AllInv
  <2>3. Row!AdmissionInv'
    BY PlaysRow, RowStep DEF AllInv
  <2>4. Publish!PublishingInv'
    BY PlaysPublish, PublishStep DEF AllInv
  <2>5. Command!SweepInv'
    BY PlaysCommand, SweepStep DEF AllInv
  <2> QED  BY <2>1, <2>2, <2>3, <2>4, <2>5 DEF AllInv
<1> QED  BY <1>1, <1>2, PTL DEF ComponentsSpec

LEMMA ReplayHolds ==
  ComponentsSpec => [](Replay!ReplayInv /\ Replay!ReplayIsComplete /\ Replay!ReplayStaysInRange)
<1>1. ComponentsInit => RP!Init
  BY SameReplayInit DEF ComponentsInit
<1>2. [ComponentsNext]_ComponentsVars => [RP!Next]_(RP!vars)
  BY PlaysReplay, SameReplayNext DEF RP!vars, Replay!vars
<1>3. RP!Spec => []RP!ReplayInv
  BY RP!Inductive, ReplayConstants DEF RP!ReplayAssumption, Replay!ReplayAssumption
<1>4. RP!ReplayInv => Replay!ReplayInv
  BY DEF RP!ReplayInv, Replay!ReplayInv, RP!TypeOK, Replay!TypeOK, RP!Ids, Replay!Ids,
     RP!PipelineRows, Replay!PipelineRows, RP!Ranges, Replay!Ranges, RP!Phases, Replay!Phases,
     RP!InRange, Replay!InRange, RP!Working, Replay!Working, RP!Progress, Replay!Progress
<1>5. RP!Spec => []RP!ReplayIsComplete
  BY RP!ReplayIsCompleteHolds, ReplayConstants DEF RP!ReplayAssumption, Replay!ReplayAssumption
<1>6. RP!Spec => []RP!ReplayStaysInRange
  BY RP!ReplayStaysInRangeHolds, ReplayConstants DEF RP!ReplayAssumption, Replay!ReplayAssumption
<1>7. RP!ReplayIsComplete => Replay!ReplayIsComplete
  BY DEF RP!ReplayIsComplete, Replay!ReplayIsComplete
<1>8. RP!ReplayStaysInRange => Replay!ReplayStaysInRange
  BY DEF RP!ReplayStaysInRange, Replay!ReplayStaysInRange, RP!InRange, Replay!InRange
<1> QED  BY <1>1, <1>2, <1>3, <1>4, <1>5, <1>6, <1>7, <1>8, PTL DEF ComponentsSpec, RP!Spec

LEMMA StorePlays == ComponentsSpec => SP!Spec
<1>1. ComponentsInit => SP!Init
  BY SameStoreInit DEF ComponentsInit
<1>2. [ComponentsNext]_ComponentsVars => [SP!Next]_(SP!vars)
  BY PlaysStore, SameStoreNext DEF SP!vars, Store!vars, SP!tableVars, Store!tableVars
<1> QED  BY <1>1, <1>2, PTL DEF ComponentsSpec, SP!Spec

LEMMA StoreHolds == ComponentsSpec => [](Store!PartitionsInv /\ Store!IdsUnique)
<1>1. SP!Spec => [](SP!PartitionsInv /\ SP!IdsUnique)
  BY SP!Inductive, StoreConstants DEF SP!PartitionsAssumption, Store!PartitionsAssumption
<1> QED  BY <1>1, StorePlays, SameStoreInv, PTL

-----------------------------------------------------------------------------
(* The theorems.                                                            *)

\* Every component keeps its invariant: the handlers and statements of the code
\* leave its tables, locks and cursors as the next ones expect to find them.
THEOREM Inductive == ComponentsSpec => []ComponentsInv
<1>1. /\ AllInv
      /\ Replay!ReplayInv /\ Replay!ReplayIsComplete /\ Replay!ReplayStaysInRange
      /\ Store!PartitionsInv /\ Store!IdsUnique
      => ComponentsInv
  BY DEF AllInv, ComponentsInv
<1> QED  BY <1>1, FiveComponents, ReplayHolds, StoreHolds, PTL

LEMMA Destined ==
  ComponentsSpec =>
    [](Dest!FirstDeliveriesInOrder /\ Dest!OnceWhileRemembered /\ Dest!NothingPassedOver)
<1> QED  BY FiveComponents, DestProperties, PTL DEF AllInv

\* Workers that retry, restart and overlap deliver rows to a sink for the first
\* time in the order of their ids.
THEOREM FirstDeliveriesInOrderHolds == ComponentsSpec => []FirstDeliveriesInOrder
<1>1. Dest!FirstDeliveriesInOrder => FirstDeliveriesInOrder
  BY DEF FirstDeliveriesInOrder
<1> QED  BY <1>1, Destined, PTL

\* The Nats-Msg-Id of a message and the dedup key of an inbox row let a repeated
\* request take effect once, for as long as the destination remembers the key.
THEOREM OnceWhileRememberedHolds == ComponentsSpec => []OnceWhileRemembered
<1>1. Dest!OnceWhileRemembered => OnceWhileRemembered
  BY DEF OnceWhileRemembered
<1> QED  BY <1>1, Destined, PTL

\* commit_offset() passes no row that neither took effect nor is a dead letter.
THEOREM NothingPassedOverHolds == ComponentsSpec => []NothingPassedOver
<1>1. Dest!NothingPassedOver => NothingPassedOver
  BY DEF NothingPassedOver
<1> QED  BY <1>1, Destined, PTL

\* Consumers that read with FOR UPDATE SKIP LOCKED give an event one outcome for
\* as long as the inbox remembers it.
THEOREM OneOutcomeHolds == ComponentsSpec => []OneOutcome
<1>1. AllInv => OneOutcome
  BY InboxProperties DEF AllInv, OneOutcome
<1> QED  BY <1>1, FiveComponents, PTL

\* In an inbox that stays registered nothing but inbox_mark_processed() takes an
\* event out of the pending ones.
THEOREM KeptUntilProcessedHolds == ComponentsSpec => KeptUntilProcessed
<1>1. AllInv /\ [ComponentsNext]_ComponentsVars =>
        [registered' =>
            \A e \in Events : table[e] = "pending" /\ table'[e] # "pending" =>
                outcomes'[e] = outcomes[e] + 1]_(Inbox!vars)
  BY PlaysInbox, KeptStep DEF AllInv, Inbox!InboxInv
<1> QED
  BY <1>1, FiveComponents, PTL DEF ComponentsSpec, KeptUntilProcessed, Inbox!KeptUntilProcessed

\* run_replay_once() reports success only after the sink has the whole range.
THEOREM ReplayIsCompleteHolds == ComponentsSpec => []ReplayIsComplete
<1>1. Replay!ReplayIsComplete => ReplayIsComplete
  BY DEF ReplayIsComplete
<1> QED  BY <1>1, ReplayHolds, PTL

\* filter_replay_batch() lets nothing out of the range reach the sink.
THEOREM ReplayStaysInRangeHolds == ComponentsSpec => []ReplayStaysInRange
<1>1. Replay!ReplayStaysInRange => ReplayStaysInRange
  BY DEF ReplayStaysInRange
<1> QED  BY <1>1, ReplayHolds, PTL

LEMMA Admitted ==
  ComponentsSpec =>
    [](Row!ValidatedRowsStart /\ Row!SchemaCoversParser /\ Row!MigrationListsRemoved)
<1> QED  BY FiveComponents, RowProperties, PTL DEF AllInv

\* What preflight and validate-config call valid, the source and sink factories
\* do not refuse for a rule of their own, but for rows under the old names,
\* webhook URLs with user info, a fragment or a private host, the outbox of a
\* consumer group whose name is no identifier, and inboxes whose name is none,
\* whose sslmode is weak or unknown, or that ask for TLS of a relay without it.
THEOREM ValidatedRowsStartHolds == ComponentsSpec => []ValidatedRowsStart
<1>1. Row!ValidatedRowsStart => ValidatedRowsStart
  BY DEF ValidatedRowsStart
<1> QED  BY <1>1, Admitted, PTL

\* The published JSON schema accepts what the relay's parser accepts, but for
\* the old names, nulls and a security_protocol that is no string.
THEOREM SchemaCoversParserHolds == ComponentsSpec => []SchemaCoversParser
<1>1. Row!SchemaCoversParser => SchemaCoversParser
  BY DEF SchemaCoversParser
<1> QED  BY <1>1, Admitted, PTL

\* migrate-config lists as removed what the parser refuses as removed.
THEOREM MigrationListsRemovedHolds == ComponentsSpec => []MigrationListsRemoved
<1>1. Row!MigrationListsRemoved => MigrationListsRemoved
  BY DEF MigrationListsRemoved
<1> QED  BY <1>1, Admitted, PTL

LEMMA Published ==
  ComponentsSpec =>
    [](/\ Publish!CheckedWhilePermitted /\ Publish!NewOutboxIsSeen
       /\ Publish!NothingOutlivesItsOutbox)
<1> QED  BY FiveComponents, PublishProperties, PTL DEF AllInv

\* A row is there only after a call of outbox_publish() that saw its outbox
\* enabled and its role permitted, whatever was changed between its statements.
THEOREM CheckedWhilePermittedHolds == ComponentsSpec => []CheckedWhilePermitted
<1>1. Publish!CheckedWhilePermitted => CheckedWhilePermitted
  BY DEF CheckedWhilePermitted
<1> QED  BY <1>1, Published, PTL

\* The checkpoint that outbox_drop() leaves behind hides no row of the outbox that
\* is created under the name afterwards.
THEOREM NewOutboxIsSeenHolds == ComponentsSpec => []NewOutboxIsSeen
<1>1. Publish!NewOutboxIsSeen => NewOutboxIsSeen
  BY DEF NewOutboxIsSeen
<1> QED  BY <1>1, Published, PTL

\* outbox_drop() cascades to messages, publishers, groups and offsets, and calls
\* that checked before it leave none behind.
THEOREM NothingOutlivesItsOutboxHolds == ComponentsSpec => []NothingOutlivesItsOutbox
<1>1. Publish!NothingOutlivesItsOutbox => NothingOutlivesItsOutbox
  BY DEF NothingOutlivesItsOutbox
<1> QED  BY <1>1, Published, PTL

LEMMA Swept ==
  ComponentsSpec =>
    [](/\ Command!SuccessIsComplete /\ Command!EveryOutboxTried
       /\ Command!ReportsWhatWasDeleted)
<1> QED  BY FiveComponents, SweepProperties, PTL DEF AllInv

\* The sweep command exits with success only where it swept all it was asked to.
THEOREM SuccessIsCompleteHolds == ComponentsSpec => []SuccessIsComplete
<1>1. Command!SuccessIsComplete => SuccessIsComplete
  BY DEF SuccessIsComplete
<1> QED  BY <1>1, Swept, PTL

\* The sweep command goes on with the next outbox after one has failed.
THEOREM EveryOutboxTriedHolds == ComponentsSpec => []EveryOutboxTried
<1>1. Command!EveryOutboxTried => EveryOutboxTried
  BY DEF EveryOutboxTried
<1> QED  BY <1>1, Swept, PTL

\* The number of deleted rows that the sweep command prints is right, but for the
\* batch whose commit went unanswered.
THEOREM ReportsWhatWasDeletedHolds == ComponentsSpec => []ReportsWhatWasDeleted
<1>1. Command!ReportsWhatWasDeleted => ReportsWhatWasDeleted
  BY DEF ReportsWhatWasDeleted
<1> QED  BY <1>1, Swept, PTL

\* Conversion, fresh identity and swept ranges never give two rows one id.
THEOREM IdsUniqueHolds == ComponentsSpec => []IdsUnique
<1>1. Store!IdsUnique => IdsUnique
  BY DEF IdsUnique
<1> QED  BY <1>1, StoreHolds, PTL

\* A row that becomes visible is ahead of its relay, unless the conversion came
\* after the newest row was swept.
THEOREM NewRowsAheadHolds == ComponentsSpec => NewRowsAheadUnlessRewound
<1>1. SP!Spec => SP!NewRowsAheadUnlessRewound
  BY SP!NewRowsAheadHolds, StoreConstants DEF SP!PartitionsAssumption, Store!PartitionsAssumption
<1>2. [\A r \in stored' \ stored : r.id > relay_offset[r.outbox] \/ rewound]_(SP!vars) =>
      [\A r \in stored' \ stored : r.id > relay_offset[r.outbox] \/ rewound]_(Store!vars)
  BY DEF SP!vars, Store!vars, SP!tableVars, Store!tableVars
<1> QED
  BY <1>1, <1>2, StorePlays, PTL
  DEF NewRowsAheadUnlessRewound, SP!NewRowsAheadUnlessRewound, Store!NewRowsAheadUnlessRewound

=============================================================================
