---------------------------- MODULE RelaysProofs ----------------------------
(***************************************************************************)
(* Relays implements LossyQueue, for any number of rows and of faults.     *)
(***************************************************************************)
EXTENDS Relays, TLAPS

Lost == struck \cup (Sent \ sure)

\* What a stage has handed on: to the next topic, or to the last store.
Out(s) == IF s < Last THEN log[s + 1] ELSE shown

\* A stage is done with message k: it handed it on, or it is written off.
Gone(s, k) == k \in Lost \/ k \in Range(Out(s))

\* Nothing that a stage has handed on is later than k.
NoneAfter(s, k) == \A j \in DOMAIN Out(s) : Out(s)[j] <= k

\* Topics are ascending, what a stage hands on comes from its topic, and no topic
\* passes over a message that is not written off.
TopicInv(s) ==
  /\ s = 1 => \A i \in DOMAIN log[s] : log[s][i] = i
  /\ \A i, j \in DOMAIN log[s] : i <= j => log[s][i] <= log[s][j]
  /\ Range(Out(s)) \subseteq Range(log[s])
  /\ \A i \in DOMAIN log[s] : \A k \in 1..(log[s][i] - 1) : k \in Lost \cup Range(log[s])

\* A stage is done with message i of its topic, or has it in hand; and nothing it
\* has handed on is later than that message.
Done(s, i) == Gone(s, log[s][i]) \/ hand[s] = {log[s][i]}
Ahead(s, i) == NoneAfter(s, log[s][i])

\* A stage has the message its group committed last, or none; a group that has
\* nothing committed owes nothing; what is behind the reader or the offset is done
\* with; and what is ahead of either is not before what was handed on.
StageInv(s) ==
  /\ hand[s] # {} => committed[s] > 0 /\ hand[s] = {log[s][committed[s]]}
  /\ committed[s] = 0 => s \notin warm /\ \A k \in Sent : Gone(s, k)
  /\ \A i \in 1..committed[s] : Done(s, i)
  /\ committed[s] > 0 => \A i \in committed[s]..Len(log[s]) : Ahead(s, i)
  /\ joined[s] => /\ \A i \in 1..pos[s] : Done(s, i)
                  /\ \A i \in (pos[s] + 1)..Len(log[s]) : Ahead(s, i)

RelayInv == \A s \in Stages : TopicInv(s) /\ StageInv(s)

-----------------------------------------------------------------------------
(* Types *)

\* TypeOK in parts, which the provers take one at a time.
CountsOK ==
  /\ program \in {"etl", "etl_after", "indexer"}
  /\ rows \in 0..MaxRows /\ faults \in 0..MaxFaults

StoppedOK == stopped \in BOOLEAN

LogsOK == log \in [Stages -> Seq(Sent)]

ShownOK == shown \in Seq(Sent) /\ sure \subseteq Sent /\ struck \subseteq Sent

ReadersOK ==
  /\ pos \in [Stages -> Nat] /\ committed \in [Stages -> Nat]
  /\ \A s \in Stages : committed[s] <= pos[s] /\ pos[s] <= Len(log[s])
  /\ warm \subseteq Stages

JoinedOK == joined \in [Stages -> BOOLEAN]

HandOK ==
  /\ hand = [s \in Stages |-> hand[s]]
  /\ \A s \in Stages : hand[s] = {} \/ \E k \in Sent : hand[s] = {k}

TypeInv == CountsOK /\ StoppedOK /\ LogsOK /\ ShownOK /\ ReadersOK /\ JoinedOK /\ HandOK

LEMMA TypeParts == TypeInv => TypeOK
<1>1. HandOK => hand \in [Stages -> {{}} \cup {{k} : k \in Sent}]
  <2> SUFFICES ASSUME HandOK PROVE hand \in [Stages -> {{}} \cup {{k} : k \in Sent}]
    OBVIOUS
  <2>1. \A s \in Stages : hand[s] \in {{}} \cup {{k} : k \in Sent}
    BY DEF HandOK
  <2>2. QED
    BY <2>1, Zenon DEF HandOK
<1>2. QED
  BY <1>1, Zenon DEF TypeOK, TypeInv, CountsOK, StoppedOK, LogsOK, ShownOK, ReadersOK, JoinedOK

LEMMA StageNumbers ==
  /\ Stages = IF program = "etl" THEN {1, 2} ELSE {1}
  /\ 1 \in Stages /\ Last \in Stages /\ Last \in 1..2
<1>1. CASE program = "etl"
  <2>1. Last = 2
    BY <1>1 DEF Last
  <2>2. Stages = {1, 2}
    BY <2>1 DEF Stages
  <2>3. QED
    BY <1>1, <2>1, <2>2
<1>2. CASE program # "etl"
  <2>1. Last = 1
    BY <1>2 DEF Last
  <2>2. Stages = {1}
    BY <2>1 DEF Stages
  <2>3. QED
    BY <1>2, <2>1, <2>2
<1>3. QED
  BY <1>1, <1>2

LEMMA Bounds == MaxRows \in Nat /\ MaxFaults \in Nat
BY BoundsAssumption

\* What the types say of one stage.
LEMMA OneStage ==
  ASSUME TypeInv, NEW s \in Stages
  PROVE  /\ log[s] \in Seq(Sent) /\ Len(log[s]) \in Nat
         /\ \A i \in 1..Len(log[s]) : log[s][i] \in Sent
         /\ pos[s] \in Nat /\ committed[s] \in Nat
         /\ committed[s] <= pos[s] /\ pos[s] <= Len(log[s])
         /\ \A k \in hand[s] : k \in Sent /\ hand[s] = {k}
         /\ Len(log[1]) \in Nat
<1>1. log[s] \in Seq(Sent) /\ log[1] \in Seq(Sent)
  BY StageNumbers DEF TypeInv, LogsOK
<1>2. /\ pos[s] \in Nat /\ committed[s] \in Nat
      /\ committed[s] <= pos[s] /\ pos[s] <= Len(log[s])
  BY DEF TypeInv, ReadersOK
<1>3. \A k \in hand[s] : k \in Sent /\ hand[s] = {k}
  BY DEF TypeInv, HandOK
<1>4. QED
  BY <1>1, <1>2, <1>3

\* A longer topic has the messages of the shorter one.
LEMMA SentGrows ==
  ASSUME NEW m \in Nat, NEW n \in Nat, m <= n, NEW q \in Seq(1..m)
  PROVE  q \in Seq(1..n)
<1>1. \A i \in 1..Len(q) : q[i] \in 1..n
  OBVIOUS
<1>2. Len(q) \in Nat /\ q = [i \in 1..Len(q) |-> q[i]]
  OBVIOUS
<1>3. QED
  BY <1>1, <1>2

LEMMA InitTyping == Init => TypeInv
<1> SUFFICES ASSUME Init PROVE TypeInv
  OBVIOUS
<1>1. log \in [Stages -> Seq(Sent)] /\ shown \in Seq(Sent)
  BY DEF Init
<1>2. CountsOK
  BY Bounds DEF Init, CountsOK
<1>3. StoppedOK /\ JoinedOK
  BY Zenon DEF Init, StoppedOK, JoinedOK
<1>4. HandOK
  BY DEF Init, HandOK
<1>5. ReadersOK
  BY DEF Init, ReadersOK
<1>6. QED
  BY <1>1, <1>2, <1>3, <1>4, <1>5 DEF Init, TypeInv, LogsOK, ShownOK

LEMMA PublishTyping == TypeInv /\ Publish => TypeInv'
<1> SUFFICES ASSUME TypeInv, Publish PROVE TypeInv'
  OBVIOUS
<1> DEFINE n == Len(log[1]) + 1
<1>1. Stages' = Stages /\ 1 \in Stages
  BY StageNumbers DEF Publish, Stages, Last
<1>2. log[1] \in Seq(Sent) /\ Len(log[1]) \in Nat
  BY <1>1, OneStage
<1>3. /\ log' = [log EXCEPT ![1] = Append(log[1], n)]
      /\ UNCHANGED <<program, rows, stopped, hand, shown, warm, struck, faults>>
      /\ UNCHANGED <<joined, pos, committed>>
  BY DEF Publish, reader
<1>4. log'[1] = Append(log[1], n) /\ \A s \in Stages \ {1} : log'[s] = log[s]
  BY <1>1, <1>3 DEF TypeInv, LogsOK
<1>5. Len(log'[1]) = n
  BY <1>2, <1>4
<1>6. Sent' = 1..n /\ Sent \subseteq Sent' /\ n \in Sent'
  BY <1>2, <1>5 DEF Sent
<1>7. \A q \in Seq(Sent) : q \in Seq(Sent')
  BY <1>2, <1>6, SentGrows DEF Sent
<1>8. LogsOK'
  <2>1. log'[1] \in Seq(Sent')
    BY <1>2, <1>4, <1>6, <1>7
  <2>2. \A s \in Stages : log'[s] \in Seq(Sent')
    BY <1>4, <1>7, <2>1 DEF TypeInv, LogsOK
  <2>3. log' = [s \in Stages |-> log'[s]]
    BY <1>3 DEF TypeInv, LogsOK
  <2>4. QED
    BY <1>1, <2>2, <2>3 DEF LogsOK
<1>9. ReadersOK'
  <2>1. \A s \in Stages : Len(log[s]) <= Len(log'[s])
    <3> SUFFICES ASSUME NEW s \in Stages PROVE Len(log[s]) <= Len(log'[s])
      OBVIOUS
    <3>1. Len(log[s]) \in Nat
      BY OneStage
    <3>2. QED
      BY <1>2, <1>4, <1>5, <3>1
  <2>2. \A s \in Stages : pos[s] <= Len(log'[s])
    <3> SUFFICES ASSUME NEW s \in Stages PROVE pos[s] <= Len(log'[s])
      OBVIOUS
    <3>1. Len(log[s]) \in Nat /\ pos[s] \in Nat /\ pos[s] <= Len(log[s])
      BY OneStage
    <3>2. QED
      BY <1>2, <1>4, <1>5, <3>1
  <2>3. QED
    BY <1>1, <1>3, <2>2 DEF TypeInv, ReadersOK
<1>10. HandOK'
  BY <1>1, <1>3, <1>6 DEF TypeInv, HandOK
<1>11. ShownOK'
  <2>1. sure' \in {sure, sure \cup {n}}
    BY <1>5 DEF Publish
  <2>2. QED
    BY <1>3, <1>6, <1>7, <2>1 DEF TypeInv, ShownOK
<1>12. CountsOK' /\ StoppedOK' /\ JoinedOK'
  BY <1>1, <1>3 DEF TypeInv, CountsOK, StoppedOK, JoinedOK
<1>13. QED
  BY <1>8, <1>9, <1>10, <1>11, <1>12 DEF TypeInv

\* A stage that reads reads a message that was sent, of its topic.
LEMMA FetchTyping ==
  ASSUME TypeInv, NEW s \in Stages, Fetch(s)
  PROVE  /\ pos' = [pos EXCEPT ![s] = pos[s] + 1]
         /\ pos'[s] = pos[s] + 1 /\ pos'[s] \in 1..Len(log[s])
         /\ log[s][pos'[s]] \in Sent
         /\ UNCHANGED <<program, rows, stopped, log, joined, shown, sure>>
<1>1. pos'[s] = pos[s] + 1
  BY DEF Fetch, TypeInv, ReadersOK
<1>2. pos'[s] \in 1..Len(log[s])
  BY <1>1, OneStage DEF Fetch
<1>3. QED
  BY <1>1, <1>2, OneStage DEF Fetch

\* A topic with the message k written to it once more, twice or not.
LEMMA Written ==
  ASSUME NEW S, NEW q \in Seq(S), NEW k \in S, NEW n \in 0..2
  PROVE  /\ q \o [c \in 1..n |-> k] \in Seq(S)
         /\ Len(q \o [c \in 1..n |-> k]) = Len(q) + n
         /\ \A i \in 1..Len(q) : (q \o [c \in 1..n |-> k])[i] = q[i]
         /\ \A i \in (Len(q) + 1)..(Len(q) + n) : (q \o [c \in 1..n |-> k])[i] = k
<1>1. [c \in 1..n |-> k] \in Seq(S) /\ Len([c \in 1..n |-> k]) = n
  OBVIOUS
<1>2. QED
  BY <1>1

\* The ETL writes the message it has to the second topic.
LEMMA ETLStep ==
  ASSUME TypeInv, NEW s \in Stages, Handle(s), simulateETL(s)
  PROVE  \E k \in hand[s], n \in 0..2 :
           /\ s = 1 /\ Stages = {1, 2} /\ Last = 2 /\ k \in Sent /\ hand[s] = {k}
           /\ log' = [log EXCEPT ![2] = log[2] \o [c \in 1..n |-> k]]
           /\ log'[2] = log[2] \o [c \in 1..n |-> k] /\ log'[1] = log[1]
           /\ log'[2] \in Seq(Sent) /\ Len(log'[2]) = Len(log[2]) + n
           /\ \A i \in 1..Len(log[2]) : log'[2][i] = log[2][i]
           /\ \A i \in (Len(log[2]) + 1)..(Len(log[2]) + n) : log'[2][i] = k
           /\ faults' = faults \/ (faults < MaxFaults /\ faults' = faults + 1)
           /\ struck' = IF n = 0 THEN struck \cup {k} ELSE struck
           /\ UNCHANGED shown
<1>1. s = 1 /\ Stages = {1, 2} /\ Last = 2 /\ s + 1 = 2
  BY StageNumbers DEF simulateETL
<1>2. PICK k \in hand[s], n \in 0..2 :
        /\ log' = [log EXCEPT ![s + 1] = log[s + 1] \o [c \in 1..n |-> k]]
        /\ IF n = 1 THEN UNCHANGED faults ELSE Fault
        /\ struck' = IF n = 0 THEN struck \cup {k} ELSE struck
        /\ UNCHANGED shown
  BY DEF simulateETL
<1>3. k \in Sent /\ hand[s] = {k} /\ log[2] \in Seq(Sent)
  BY <1>1, OneStage
<1>4. log' = [log EXCEPT ![2] = log[2] \o [c \in 1..n |-> k]]
  BY <1>1, <1>2
<1>5. log'[2] = log[2] \o [c \in 1..n |-> k] /\ log'[1] = log[1]
  BY <1>1, <1>4 DEF TypeInv, LogsOK
<1>6. /\ log'[2] \in Seq(Sent) /\ Len(log'[2]) = Len(log[2]) + n
      /\ \A i \in 1..Len(log[2]) : log'[2][i] = log[2][i]
      /\ \A i \in (Len(log[2]) + 1)..(Len(log[2]) + n) : log'[2][i] = k
  BY <1>3, <1>5, Written
<1>7. faults' = faults \/ (faults < MaxFaults /\ faults' = faults + 1)
  BY <1>2 DEF Fault
<1>8. QED
  BY <1>1, <1>2, <1>3, <1>4, <1>5, <1>6, <1>7

\* The last stage prints or upserts the message it has, or fails.
LEMMA ConsumerStep ==
  ASSUME TypeInv, NEW s \in Stages, Handle(s), simulateConsumer(s)
  PROVE  \E k \in hand[s] :
           /\ s = Last /\ k \in Sent /\ hand[s] = {k} /\ UNCHANGED log
           /\ \/ shown' = Append(shown, k) /\ UNCHANGED <<struck, faults>>
              \/ /\ faults < MaxFaults /\ faults' = faults + 1
                 /\ struck' = struck \cup {k} /\ UNCHANGED shown
<1>1. PICK k \in hand[s] : \/ shown' = Append(shown, k) /\ UNCHANGED <<struck, faults>>
                           \/ Fault /\ struck' = struck \cup {k} /\ UNCHANGED shown
  BY DEF simulateConsumer
<1>2. k \in Sent /\ hand[s] = {k}
  BY OneStage
<1>3. QED
  BY <1>1, <1>2 DEF simulateConsumer, Fault

LEMMA HandleTyping ==
  ASSUME TypeInv, NEW s \in Stages, Handle(s)
  PROVE  TypeInv'
<1>1. /\ Stages' = Stages
      /\ UNCHANGED <<program, rows, stopped, joined, pos, committed, warm, sure>>
      /\ hand' = [hand EXCEPT ![s] = {}]
  BY DEF Handle, Stages, Last, reader
<1>2. StoppedOK' /\ JoinedOK'
  BY <1>1 DEF TypeInv, StoppedOK, JoinedOK
<1>3. CASE simulateETL(s)
  <2>1. PICK k \in hand[s], n \in 0..2 :
           /\ s = 1 /\ Stages = {1, 2} /\ k \in Sent
           /\ log' = [log EXCEPT ![2] = log[2] \o [c \in 1..n |-> k]]
           /\ log'[1] = log[1]
           /\ log'[2] \in Seq(Sent) /\ Len(log'[2]) = Len(log[2]) + n
           /\ faults' = faults \/ (faults < MaxFaults /\ faults' = faults + 1)
           /\ struck' = IF n = 0 THEN struck \cup {k} ELSE struck
           /\ UNCHANGED shown
    BY <1>3, ETLStep
  <2>2. Sent' = Sent
    BY <2>1 DEF Sent
  <2>3. LogsOK'
    BY <1>1, <2>1, <2>2 DEF TypeInv, LogsOK
  <2>4. ReadersOK'
    <3>1. Len(log[2]) \in Nat /\ pos[2] \in Nat /\ pos[2] <= Len(log[2])
      BY <2>1, OneStage
    <3>2. \A t \in Stages : pos[t] <= Len(log'[t])
      BY <2>1, <3>1 DEF TypeInv, ReadersOK
    <3>3. QED
      BY <1>1, <3>2 DEF TypeInv, ReadersOK
  <2>5. CountsOK'
    BY <1>1, <2>1, Bounds DEF TypeInv, CountsOK
  <2>6. ShownOK'
    BY <1>1, <2>1, <2>2 DEF TypeInv, ShownOK
  <2>7. HandOK'
    BY <1>1, <2>2 DEF TypeInv, HandOK
  <2>8. QED
    BY <1>2, <2>3, <2>4, <2>5, <2>6, <2>7 DEF TypeInv
<1>4. CASE simulateConsumer(s)
  <2>1. PICK k \in hand[s] :
           /\ s = Last /\ k \in Sent /\ hand[s] = {k} /\ UNCHANGED log
           /\ \/ shown' = Append(shown, k) /\ UNCHANGED <<struck, faults>>
              \/ /\ faults < MaxFaults /\ faults' = faults + 1
                 /\ struck' = struck \cup {k} /\ UNCHANGED shown
    BY <1>4, ConsumerStep
  <2>2. Sent' = Sent
    BY <2>1 DEF Sent
  <2>3. LogsOK' /\ ReadersOK'
    BY <1>1, <2>1, <2>2 DEF TypeInv, LogsOK, ReadersOK
  <2>4. CountsOK'
    BY <1>1, <2>1, Bounds DEF TypeInv, CountsOK
  <2>5. ShownOK'
    BY <1>1, <2>1, <2>2 DEF TypeInv, ShownOK
  <2>6. HandOK'
    BY <1>1, <2>2 DEF TypeInv, HandOK
  <2>7. QED
    BY <1>2, <2>3, <2>4, <2>5, <2>6 DEF TypeInv
<1>5. QED
  BY <1>3, <1>4 DEF Handle

LEMMA NextTyping == TypeInv /\ [Next]_vars => TypeInv'
<1> SUFFICES ASSUME TypeInv, [Next]_vars PROVE TypeInv'
  OBVIOUS
<1>1. CASE Insert \/ InsertFails \/ UNCHANGED vars
  <2>1. UNCHANGED <<program, log, hand, shown, warm, sure, struck, joined, pos, committed>>
    BY <1>1 DEF Insert, InsertFails, vars, reader
  <2>2. Stages' = Stages /\ Sent' = Sent
    BY <2>1 DEF Stages, Last, Sent
  <2>3. StoppedOK'
    BY <1>1, Zenon DEF Insert, InsertFails, vars, TypeInv, StoppedOK
  <2>4. rows' = rows \/ (rows < MaxRows /\ rows' = rows + 1)
    BY <1>1 DEF Insert, InsertFails, vars
  <2>5. faults' = faults \/ (faults < MaxFaults /\ faults' = faults + 1)
    BY <1>1 DEF Insert, InsertFails, vars, Fault
  <2>6. CountsOK'
    BY <2>1, <2>4, <2>5, Bounds DEF TypeInv, CountsOK
  <2>7. LogsOK' /\ ReadersOK' /\ JoinedOK' /\ ShownOK' /\ HandOK'
    BY <2>1, <2>2 DEF TypeInv, LogsOK, ReadersOK, JoinedOK, ShownOK, HandOK
  <2>8. QED
    BY <2>3, <2>6, <2>7 DEF TypeInv
<1>2. ASSUME NEW s \in Stages, Join(s) \/ Leave(s) PROVE TypeInv'
  <2>1. UNCHANGED <<program, rows, stopped, log, committed, hand, shown, warm, sure, struck,
                    faults>>
    BY <1>2 DEF Join, Leave
  <2>2. Stages' = Stages /\ Sent' = Sent
    BY <2>1 DEF Stages, Last, Sent
  <2>3. JoinedOK'
    BY <1>2, <2>2, Zenon DEF Join, Leave, TypeInv, JoinedOK
  <2>4. pos' = pos \/ \E n \in {Len(log[s]), committed[s]} : pos' = [pos EXCEPT ![s] = n]
    BY <1>2 DEF Join, Leave
  <2>5. /\ Len(log[s]) \in Nat /\ committed[s] \in Nat
        /\ committed[s] <= pos[s] /\ pos[s] <= Len(log[s]) /\ pos[s] \in Nat
    BY OneStage
  <2>6. ReadersOK'
    BY <2>1, <2>2, <2>4, <2>5 DEF TypeInv, ReadersOK
  <2>7. CountsOK' /\ StoppedOK' /\ LogsOK' /\ ShownOK' /\ HandOK'
    BY <2>1, <2>2 DEF TypeInv, CountsOK, StoppedOK, LogsOK, ShownOK, HandOK
  <2>8. QED
    BY <2>3, <2>6, <2>7 DEF TypeInv
<1>3. ASSUME NEW s \in Stages, ReadMessage(s) \/ ReadMessageFails(s) PROVE TypeInv'
  <2>1. Fetch(s)
    BY <1>3 DEF ReadMessage, ReadMessageFails
  <2> DEFINE k == log[s][pos'[s]]
  <2>2. /\ pos' = [pos EXCEPT ![s] = pos[s] + 1]
        /\ pos'[s] = pos[s] + 1 /\ pos'[s] \in 1..Len(log[s]) /\ k \in Sent
        /\ UNCHANGED <<program, rows, stopped, log, joined, shown, sure>>
    BY <2>1, FetchTyping
  <2>3. Stages' = Stages /\ Sent' = Sent
    BY <2>2 DEF Stages, Last, Sent
  <2>4. /\ committed' \in {committed, [committed EXCEPT ![s] = pos'[s]]}
        /\ hand' \in {hand, [hand EXCEPT ![s] = {k}]}
        /\ warm' \in {warm, warm \cup {s}}
        /\ struck' \in {struck, struck \cup {k}}
        /\ faults' = faults \/ (faults < MaxFaults /\ faults' = faults + 1)
    BY <1>3 DEF ReadMessage, ReadMessageFails, Fault
  <2>5. pos[s] \in Nat /\ committed[s] \in Nat /\ committed[s] <= pos[s] /\ Len(log[s]) \in Nat
    BY OneStage
  <2>6. ReadersOK'
    <3>1. pos' \in [Stages -> Nat] /\ committed' \in [Stages -> Nat] /\ warm' \subseteq Stages
      BY <2>2, <2>4, <2>5 DEF TypeInv, ReadersOK
    <3>2. ASSUME NEW t \in Stages PROVE committed'[t] <= pos'[t] /\ pos'[t] <= Len(log[t])
      <4>1. CASE t = s
        <5>1. committed'[s] \in {committed[s], pos'[s]}
          BY <2>4 DEF TypeInv, ReadersOK
        <5>2. QED
          BY <2>2, <2>5, <4>1, <5>1
      <4>2. CASE t # s
        BY <2>2, <2>4, <4>2 DEF TypeInv, ReadersOK
      <4>3. QED
        BY <4>1, <4>2
    <3>3. QED
      BY <2>2, <2>3, <3>1, <3>2 DEF ReadersOK
  <2>7. HandOK'
    BY <2>2, <2>3, <2>4 DEF TypeInv, HandOK
  <2>8. CountsOK'
    BY <2>2, <2>4, Bounds DEF TypeInv, CountsOK
  <2>9. ShownOK'
    BY <2>2, <2>3, <2>4 DEF TypeInv, ShownOK
  <2>10. StoppedOK' /\ LogsOK' /\ JoinedOK'
    BY <2>2, <2>3 DEF TypeInv, StoppedOK, LogsOK, JoinedOK
  <2>11. QED
    BY <2>6, <2>7, <2>8, <2>9, <2>10 DEF TypeInv
<1>4. ASSUME NEW s \in Stages, Kill(s) PROVE TypeInv'
  <2>1. UNCHANGED <<program, rows, log, pos, shown, sure>>
    BY <1>4 DEF Kill
  <2>2. Stages' = Stages /\ Sent' = Sent
    BY <2>1 DEF Stages, Last, Sent
  <2>3. JoinedOK'
    BY <1>4, <2>2, Zenon DEF Kill, TypeInv, JoinedOK
  <2>4. StoppedOK'
    BY <1>4, Zenon DEF Kill, TypeInv, StoppedOK
  <2>5. committed' = [committed EXCEPT ![s] = 0] /\ warm' = warm \ {s}
    BY <1>4 DEF Kill
  <2>6. ReadersOK'
    BY <2>1, <2>2, <2>5 DEF TypeInv, ReadersOK
  <2>7. HandOK'
    BY <1>4, <2>2 DEF Kill, TypeInv, HandOK
  <2>8. faults < MaxFaults /\ faults' = faults + 1
    BY <1>4 DEF Kill, Fault
  <2>9. CountsOK'
    BY <2>1, <2>8, Bounds DEF TypeInv, CountsOK
  <2>10. struck' \subseteq struck \cup Sent
    BY <1>4 DEF Kill
  <2>11. LogsOK' /\ ShownOK'
    BY <2>1, <2>2, <2>10 DEF TypeInv, LogsOK, ShownOK
  <2>12. QED
    BY <2>3, <2>4, <2>6, <2>7, <2>9, <2>11 DEF TypeInv
<1>5. QED
  BY <1>1, <1>2, <1>3, <1>4, PublishTyping, HandleTyping DEF Next

\* Type correctness: a group has committed no more than its reader went past, and
\* topics and stores hold messages that were sent.
THEOREM Typing == Spec => []TypeOK
<1>1. Init => TypeInv
  BY InitTyping
<1>2. TypeInv /\ [Next]_vars => TypeInv'
  BY NextTyping
<1>3. QED
  BY <1>1, <1>2, TypeParts, PTL DEF Spec

-----------------------------------------------------------------------------
(* What each stage is done with *)

LEMMA InitRelay == Init => RelayInv
<1> SUFFICES ASSUME Init, NEW s \in Stages PROVE TopicInv(s) /\ StageInv(s)
  BY DEF RelayInv
<1>1. log[s] = <<>> /\ hand[s] = {} /\ committed[s] = 0 /\ ~joined[s] /\ pos[s] = 0
      /\ shown = <<>> /\ warm = {}
  BY DEF Init
<1>2. s < Last => s + 1 \in Stages
  BY StageNumbers
<1>3. Out(s) = <<>>
  BY <1>1, <1>2 DEF Init, Out
<1>4. Sent = {}
  BY StageNumbers DEF Init, Sent
<1>5. TopicInv(s)
  BY <1>1, <1>3 DEF TopicInv, Range
<1>6. StageInv(s)
  BY <1>1, <1>4 DEF StageInv
<1>7. QED
  BY <1>5, <1>6

LEMMA OutTyping ==
  ASSUME TypeInv, NEW s \in Stages
  PROVE  Out(s) \in Seq(Sent)
<1>1. s < Last => s + 1 \in Stages
  BY StageNumbers
<1>2. QED
  BY <1>1 DEF Out, TypeInv, LogsOK, ShownOK

\* A topic that nothing was written to, or handed on from.
LEMMA TopicKept ==
  ASSUME NEW s \in Stages, TopicInv(s),
         log'[s] = log[s], Out(s)' = Out(s), Lost \subseteq Lost'
  PROVE  TopicInv(s)'
BY DEF TopicInv

\* A stage that does nothing, while its topic may grow.
LEMMA StageKept ==
  ASSUME TypeInv, TypeInv', NEW s \in Stages, s \in Stages', StageInv(s),
         joined'[s] = joined[s], pos'[s] = pos[s], committed'[s] = committed[s],
         hand'[s] = hand[s], s \in warm' => s \in warm,
         Out(s)' = Out(s), Lost \subseteq Lost',
         Len(log[s]) <= Len(log'[s]),
         \A i \in 1..Len(log[s]) : log'[s][i] = log[s][i],
         \A i \in (Len(log[s]) + 1)..Len(log'[s]) : NoneAfter(s, log'[s][i]),
         committed[s] = 0 => Sent' \subseteq Sent \cup Lost'
  PROVE  StageInv(s)'
<1>1. /\ Len(log[s]) \in Nat /\ Len(log'[s]) \in Nat /\ pos[s] \in Nat /\ committed[s] \in Nat
      /\ committed[s] <= pos[s] /\ pos[s] <= Len(log[s])
  BY OneStage
<1>2. \A k : (Gone(s, k) => Gone(s, k)') /\ (NoneAfter(s, k) => NoneAfter(s, k)')
  BY DEF Gone, NoneAfter
<1>3. \A i \in 1..Len(log[s]) : (Done(s, i) => Done(s, i)') /\ (Ahead(s, i) => Ahead(s, i)')
  BY DEF Done, Ahead, Gone, NoneAfter
<1>4. \A i \in (Len(log[s]) + 1)..Len(log'[s]) : Ahead(s, i)'
  BY DEF Ahead, NoneAfter
<1>5. hand'[s] # {} => committed'[s] > 0 /\ hand'[s] = {log'[s][committed'[s]]}
  BY <1>1 DEF StageInv
<1>6. committed'[s] = 0 => s \notin warm' /\ \A k \in Sent' : Gone(s, k)'
  BY <1>2 DEF StageInv, Gone
<1>7. \A i \in 1..committed'[s] : Done(s, i)'
  BY <1>1, <1>3 DEF StageInv
<1>8. committed'[s] > 0 => \A i \in committed'[s]..Len(log'[s]) : Ahead(s, i)'
  BY <1>1, <1>3, <1>4 DEF StageInv
<1>9. joined'[s] => /\ \A i \in 1..pos'[s] : Done(s, i)'
                   /\ \A i \in (pos'[s] + 1)..Len(log'[s]) : Ahead(s, i)'
  BY <1>1, <1>3, <1>4 DEF StageInv
<1>10. QED
  BY <1>5, <1>6, <1>7, <1>8, <1>9 DEF StageInv

\* A stage whose topic and reader stay as they are.
LEMMA StageSame ==
  ASSUME TypeInv, TypeInv', NEW s \in Stages, StageInv(s),
         joined'[s] = joined[s], pos'[s] = pos[s], committed'[s] = committed[s],
         hand'[s] = hand[s], s \in warm' => s \in warm, UNCHANGED <<program, log>>,
         Out(s)' = Out(s), Lost \subseteq Lost'
  PROVE  StageInv(s)'
<1>1. Stages' = Stages /\ Sent' = Sent
  BY DEF Stages, Last, Sent
<1>2. Len(log[s]) \in Nat
  BY OneStage
<1>3. QED
  BY <1>1, <1>2, StageKept

LEMMA PublishRelay ==
  ASSUME TypeInv, TypeInv', RelayInv, Publish
  PROVE  RelayInv'
<1> DEFINE n == Len(log[1]) + 1
<1>1. Stages' = Stages /\ Last' = Last /\ 1 \in Stages /\ Last \in 1..2
  BY StageNumbers DEF Publish, Stages, Last
<1>2. log[1] \in Seq(Sent) /\ Len(log[1]) \in Nat
  BY <1>1, OneStage
<1>3. /\ log' = [log EXCEPT ![1] = Append(log[1], n)]
      /\ UNCHANGED <<program, hand, shown, warm, struck, joined, pos, committed>>
  BY DEF Publish, reader
<1>4. log'[1] = Append(log[1], n) /\ \A s \in Stages \ {1} : log'[s] = log[s]
  BY <1>1, <1>3 DEF TypeInv, LogsOK
<1>5. /\ Len(log'[1]) = n /\ log'[1][n] = n
      /\ \A i \in 1..Len(log[1]) : log'[1][i] = log[1][i]
  BY <1>2, <1>4
<1>6. Sent' = Sent \cup {n} /\ n \notin Sent /\ \A k \in Sent : k <= n
  BY <1>2, <1>5 DEF Sent
<1>7. sure' = IF Stages \subseteq warm THEN sure \cup {n} ELSE sure
  BY <1>5 DEF Publish
<1>8. Lost \subseteq Lost'
  BY <1>3, <1>6, <1>7 DEF Lost
<1>9. ~(Stages \subseteq warm) => n \in Lost'
  BY <1>6, <1>7 DEF Lost, TypeInv, ShownOK
<1>10. \A s \in Stages : Out(s)' = Out(s)
  BY <1>1, <1>3, <1>4, StageNumbers DEF Out
<1>11. ASSUME NEW s \in Stages PROVE StageInv(s)'
  <2>1. Len(log[s]) \in Nat
    BY OneStage
  <2>2. Len(log[s]) <= Len(log'[s]) /\ \A i \in 1..Len(log[s]) : log'[s][i] = log[s][i]
    BY <1>2, <1>4, <1>5, <2>1
  <2>3. \A i \in (Len(log[s]) + 1)..Len(log'[s]) : log'[s][i] = n
    BY <1>2, <1>4, <1>5, <2>1
  <2>4. NoneAfter(s, n)
    BY <1>6, OutTyping DEF NoneAfter
  <2>5. StageInv(s) /\ (committed[s] = 0 => n \in Lost')
    BY <1>9 DEF RelayInv, StageInv
  <2>6. QED
    BY <1>1, <1>3, <1>6, <1>8, <1>10, <2>2, <2>3, <2>4, <2>5, StageKept
<1>12. ASSUME NEW s \in Stages PROVE TopicInv(s)'
  <2>1. CASE s = 1
    <3>1. /\ \A i \in 1..Len(log[1]) : log[1][i] = i
          /\ Range(Out(1)) \subseteq Range(log[1])
      BY <1>1 DEF RelayInv, TopicInv
    <3>2. \A i \in 1..n : log'[1][i] = i
      BY <1>2, <1>5, <3>1
    <3>3. DOMAIN log'[1] = 1..n /\ n \in Nat
      BY <1>2, <1>4
    <3>4. \A k \in 1..n : k \in Range(log'[1])
      BY <3>2, <3>3 DEF Range
    <3>5. Range(log[1]) \subseteq Range(log'[1])
      BY <1>2, <3>1, <3>4 DEF Range
    <3>6. QED
      BY <1>1, <1>10, <2>1, <3>1, <3>2, <3>3, <3>4, <3>5 DEF TopicInv
  <2>2. CASE s # 1
    BY <1>4, <1>8, <1>10, <2>2, TopicKept DEF RelayInv
  <2>3. QED
    BY <2>1, <2>2
<1>13. QED
  BY <1>1, <1>11, <1>12 DEF RelayInv
\* A step of one stage that leaves all topics and stores.
LEMMA Quiet ==
  ASSUME TypeInv, TypeInv', RelayInv, UNCHANGED <<program, log, shown>>, Lost \subseteq Lost',
         NEW s \in Stages, StageInv(s)',
         \A t \in Stages \ {s} :
           /\ joined'[t] = joined[t] /\ pos'[t] = pos[t] /\ committed'[t] = committed[t]
           /\ hand'[t] = hand[t] /\ (t \in warm' => t \in warm)
  PROVE  RelayInv'
<1>1. Stages' = Stages /\ \A t \in Stages : Out(t)' = Out(t)
  BY DEF Stages, Last, Out
<1>2. ASSUME NEW t \in Stages PROVE TopicInv(t)'
  BY <1>1, TopicKept DEF RelayInv
<1>3. ASSUME NEW t \in Stages \ {s} PROVE StageInv(t)'
  BY <1>1, StageSame DEF RelayInv
<1>4. QED
  BY <1>1, <1>2, <1>3 DEF RelayInv

LEMMA JoinRelay ==
  ASSUME TypeInv, TypeInv', RelayInv, NEW s \in Stages, Join(s) \/ Leave(s)
  PROVE  RelayInv'
<1>1. UNCHANGED <<program, log, committed, hand, shown, warm, sure, struck>>
  BY DEF Join, Leave
<1>2. Lost' = Lost /\ Sent' = Sent /\ Out(s)' = Out(s)
  BY <1>1 DEF Lost, Sent, Out, Last
<1>3. \A t \in Stages \ {s} : joined'[t] = joined[t] /\ pos'[t] = pos[t]
  BY DEF Join, Leave, TypeInv, JoinedOK, ReadersOK
<1>4. /\ pos[s] \in Nat /\ committed[s] \in Nat /\ committed[s] <= pos[s]
      /\ Len(log[s]) \in Nat /\ pos[s] <= Len(log[s])
      /\ \A i \in 1..Len(log[s]) : log[s][i] \in Sent
  BY OneStage
<1>5. /\ \A i : Done(s, i)' <=> Done(s, i)
      /\ \A i : Ahead(s, i)' <=> Ahead(s, i)
      /\ \A k : Gone(s, k)' <=> Gone(s, k)
  BY <1>1, <1>2 DEF Done, Ahead, Gone, NoneAfter
<1>6. /\ hand[s] # {} => committed[s] > 0 /\ hand[s] = {log[s][committed[s]]}
      /\ committed[s] = 0 => s \notin warm /\ \A k \in Sent : Gone(s, k)
      /\ \A i \in 1..committed[s] : Done(s, i)
      /\ committed[s] > 0 => \A i \in committed[s]..Len(log[s]) : Ahead(s, i)
  BY DEF RelayInv, StageInv
<1>7. joined'[s] => /\ \A i \in 1..pos'[s] : Done(s, i)
                   /\ \A i \in (pos'[s] + 1)..Len(log[s]) : Ahead(s, i)
  <2>1. CASE Leave(s)
    BY <2>1 DEF Leave, TypeInv, JoinedOK
  <2>2. CASE Join(s) /\ committed[s] = 0
    <3>1. pos'[s] = Len(log[s])
      BY <2>2 DEF Join, TypeInv, ReadersOK
    <3>2. \A i \in 1..Len(log[s]) : Done(s, i)
      BY <1>4, <1>6, <2>2 DEF Done
    <3>3. QED
      BY <1>4, <3>1, <3>2
  <2>3. CASE Join(s) /\ committed[s] # 0
    <3>1. pos'[s] = committed[s]
      BY <2>3 DEF Join, TypeInv, ReadersOK
    <3>2. QED
      BY <1>4, <1>6, <2>3, <3>1
  <2>4. QED
    BY <2>1, <2>2, <2>3
<1>8. StageInv(s)'
  BY <1>1, <1>2, <1>5, <1>6, <1>7 DEF StageInv
<1>9. QED
  BY <1>1, <1>2, <1>3, <1>8, Quiet

LEMMA ReadRelay ==
  ASSUME TypeInv, TypeInv', RelayInv, NEW s \in Stages, ReadMessage(s) \/ ReadMessageFails(s)
  PROVE  RelayInv'
<1>1. PICK p : p = pos[s] + 1
  OBVIOUS
<1>2. PICK k : k = log[s][p]
  OBVIOUS
<1>3. Fetch(s)
  BY DEF ReadMessage, ReadMessageFails
<1>4. /\ pos' = [pos EXCEPT ![s] = p] /\ pos'[s] = p /\ p \in 1..Len(log[s]) /\ k \in Sent
      /\ UNCHANGED <<program, log, joined, shown, sure>> /\ joined[s] /\ hand[s] = {}
  BY <1>1, <1>2, <1>3, FetchTyping DEF Fetch
<1>5. /\ committed' \in {committed, [committed EXCEPT ![s] = p]}
      /\ \/ ReadMessage(s) /\ hand' = [hand EXCEPT ![s] = {k}] /\ UNCHANGED struck
            /\ warm' = warm \cup {s} /\ committed' = [committed EXCEPT ![s] = p]
         \/ ReadMessageFails(s) /\ UNCHANGED <<hand, warm>> /\ struck' = struck \cup {k}
  BY <1>2, <1>4 DEF ReadMessage, ReadMessageFails
<1>6. Lost \subseteq Lost' /\ Sent' = Sent /\ Out(s)' = Out(s)
  BY <1>4, <1>5 DEF Lost, Sent, Out, Last
<1>7. \A t \in Stages \ {s} :
        /\ joined'[t] = joined[t] /\ pos'[t] = pos[t] /\ committed'[t] = committed[t]
        /\ hand'[t] = hand[t] /\ (t \in warm' => t \in warm)
  BY <1>4, <1>5 DEF TypeInv, ReadersOK, HandOK
<1>8. /\ p = pos[s] + 1 /\ k = log[s][p]
      /\ pos[s] \in Nat /\ committed[s] \in Nat /\ committed[s] <= pos[s]
      /\ Len(log[s]) \in Nat
  BY <1>1, <1>2, OneStage
<1>9. /\ \A i : Done(s, i) => Done(s, i)'
      /\ \A i : Ahead(s, i) => Ahead(s, i)'
      /\ \A m : Gone(s, m) => Gone(s, m)'
  BY <1>4, <1>6 DEF Done, Ahead, Gone, NoneAfter
<1>10. /\ committed[s] = 0 => s \notin warm /\ \A m \in Sent : Gone(s, m)
       /\ \A i \in 1..committed[s] : Done(s, i)
       /\ committed[s] > 0 => \A i \in committed[s]..Len(log[s]) : Ahead(s, i)
       /\ \A i \in 1..pos[s] : Done(s, i)
       /\ \A i \in p..Len(log[s]) : Ahead(s, i)
  BY <1>4, <1>8 DEF RelayInv, StageInv
<1>11. Done(s, p)'
  <2>1. CASE ReadMessage(s)
    <3>1. hand'[s] = {k}
      BY <1>4, <1>8, <2>1 DEF ReadMessage, TypeInv, HandOK
    <3>2. QED
      BY <1>4, <1>8, <3>1 DEF Done
  <2>2. CASE ReadMessageFails(s)
    <3>1. k \in Lost'
      BY <1>4, <1>8, <2>2 DEF ReadMessageFails, Lost
    <3>2. QED
      BY <1>4, <1>8, <3>1 DEF Done, Gone
  <2>3. QED
    BY <2>1, <2>2
<1>12. /\ \A i \in 1..p : Done(s, i)'
       /\ \A i \in p..Len(log[s]) : Ahead(s, i)'
  <2>1. ASSUME NEW i \in 1..p PROVE Done(s, i)'
    <3>1. i \in 1..pos[s] \/ i = p
      BY <1>8
    <3>2. QED
      BY <1>9, <1>10, <1>11, <3>1
  <2>2. QED
    BY <1>9, <1>10, <2>1
<1>13. committed'[s] = committed[s] \/ committed'[s] = p
  BY <1>5 DEF TypeInv, ReadersOK
<1>14. hand'[s] # {} => committed'[s] > 0 /\ hand'[s] = {log'[s][committed'[s]]}
  <2>1. CASE ReadMessage(s)
    <3>1. hand'[s] = {k} /\ committed'[s] = p
      BY <1>4, <1>8, <2>1 DEF ReadMessage, TypeInv, HandOK, ReadersOK
    <3>2. QED
      BY <1>4, <1>8, <3>1
  <2>2. CASE ReadMessageFails(s)
    BY <1>4, <2>2 DEF ReadMessageFails
  <2>3. QED
    BY <2>1, <2>2
<1>15. committed'[s] = 0 => s \notin warm' /\ \A m \in Sent' : Gone(s, m)'
  <2>1. CASE ReadMessage(s)
    <3>1. committed'[s] = p
      BY <1>4, <2>1 DEF ReadMessage, TypeInv, ReadersOK
    <3>2. QED
      BY <1>8, <3>1
  <2>2. CASE ReadMessageFails(s)
    <3>1. warm' = warm
      BY <2>2 DEF ReadMessageFails
    <3>2. QED
      BY <1>6, <1>8, <1>9, <1>10, <1>13, <3>1
  <2>3. QED
    BY <2>1, <2>2
<1>16. \A i \in 1..committed'[s] : Done(s, i)'
  BY <1>8, <1>9, <1>10, <1>12, <1>13
<1>17. committed'[s] > 0 => \A i \in committed'[s]..Len(log'[s]) : Ahead(s, i)'
  <2>1. CASE committed'[s] = committed[s]
    BY <1>4, <1>9, <1>10, <2>1
  <2>2. CASE committed'[s] = p
    BY <1>4, <1>12, <2>2
  <2>3. QED
    BY <1>13, <2>1, <2>2
<1>18. /\ \A i \in 1..pos'[s] : Done(s, i)'
       /\ \A i \in (pos'[s] + 1)..Len(log'[s]) : Ahead(s, i)'
  BY <1>4, <1>8, <1>12
<1>19. StageInv(s)'
  BY <1>14, <1>15, <1>16, <1>17, <1>18 DEF StageInv
<1>20. QED
  BY <1>4, <1>6, <1>7, <1>19, Quiet

LEMMA KillRelay ==
  ASSUME TypeInv, TypeInv', RelayInv, NEW s \in Stages, Kill(s)
  PROVE  RelayInv'
<1>1. /\ UNCHANGED <<program, log, shown, sure, pos>>
      /\ struck' = struck \cup (Sent \ Range(Out(s)))
      /\ joined' = [joined EXCEPT ![s] = FALSE] /\ committed' = [committed EXCEPT ![s] = 0]
      /\ hand' = [hand EXCEPT ![s] = {}] /\ warm' = warm \ {s}
  BY DEF Kill, Out
<1>2. Lost \subseteq Lost' /\ Sent' = Sent /\ Out(s)' = Out(s)
  BY <1>1 DEF Lost, Sent, Out, Last
<1>3. \A t \in Stages \ {s} :
        /\ joined'[t] = joined[t] /\ pos'[t] = pos[t] /\ committed'[t] = committed[t]
        /\ hand'[t] = hand[t] /\ (t \in warm' => t \in warm)
  BY <1>1 DEF TypeInv, JoinedOK, ReadersOK, HandOK
<1>4. ~joined'[s] /\ committed'[s] = 0 /\ hand'[s] = {} /\ s \notin warm'
  BY <1>1 DEF TypeInv, JoinedOK, ReadersOK, HandOK
<1>5. \A k \in Sent' : Gone(s, k)'
  BY <1>1, <1>2 DEF Gone, Lost
<1>6. StageInv(s)'
  BY <1>4, <1>5 DEF StageInv
<1>7. QED
  BY <1>1, <1>2, <1>3, <1>6, Quiet
\* A stage is done with the message it had: it handed it on, or lost it.
LEMMA HandedOn ==
  ASSUME TypeInv, TypeInv', NEW s \in Stages, StageInv(s), TopicInv(s),
         NEW k, hand[s] = {k}, hand'[s] = {}, log'[s] = log[s], Lost \subseteq Lost',
         UNCHANGED <<program, joined, pos, committed, warm>>,
         Range(Out(s)) \subseteq Range(Out(s)'), Range(Out(s)') \subseteq Range(Out(s)) \cup {k},
         k \in Lost' \cup Range(Out(s)')
  PROVE  StageInv(s)' /\ TopicInv(s)'
<1>1. PICK c : c = committed[s]
  OBVIOUS
<1>2. c > 0 /\ k = log[s][c]
  BY <1>1 DEF StageInv
<1>3. /\ c \in Nat /\ pos[s] \in Nat /\ c <= pos[s] /\ pos[s] <= Len(log[s]) /\ Len(log[s]) \in Nat
      /\ DOMAIN log[s] = 1..Len(log[s])
  BY <1>1, OneStage
<1>4. \A i \in 1..Len(log[s]) : Done(s, i) => Done(s, i)'
  <2> SUFFICES ASSUME NEW i \in 1..Len(log[s]), Done(s, i) PROVE Done(s, i)'
    OBVIOUS
  <2>1. CASE Gone(s, log[s][i])
    BY <2>1 DEF Done, Gone
  <2>2. CASE hand[s] = {log[s][i]}
    BY <2>2 DEF Done, Gone
  <2>3. QED
    BY <2>1, <2>2 DEF Done
<1>5. \A i \in c..Len(log[s]) : Ahead(s, i) => Ahead(s, i)'
  <2> SUFFICES ASSUME NEW i \in c..Len(log[s]), Ahead(s, i), NEW j \in DOMAIN Out(s)'
               PROVE  Out(s)'[j] <= log[s][i]
    BY DEF Ahead, NoneAfter
  <2>1. k <= log[s][i]
    BY <1>2, <1>3 DEF TopicInv
  <2>2. Out(s)'[j] \in Range(Out(s)) \cup {k}
    BY DEF Range
  <2>3. \A x \in Range(Out(s)) : x <= log[s][i]
    BY DEF Ahead, NoneAfter, Range
  <2>4. QED
    BY <2>1, <2>2, <2>3
<1>6. TopicInv(s)'
  <2>1. k \in Range(log[s])
    BY <1>2, <1>3 DEF Range
  <2>2. Range(Out(s)') \subseteq Range(log[s])
    BY <2>1 DEF TopicInv
  <2>3. QED
    BY <2>2 DEF TopicInv
<1>7. StageInv(s)'
  <2>1. /\ \A i \in 1..c : Done(s, i)'
        /\ \A i \in c..Len(log[s]) : Ahead(s, i)'
    BY <1>1, <1>2, <1>3, <1>4, <1>5 DEF StageInv
  <2>2. joined[s] => /\ \A i \in 1..pos[s] : Done(s, i)'
                    /\ \A i \in (pos[s] + 1)..Len(log[s]) : Ahead(s, i)'
    BY <1>3, <1>4, <1>5 DEF StageInv
  <2>3. QED
    BY <1>1, <1>2, <1>3, <2>1, <2>2 DEF StageInv
<1>8. QED
  BY <1>6, <1>7

\* All messages before the one a stage has are handed on by it, or written off.
LEMMA NonePassedOver ==
  ASSUME TypeInv, NEW s \in Stages, StageInv(s), TopicInv(s), NEW k, hand[s] = {k},
         NEW m \in 1..(k - 1)
  PROVE  Gone(s, m)
<1>1. /\ committed[s] > 0 /\ k = log[s][committed[s]]
      /\ \A i \in 1..committed[s] : Done(s, i)
  BY DEF StageInv
<1>2. /\ committed[s] \in Nat /\ committed[s] \in 1..Len(log[s]) /\ Len(log[s]) \in Nat
      /\ DOMAIN log[s] = 1..Len(log[s]) /\ \A i \in 1..Len(log[s]) : log[s][i] \in Sent
  BY <1>1, OneStage
<1>3. k \in Nat /\ m \in Nat /\ m < k
  BY <1>1, <1>2 DEF Sent
<1>4. m \in Lost \/ m \in Range(log[s])
  BY <1>1, <1>2 DEF TopicInv
<1>5. CASE m \in Range(log[s])
  <2>1. PICK i \in 1..Len(log[s]) : log[s][i] = m
    BY <1>2, <1>5 DEF Range
  <2>2. i <= committed[s]
    <3>1. \A a, b \in DOMAIN log[s] : a <= b => log[s][a] <= log[s][b]
      BY DEF TopicInv
    <3>2. committed[s] <= i => k <= m
      BY <1>1, <1>2, <2>1, <3>1
    <3>3. QED
      BY <1>2, <1>3, <2>1, <3>2
  <2>3. Done(s, i)
    BY <1>1, <1>2, <2>2
  <2>4. QED
    BY <1>3, <2>1, <2>3 DEF Done
<1>6. QED
  BY <1>4, <1>5 DEF Gone

LEMMA HandleRelay ==
  ASSUME TypeInv, TypeInv', RelayInv, NEW s \in Stages, Handle(s)
  PROVE  RelayInv'
<1>1. /\ Stages' = Stages /\ Last' = Last
      /\ UNCHANGED <<program, joined, pos, committed, warm, sure>>
      /\ hand' = [hand EXCEPT ![s] = {}]
  BY DEF Handle, Stages, Last, reader
<1>2. hand'[s] = {} /\ \A t \in Stages \ {s} : hand'[t] = hand[t]
  BY <1>1 DEF TypeInv, HandOK
<1>3. CASE simulateETL(s)
  <2>1. PICK k \in hand[s], n \in 0..2 :
           /\ s = 1 /\ Stages = {1, 2} /\ Last = 2 /\ k \in Sent /\ hand[s] = {k}
           /\ log'[1] = log[1]
           /\ log'[2] \in Seq(Sent) /\ Len(log'[2]) = Len(log[2]) + n
           /\ \A i \in 1..Len(log[2]) : log'[2][i] = log[2][i]
           /\ \A i \in (Len(log[2]) + 1)..(Len(log[2]) + n) : log'[2][i] = k
           /\ struck' = IF n = 0 THEN struck \cup {k} ELSE struck
           /\ UNCHANGED shown
    BY <1>3, ETLStep
  <2>2. Out(1) = log[2] /\ Out(1)' = log'[2] /\ Out(2) = shown /\ Out(2)' = shown
    BY <1>1, <2>1 DEF Out
  <2>3. log[2] \in Seq(Sent) /\ Len(log[2]) \in Nat
    BY <2>1, OneStage
  <2>4. Sent' = Sent /\ Lost \subseteq Lost' /\ (n = 0 => k \in Lost')
    BY <1>1, <2>1 DEF Sent, Lost
  <2>5. /\ Range(log[2]) \subseteq Range(log'[2]) /\ Range(log'[2]) \subseteq Range(log[2]) \cup {k}
        /\ (n # 0 => k \in Range(log'[2]))
    <3>1. DOMAIN log[2] = 1..Len(log[2]) /\ DOMAIN log'[2] = 1..(Len(log[2]) + n)
      BY <2>1, <2>3
    <3>2. n # 0 => k \in Range(log'[2])
      <4>1. n # 0 => Len(log[2]) + 1 \in (Len(log[2]) + 1)..(Len(log[2]) + n)
        BY <2>3
      <4>2. n # 0 => Len(log[2]) + 1 \in DOMAIN log'[2]
        BY <2>3, <3>1
      <4>3. QED
        BY <2>1, <4>1, <4>2 DEF Range
    <3>3. Range(log[2]) \subseteq Range(log'[2])
      <4>1. \A i \in DOMAIN log[2] : i \in DOMAIN log'[2] /\ log'[2][i] = log[2][i]
        BY <2>1, <2>3, <3>1
      <4>2. QED
        BY <4>1 DEF Range
    <3>4. Range(log'[2]) \subseteq Range(log[2]) \cup {k}
      <4>1. \A i \in DOMAIN log'[2] : \/ i \in DOMAIN log[2] /\ log'[2][i] = log[2][i]
                                     \/ log'[2][i] = k
        BY <2>1, <2>3, <3>1
      <4>2. QED
        BY <4>1 DEF Range
    <3>5. QED
      BY <3>2, <3>3, <3>4
  <2>6. StageInv(1)' /\ TopicInv(1)'
    BY <1>1, <1>2, <2>1, <2>2, <2>4, <2>5, HandedOn DEF RelayInv
  <2>7. \A x \in Range(log[2]) : x <= k
    <3>1. Ahead(1, committed[1]) /\ k = log[1][committed[1]]
      <4>1. committed[1] > 0 /\ hand[1] = {log[1][committed[1]]}
        BY <2>1 DEF RelayInv, StageInv
      <4>2. committed[1] \in committed[1]..Len(log[1])
        BY <2>1, OneStage
      <4>3. QED
        BY <2>1, <4>1, <4>2 DEF RelayInv, StageInv
    <3>2. QED
      BY <2>2, <3>1 DEF Ahead, NoneAfter, Range
  <2>8. StageInv(2)'
    <3>1. NoneAfter(2, k)
      BY <2>1, <2>2, <2>7 DEF NoneAfter, RelayInv, TopicInv, Range
    <3>2. QED
      BY <1>1, <1>2, <2>1, <2>2, <2>3, <2>4, <3>1, StageKept DEF RelayInv
  <2>9. TopicInv(2)'
    <3>1. DOMAIN log[2] = 1..Len(log[2]) /\ DOMAIN log'[2] = 1..(Len(log[2]) + n)
      BY <2>1, <2>3
    <3>2. ASSUME NEW i \in DOMAIN log'[2], NEW j \in DOMAIN log'[2], i <= j
          PROVE  log'[2][i] <= log'[2][j]
      <4>1. CASE j <= Len(log[2])
        BY <2>1, <2>3, <3>1, <3>2, <4>1 DEF RelayInv, TopicInv
      <4>2. CASE j > Len(log[2])
        <5>1. log'[2][j] = k
          BY <2>1, <2>3, <3>1, <4>2
        <5>2. log'[2][i] \in Range(log[2]) \cup {k}
          BY <2>5 DEF Range
        <5>3. QED
          BY <2>1, <2>7, <5>1, <5>2 DEF Sent
      <4>3. QED
        BY <2>3, <3>1, <4>1, <4>2
    <3>3. ASSUME NEW i \in DOMAIN log'[2], NEW m \in 1..(log'[2][i] - 1)
          PROVE  m \in Lost' \cup Range(log'[2])
      <4>1. CASE log'[2][i] = k
        <5>1. Gone(1, m)
          BY <2>1, <4>1, NonePassedOver DEF RelayInv
        <5>2. QED
          BY <2>2, <2>4, <2>5, <5>1 DEF Gone
      <4>2. CASE log'[2][i] # k
        <5>1. i \in DOMAIN log[2] /\ log'[2][i] = log[2][i]
          BY <2>1, <2>3, <3>1, <4>2
        <5>2. m \in Lost \cup Range(log[2])
          BY <2>1, <5>1 DEF RelayInv, TopicInv
        <5>3. QED
          BY <2>4, <2>5, <5>2
      <4>3. QED
        BY <4>1, <4>2
    <3>4. Range(Out(2)') \subseteq Range(log'[2])
      BY <2>1, <2>2, <2>5 DEF RelayInv, TopicInv
    <3>5. QED
      BY <3>2, <3>3, <3>4 DEF TopicInv
  <2>10. QED
    BY <1>1, <2>1, <2>6, <2>8, <2>9 DEF RelayInv
<1>4. CASE simulateConsumer(s)
  <2>1. PICK k \in hand[s] :
           /\ s = Last /\ k \in Sent /\ hand[s] = {k} /\ UNCHANGED log
           /\ \/ shown' = Append(shown, k) /\ UNCHANGED struck
              \/ struck' = struck \cup {k} /\ UNCHANGED shown
    BY <1>4, ConsumerStep
  <2>2. Out(s) = shown /\ Out(s)' = shown' /\ \A t \in Stages \ {s} : Out(t)' = Out(t)
    <3>1. \A t \in Stages \ {s} : t < Last
      BY <2>1, StageNumbers DEF Stages
    <3>2. s \in 1..2 /\ Last = s
      BY <2>1, StageNumbers
    <3>3. Out(s) = shown /\ Out(s)' = shown'
      BY <1>1, <3>2 DEF Out
    <3>4. QED
      BY <1>1, <2>1, <3>1, <3>3 DEF Out
  <2>3. Sent' = Sent /\ Lost \subseteq Lost'
    BY <1>1, <2>1 DEF Sent, Lost
  <2>4. /\ Range(shown) \subseteq Range(shown') /\ Range(shown') \subseteq Range(shown) \cup {k}
        /\ k \in Lost' \cup Range(shown')
    <3>1. shown \in Seq(Sent)
      BY DEF TypeInv, ShownOK
    <3>2. CASE shown' = Append(shown, k)
      <4>1. /\ DOMAIN shown = 1..Len(shown) /\ DOMAIN shown' = 1..(Len(shown) + 1)
            /\ Len(shown) \in Nat /\ shown'[Len(shown) + 1] = k
            /\ \A i \in 1..Len(shown) : shown'[i] = shown[i]
        BY <2>1, <3>1, <3>2
      <4>2. QED
        BY <4>1 DEF Range
    <3>3. CASE struck' = struck \cup {k} /\ UNCHANGED shown
      BY <3>3 DEF Lost
    <3>4. QED
      BY <2>1, <3>2, <3>3
  <2>5. StageInv(s)' /\ TopicInv(s)'
    BY <1>1, <1>2, <2>1, <2>2, <2>3, <2>4, HandedOn DEF RelayInv
  <2>6. ASSUME NEW t \in Stages \ {s} PROVE StageInv(t)' /\ TopicInv(t)'
    BY <1>1, <1>2, <2>1, <2>2, <2>3, TopicKept, StageSame DEF RelayInv
  <2>7. QED
    BY <1>1, <2>5, <2>6 DEF RelayInv
<1>5. QED
  BY <1>3, <1>4 DEF Handle

LEMMA NextRelay == TypeInv /\ RelayInv /\ [Next]_vars => RelayInv'
<1> SUFFICES ASSUME TypeInv, TypeInv', RelayInv, [Next]_vars PROVE RelayInv'
  BY NextTyping
<1>1. CASE Insert \/ InsertFails \/ UNCHANGED vars
  <2>1. UNCHANGED <<program, log, hand, shown, warm, sure, struck, joined, pos, committed>>
    BY <1>1 DEF Insert, InsertFails, vars, reader
  <2>2. Stages' = Stages /\ Lost' = Lost /\ \A t \in Stages : Out(t)' = Out(t)
    BY <2>1 DEF Stages, Last, Lost, Sent, Out
  <2>3. ASSUME NEW t \in Stages PROVE StageInv(t)' /\ TopicInv(t)'
    BY <2>1, <2>2, TopicKept, StageSame DEF RelayInv
  <2>4. QED
    BY <2>2, <2>3 DEF RelayInv
<1>2. QED
  BY <1>1, PublishRelay, JoinRelay, ReadRelay, HandleRelay, KillRelay DEF Next

-----------------------------------------------------------------------------
(* The abstract queue *)

\* A step of Relays is a step of the queue, or none of its business.
LEMMA StepsRefine ==
  ASSUME TypeInv, TypeInv', RelayInv, [Next]_vars
  PROVE  Promised!Next \/ UNCHANGED <<Len(log[1]), shown, Lost>>
<1>1. ASSUME UNCHANGED <<log, shown, sure>>,
             \/ struck' = struck
             \/ struck' \subseteq struck \cup Sent /\ struck \subseteq struck'
      PROVE  Promised!Next
  <2>1. Lost' \in SUBSET (1..Len(log[1])) /\ Lost \subseteq Lost'
    BY <1>1 DEF Lost, Sent, TypeInv, ShownOK
  <2>2. QED
    BY <1>1, <2>1 DEF Promised!Next, Promised!Lose, Lost
<1>2. CASE Publish
  <2>1. log[1] \in Seq(Sent) /\ log'[1] = Append(log[1], Len(log[1]) + 1)
    BY <1>2, StageNumbers DEF Publish, TypeInv, LogsOK
  <2>2. Len(log'[1]) = Len(log[1]) + 1 /\ Len(log[1]) \in Nat
    BY <2>1
  <2>3. Sent' = Sent \cup {Len(log[1]) + 1} /\ Len(log[1]) + 1 \notin Sent
    BY <2>2 DEF Sent
  <2>4. sure' \in {sure, sure \cup {Len(log[1]) + 1}} /\ UNCHANGED <<struck, shown>>
    BY <1>2, <2>2 DEF Publish
  <2>5. sure \subseteq Sent /\ struck \subseteq Sent
    BY DEF TypeInv, ShownOK
  <2>6. Lost' \in {Lost, Lost \cup {Len(log[1]) + 1}}
    BY <2>3, <2>4, <2>5 DEF Lost
  <2>7. Promised!Send
    BY <2>2, <2>4, <2>6 DEF Promised!Send, Lost
  <2>8. QED
    BY <2>7 DEF Promised!Next
<1>3. ASSUME NEW s \in Stages, Handle(s) PROVE Promised!Next \/ UNCHANGED <<Len(log[1]), shown, Lost>>
  <2>1. sure' = sure
    BY <1>3 DEF Handle
  <2>2. CASE simulateETL(s)
    <3>1. PICK k \in Sent : log'[1] = log[1] /\ struck' \in {struck, struck \cup {k}} /\ UNCHANGED shown
      BY <1>3, <2>2, ETLStep
    <3>2. Lost' \in SUBSET (1..Len(log[1])) /\ Lost \subseteq Lost'
      BY <2>1, <3>1 DEF Lost, Sent, TypeInv, ShownOK
    <3>3. QED
      BY <3>1, <3>2 DEF Promised!Next, Promised!Lose, Lost
  <2>3. CASE simulateConsumer(s)
    <3>1. PICK k \in hand[s] :
            /\ s = Last /\ k \in Sent /\ hand[s] = {k} /\ UNCHANGED log
            /\ \/ shown' = Append(shown, k) /\ UNCHANGED struck
               \/ struck' = struck \cup {k} /\ UNCHANGED shown
      BY <1>3, <2>3, ConsumerStep
    <3>2. CASE struck' = struck \cup {k} /\ UNCHANGED shown
      BY <1>1, <2>1, <3>1, <3>2
    <3>3. CASE shown' = Append(shown, k) /\ UNCHANGED struck
      <4>1. s \in 1..2 /\ Last = s
        BY <3>1, StageNumbers
      <4>2. Out(s) = shown
        BY <4>1 DEF Out
      <4>3. NoneAfter(s, k)
        <5>1. committed[s] > 0 /\ k = log[s][committed[s]]
          BY <3>1 DEF RelayInv, StageInv
        <5>2. committed[s] \in committed[s]..Len(log[s])
          BY OneStage
        <5>3. QED
          BY <5>1, <5>2 DEF RelayInv, StageInv, Ahead
      <4>4. \A m \in 1..(k - 1) : Gone(s, m)
        BY <3>1, NonePassedOver DEF RelayInv
      <4>5. /\ \A j \in DOMAIN shown : shown[j] <= k
            /\ \A m \in 1..(k - 1) : m \in Lost \/ \E j \in DOMAIN shown : shown[j] = m
        BY <4>2, <4>3, <4>4 DEF NoneAfter, Gone, Range
      <4>6. Lost' = Lost /\ Len(log'[1]) = Len(log[1])
        BY <2>1, <3>1, <3>3 DEF Lost, Sent
      <4>7. Promised!Receive(k)
        BY <3>3, <4>5, <4>6 DEF Promised!Receive, Lost
      <4>8. QED
        BY <3>1, <4>7 DEF Promised!Next, Sent
    <3>4. QED
      BY <3>1, <3>2, <3>3
  <2>4. QED
    BY <1>3, <2>2, <2>3 DEF Handle
<1>4. ASSUME NEW s \in Stages, ReadMessage(s) \/ ReadMessageFails(s) PROVE Promised!Next
  <2>1. Fetch(s)
    BY <1>4 DEF ReadMessage, ReadMessageFails
  <2>2. log[s][pos'[s]] \in Sent /\ UNCHANGED <<log, shown, sure>>
    BY <2>1, FetchTyping
  <2>3. \/ struck' = struck
        \/ struck' \subseteq struck \cup Sent /\ struck \subseteq struck'
    BY <1>4, <2>2 DEF ReadMessage, ReadMessageFails
  <2>4. QED
    BY <1>1, <2>2, <2>3
<1>5. ASSUME NEW s \in Stages, Join(s) \/ Leave(s) \/ Kill(s) PROVE Promised!Next
  BY <1>1, <1>5 DEF Join, Leave, Kill
<1>6. CASE Insert \/ InsertFails \/ UNCHANGED vars
  BY <1>1, <1>6 DEF Insert, InsertFails, vars
<1>7. QED
  BY <1>2, <1>3, <1>4, <1>5, <1>6 DEF Next

\* Whatever sessions are lost, processes killed, writes repeated and calls failed,
\* the last stage never prints or upserts a message after a later one, and passes
\* over none but those a fault struck or that came before all stages were warm.
THEOREM Implements == Spec => ImplementsLossyQueue
<1>1. Init => Promised!Init
  <2> SUFFICES ASSUME Init PROVE Promised!Init
    OBVIOUS
  <2>1. Len(log[1]) = 0
    BY StageNumbers DEF Init
  <2>2. Sent = {}
    BY <2>1 DEF Sent
  <2>3. QED
    BY <2>1, <2>2 DEF Init, Promised!Init
<1>2. Init => TypeInv /\ RelayInv
  BY InitTyping, InitRelay
<1>3. TypeInv /\ RelayInv /\ [Next]_vars => (TypeInv /\ RelayInv)'
  BY NextTyping, NextRelay
<1>4. TypeInv /\ TypeInv' /\ RelayInv /\ [Next]_vars
        => [Promised!Next]_(<<Len(log[1]), shown, struck \cup (Sent \ sure)>>)
  BY StepsRefine DEF Lost
<1>5. QED
  BY <1>1, <1>2, <1>3, <1>4, PTL DEF Spec, ImplementsLossyQueue, Promised!Spec
=============================================================================
