------------------------- MODULE AttentionPathProofs --------------------------
(***************************************************************************)
(* Proofs about the attention path and the softmax scheduler in it, for    *)
(* every row length, number of heads and lanes, and position; and about    *)
(* the bridge that finds softmaxes in a lowered graph, for every number of *)
(* layers.                                                                 *)
(***************************************************************************)
EXTENDS AttentionPath, SoftmaxPattern, SequenceTheorems, FiniteSetTheorems, Loops, TLAPS

-----------------------------------------------------------------------------
(***************************************************************************)
(* The softmax scheduler and its row core.                                 *)
(***************************************************************************)

(***************************************************************************)
(* The inductive invariant follows one row through the two automata.       *)
(***************************************************************************)

\* Slot k of head h holds its own share of this run's row.
Right(h, k) == probabilities[h][k] = Share(CausalRow(h), k)

\* A run is started while the scheduler is idle and lasts until it is again.
CallerInv ==
  /\ start => state = "IDLE"
  /\ start \/ state # "IDLE" => run \in 1 .. Runs

\* A row is started at its first key.
StartedInv == state = "START" => key = 0

\* The scores sent so far are this row's, and in the core's memory.
LoadInv ==
  state = "SEND" =>
    /\ key <= position
    /\ \A i \in Slot : i < key => scoreMem[i] = Score(run, head, i)

\* The core offers the share of the index before the one it shows, or, while
\* it is being acknowledged, the share of that index.
OfferInv ==
  /\ ack => state = "WAIT" /\ outValid
  /\ outValid => state \in {"WAIT", "FINAL"}
  /\ state = "WAIT" =>
       /\ rowPosition = position
       /\ expMem = CausalRow(head)
       /\ outIndex <= position
       /\ ~outValid => outIndex = 0
       /\ outValid => outProbability =
            Share(expMem, IF ack \/ outIndex = 0 THEN outIndex ELSE outIndex - 1)
  /\ state = "FINAL" => outProbability = Share(CausalRow(head), position)

\* The slots of the row under way that are already right.
CollectedInv ==
  /\ state = "WAIT" =>
       \A k \in Slot : k + 1 < outIndex \/ (ack /\ k < outIndex) => Right(head, k)
  /\ state = "FINAL" => \A k \in Slot : k < position => Right(head, k)

\* All rows before it are right.
EarlierInv ==
  state # "IDLE" =>
    \A h \in HeadId : \A k \in Slot : h < head /\ k <= position => Right(h, k)

\* After done all rows are.
AllInv == done => \A h \in HeadId : \A k \in Slot : k <= position => Right(h, k)

IInv ==
  /\ TypeOK
  /\ CoreInLockstep
  /\ CallerInv
  /\ StartedInv
  /\ LoadInv
  /\ OfferInv
  /\ CollectedInv
  /\ EarlierInv
  /\ AllInv

-----------------------------------------------------------------------------
(* Rows and shares. *)

\* The caller's scores are scores.
LEMMA ScoreType ==
  ASSUME NEW r \in 1 .. Runs, NEW h \in HeadId, NEW k \in Slot
  PROVE  Score(r, h, k) \in Scores
BY DEF Score, Scores

\* A causal row is a row.
LEMMA RowType ==
  ASSUME NEW given \in [Slot -> Scores], NEW last \in Slot
  PROVE  RowOf(given, last) \in [Slot -> Scores]
BY DEF RowOf, Scores

\* The shares of a row are shares.
LEMMA ShareType ==
  ASSUME NEW row \in [Slot -> Scores], NEW i \in Slot
  PROVE  Share(row, i) \in Shares
BY DEF Share, Shares

\* So is the empty row a reset leaves.
LEMMA NoShareType == NoShare \in Shares /\ Blank \in Scores
BY DEF NoShare, Shares, Scores

\* A row only depends on the scores up to its last.
LEMMA RowExtensional ==
  ASSUME NEW f, NEW g, NEW last \in Slot,
         \A i \in Slot : i <= last => f[i] = g[i]
  PROVE  RowOf(f, last) = RowOf(g, last)
BY DEF RowOf

\* The row of this run does not change while the caller holds its run.
LEMMA RowStable ==
  ASSUME UNCHANGED <<position, run>>, NEW h
  PROVE  CausalRow(h)' = CausalRow(h)
BY DEF CausalRow, RowOf, Score

-----------------------------------------------------------------------------
(* The invariant holds after a reset and is kept by every edge. *)

\* After power-on nothing is loaded, offered or done.
LEMMA InitIInv == Init => IInv
<1> SUFFICES ASSUME Init PROVE IInv
  OBVIOUS
<1> USE DEF Init, CoreInit, CoreReset
<1>1. 0 \in Slot /\ 0 \in HeadId
  BY TMaxAssumption, HeadsAssumption DEF Slot, HeadId
<1>2. TypeOK
  <2>1. 0 \in 0 .. Runs
    BY RunsAssumption
  <2>2. [i \in Slot |-> Blank] \in [Slot -> Scores]
    BY NoShareType
  <2> QED
    BY <1>1, <2>1, <2>2, NoShareType DEF TypeOK, NoProbabilities
<1> QED
  BY <1>1, <1>2 DEF IInv, CoreInLockstep, CallerInv, StartedInv, LoadInv, OfferInv, CollectedInv,
     EarlierInv, AllInv

\* A reset in any state.
LEMMA ResetIInv == IInv /\ Reset => IInv'
<1> SUFFICES ASSUME IInv, Reset PROVE IInv'
  OBVIOUS
<1> USE DEF Reset, ResetScheduler, ResetCore, CoreReset, Hold
<1>1. 0 \in Slot /\ 0 \in HeadId
  BY TMaxAssumption, HeadsAssumption DEF Slot, HeadId
<1>2. TypeOK'
  BY <1>1, NoShareType DEF IInv, TypeOK, NoProbabilities
<1> QED
  BY <1>1, <1>2 DEF IInv, CoreInLockstep, CallerInv, StartedInv, LoadInv, OfferInv, CollectedInv,
     EarlierInv, AllInv

\* An edge of an idle scheduler, on which the caller may present or
\* start a run.
LEMMA IdleIInv ==
  ASSUME IInv, Edge, Idle, Hold \/ Launch \/ \E p \in Slot : Present(p)
  PROVE  IInv'
<1>1. CoreRest(CoreStarting, CoreOffered)
  BY DEF IInv, CoreInLockstep, Idle, Edge, CoreEdge, CoreStart, CoreLoad, CoreOut,
     CoreStarting
<1>2. 0 \in Slot /\ 0 \in HeadId
  BY TMaxAssumption, HeadsAssumption DEF Slot, HeadId
<1>3. run' \in 0 .. Runs /\ position' \in Slot
  BY RunsAssumption DEF IInv, TypeOK, Hold, Launch, Present
<1>4. TypeOK'
  BY <1>1, <1>2, <1>3 DEF IInv, TypeOK, CoreRest, Idle, Hold, Launch, Present
<1>5. CallerInv'
  BY RunsAssumption DEF IInv, TypeOK, CallerInv, Idle, Hold, Launch, Present
<1>6. CoreInLockstep'
  BY <1>1 DEF IInv, CoreInLockstep, CoreRest, Idle
<1>7. EarlierInv'
  BY DEF Idle, EarlierInv, HeadId
<1> QED
  BY <1>1, <1>4, <1>5, <1>6, <1>7 DEF IInv, Idle, CoreRest, StartedInv, LoadInv, OfferInv,
     CollectedInv, AllInv

\* The first edge of a row: the core latches the position.
LEMMA StartIInv == ASSUME IInv, Edge, Hold, StartRow PROVE IInv'
<1>1. CoreStart(CoreStarting, position)
  BY DEF IInv, CoreInLockstep, StartRow, Edge, CoreEdge, CoreRest, CoreLoad, CoreOut,
     CoreStarting
<1>2. TypeOK'
  <2>1. 0 \in Slot
    BY TMaxAssumption DEF Slot
  <2> QED
    BY <1>1, <2>1 DEF IInv, TypeOK, CoreStart, StartRow, Hold
<1>3. key = 0
  BY DEF IInv, StartedInv, StartRow
<1>4. CoreInLockstep' /\ LoadInv'
  BY <1>1, <1>3 DEF IInv, TypeOK, CoreInLockstep, LoadInv, CoreStart, StartRow, Hold, Slot
<1>5. \A h \in HeadId, k \in Slot : Right(h, k)' = Right(h, k)
  BY RowStable DEF Right, StartRow, Hold
<1> QED
  BY <1>1, <1>2, <1>4, <1>5 DEF IInv, StartedInv, StartRow, CoreStart, Hold, CallerInv,
     OfferInv, CollectedInv, EarlierInv, AllInv

\* An edge that sends a score.  With the last one the core has the whole row.
LEMMA SendIInv == ASSUME IInv, Edge, Hold, SendScore PROVE IInv'
<1>1. /\ coreState = "LOAD" /\ count = key /\ rowPosition = position
      /\ key \in Slot /\ position \in Slot /\ key <= position
      /\ run \in 1 .. Runs /\ head \in HeadId /\ ~outValid /\ ~ack
  BY DEF IInv, TypeOK, CoreInLockstep, CallerInv, LoadInv, OfferInv, SendScore
<1>2. CoreLoad(CoreOffered, Score(run, head, key))
  BY <1>1 DEF Edge, CoreEdge, CoreRest, CoreStart, CoreOut, CoreOffered, InReady,
     SendScore
<1>3. scoreMem \in [Slot -> Scores] /\ scoreMem' = [scoreMem EXCEPT ![key] = Score(run, head, key)]
  BY <1>1, <1>2 DEF IInv, TypeOK, CoreLoad
<1>4. /\ scoreMem' \in [Slot -> Scores]
      /\ \A i \in Slot : i <= key => scoreMem'[i] = Score(run, head, i)
  <2>1. scoreMem' \in [Slot -> Scores]
    BY <1>1, <1>3, ScoreType
  <2>2. ASSUME NEW i \in Slot, i < key PROVE scoreMem'[i] = Score(run, head, i)
    <3>1. scoreMem[i] = Score(run, head, i)
      BY <2>2 DEF IInv, LoadInv, SendScore
    <3> QED
      BY <1>3, <2>2, <3>1 DEF Slot
  <2>3. scoreMem'[key] = Score(run, head, key)
    BY <1>1, <1>3
  <2> QED
    BY <1>1, <2>1, <2>2, <2>3 DEF Slot
<1>5. \A h \in HeadId, k \in Slot : Right(h, k)' = Right(h, k)
  BY RowStable DEF Right, SendScore, Hold
<1>6. CASE key = position
  <2>1. /\ state' = "WAIT" /\ key' = 0 /\ coreState' = "OUT" /\ outIndex' = 0
        /\ expMem' = RowOf(scoreMem', position) /\ outValid' = FALSE /\ ack' = FALSE
        /\ count' = count
    BY <1>1, <1>2, <1>6 DEF SendScore, CoreLoad, LastScore, InReady
  <2>2. 0 \in Slot
    BY TMaxAssumption DEF Slot
  <2>3. expMem' \in [Slot -> Scores]
    BY <1>1, <1>4, <2>1, RowType
  <2>4. TypeOK'
    BY <1>1, <1>2, <1>4, <2>1, <2>2, <2>3 DEF IInv, TypeOK, SendScore, CoreLoad, Hold
  <2>5. expMem' = CausalRow(head)'
    <3>1. \A i \in Slot : i <= position => scoreMem'[i] = [j \in Slot |-> Score(run, head, j)][i]
      BY <1>4, <1>6
    <3>2. RowOf(scoreMem', position) = CausalRow(head)
      BY <1>1, <3>1, RowExtensional DEF CausalRow
    <3> QED
      BY <2>1, <3>2, RowStable DEF SendScore, Hold
  <2>6. OfferInv'
    BY <1>1, <1>2, <2>1, <2>5 DEF OfferInv, Hold, CoreLoad, Slot
  <2>7. CollectedInv'
    BY <2>1 DEF CollectedInv, Slot
  <2> QED
    BY <1>1, <1>2, <1>5, <2>1, <2>4, <2>6, <2>7 DEF IInv, CoreInLockstep, CallerInv, StartedInv,
       LoadInv, EarlierInv, AllInv, SendScore, Hold
<1>7. CASE key # position
  <2>1. key < position /\ count # TMax - 1 /\ key + 1 \in Slot
    BY <1>1, <1>7, TMaxAssumption DEF Slot
  <2>2. /\ state' = "SEND" /\ key' = key + 1 /\ coreState' = "LOAD" /\ count' = count + 1
        /\ UNCHANGED <<expMem, outIndex, rowPosition, outProbability>>
        /\ outValid' = FALSE /\ ack' = FALSE
    BY <1>1, <1>2, <1>7, <2>1 DEF SendScore, CoreLoad, LastScore, InReady
  <2>3. TypeOK'
    BY <1>1, <1>4, <2>1, <2>2 DEF IInv, TypeOK, SendScore, Hold
  <2>4. LoadInv'
    BY <1>1, <1>4, <2>1, <2>2 DEF LoadInv, SendScore, Hold, Slot, Score
  <2> QED
    BY <1>1, <1>5, <2>2, <2>3, <2>4 DEF IInv, CoreInLockstep, CallerInv, StartedInv,
       OfferInv, CollectedInv, EarlierInv, AllInv, SendScore, Hold
<1> QED
  BY <1>6, <1>7

\* What holds at every edge of a waiting scheduler: the core offers.
LEMMA WaitingEdge ==
  ASSUME IInv, Edge, state = "WAIT"
  PROVE  /\ CoreOut(ack)
         /\ rowPosition = position /\ expMem = CausalRow(head)
         /\ outIndex \in Slot /\ position \in Slot /\ outIndex <= position
         /\ head \in HeadId /\ run \in 1 .. Runs
         /\ outProbability' \in Shares
<1>1. CoreOut(ack)
  BY DEF IInv, CoreInLockstep, Edge, CoreEdge, CoreRest, CoreStart, CoreLoad
<1>2. expMem \in [Slot -> Scores] /\ outIndex \in Slot
  BY DEF IInv, TypeOK
<1>3. outProbability' \in Shares
  BY <1>1, <1>2, ShareType DEF CoreOut
<1> QED
  BY <1>1, <1>2, <1>3 DEF IInv, TypeOK, OfferInv, CallerInv

\* An edge on which the core has nothing to offer yet.
LEMMA AwaitIInv == ASSUME IInv, Edge, Hold, AwaitProbability PROVE IInv'
<1>1. outIndex = 0 /\ 0 \in Slot
  BY TMaxAssumption DEF IInv, OfferInv, AwaitProbability, Slot
<1>2. TypeOK'
  BY WaitingEdge DEF IInv, TypeOK, AwaitProbability, CoreOut, Hold
<1>3. CausalRow(head)' = CausalRow(head)
  BY RowStable DEF AwaitProbability, Hold
<1>4. OfferInv'
  BY WaitingEdge, <1>1, <1>3 DEF AwaitProbability, CoreOut, OfferInv, Hold
<1>5. \A h \in HeadId, k \in Slot : Right(h, k)' = Right(h, k)
  BY RowStable DEF Right, AwaitProbability, Hold
<1> QED
  BY WaitingEdge, <1>1, <1>2, <1>4, <1>5 DEF IInv, CoreInLockstep, CallerInv, StartedInv, LoadInv,
     CollectedInv, EarlierInv, AllInv, AwaitProbability, CoreOut, Hold, Slot

\* An edge that files a probability: it belongs to the slot before the index.
LEMMA CollectIInv == ASSUME IInv, Edge, Hold, Collect PROVE IInv'
<1>1. state = "WAIT" /\ outValid /\ ~ack
  BY DEF Collect
<1>2. PICK slot \in Slot :
        /\ slot = IF outIndex = 0 THEN 0 ELSE outIndex - 1
        /\ outProbability = Share(expMem, slot)
        /\ probabilities' = [probabilities EXCEPT ![head][slot] = outProbability]
  <2>1. (IF outIndex = 0 THEN 0 ELSE outIndex - 1) \in Slot
    BY <1>1, WaitingEdge, TMaxAssumption DEF Slot
  <2>2. outProbability = Share(expMem, IF outIndex = 0 THEN 0 ELSE outIndex - 1)
    BY <1>1 DEF IInv, OfferInv
  <2>3. /\ Cell(head, outIndex)[1] = head
        /\ Cell(head, outIndex)[2] = IF outIndex = 0 THEN 0 ELSE outIndex - 1
    BY DEF Cell
  <2>4. probabilities' = [probabilities EXCEPT
          ![Cell(head, outIndex)[1]][Cell(head, outIndex)[2]] = outProbability]
    BY DEF Collect
  <2> QED
    BY <2>1, <2>2, <2>3, <2>4
<1>3. probabilities \in [HeadId -> [Slot -> Shares]] /\ outProbability \in Shares
  BY DEF IInv, TypeOK
<1>4. TypeOK'
  <2>1. probabilities' \in [HeadId -> [Slot -> Shares]]
    BY <1>1, <1>2, <1>3, WaitingEdge
  <2> QED
    BY <1>1, <2>1, WaitingEdge DEF IInv, TypeOK, Collect, CoreOut, Hold
<1>5. \A h : CausalRow(h)' = CausalRow(h)
  BY RowStable DEF Hold
<1>6. OfferInv'
  BY WaitingEdge, <1>1, <1>5 DEF Collect, CoreOut, OfferInv, Hold
<1>7. Right(head, slot)'
  BY WaitingEdge, <1>1, <1>2, <1>3, <1>5 DEF Right, Collect
<1>8. \A h \in HeadId, k \in Slot : h # head \/ k # slot => Right(h, k)' = Right(h, k)
  BY WaitingEdge, <1>1, <1>2, <1>3, <1>5 DEF Right, Collect
<1>9. CollectedInv'
  <2>1. state' = "WAIT" /\ ack' /\ UNCHANGED <<head, outIndex>>
    BY WaitingEdge, <1>1 DEF Collect, CoreOut
  <2>2. ASSUME NEW k \in Slot, k < outIndex PROVE Right(head, k)'
    <3>1. CASE k = slot
      BY <1>7, <3>1
    <3>2. CASE k # slot
      <4>1. k + 1 < outIndex
        BY WaitingEdge, <1>1, <1>2, <2>2, <3>2 DEF Slot
      <4>2. Right(head, k)
        BY <1>1, <4>1 DEF IInv, CollectedInv
      <4> QED
        BY WaitingEdge, <1>1, <1>8, <2>1, <3>2, <4>2
    <3> QED
      BY <3>1, <3>2
  <2>3. \A k \in Slot : k + 1 < outIndex => k < outIndex
    BY WaitingEdge, <1>1 DEF Slot
  <2> QED
    BY <2>1, <2>2, <2>3 DEF CollectedInv
<1>10. EarlierInv'
  BY WaitingEdge, <1>1, <1>8 DEF IInv, EarlierInv, Collect, Hold, HeadId
<1> QED
  BY WaitingEdge, <1>1, <1>4, <1>6, <1>9, <1>10 DEF IInv, CoreInLockstep, CallerInv, StartedInv,
     LoadInv, AllInv, Collect, CoreOut, Hold

\* An edge that acknowledges: the core moves on, or the row is over and its
\* last probability is on the way.
LEMMA AcknowledgeIInv == ASSUME IInv, Edge, Hold, Acknowledge PROVE IInv'
<1>1. state = "WAIT" /\ outValid /\ ack /\ outProbability = Share(expMem, outIndex)
  BY DEF IInv, OfferInv, Acknowledge
<1>2. outProbability' = Share(CausalRow(head), outIndex)
  BY <1>1, WaitingEdge DEF CoreOut
<1>3. \A h : CausalRow(h)' = CausalRow(h)
  BY RowStable DEF Hold
<1>4. \A h \in HeadId, k \in Slot : Right(h, k)' = Right(h, k)
  BY <1>3 DEF Right, Acknowledge
<1>5. \A k \in Slot : k < outIndex => Right(head, k)'
  BY <1>1, <1>4, WaitingEdge DEF IInv, CollectedInv, Acknowledge
<1>6. CASE outIndex = position
  <2>1. state' = "FINAL" /\ coreState' = "IDLE" /\ ~ack' /\ UNCHANGED outIndex
    BY WaitingEdge, <1>1, <1>6 DEF Acknowledge, RowOver, CoreOut
  <2>2. TypeOK'
    BY WaitingEdge, <2>1 DEF IInv, TypeOK, Acknowledge, CoreOut, Hold
  <2>3. OfferInv'
    BY WaitingEdge, <1>2, <1>3, <1>6, <2>1 DEF OfferInv, Acknowledge, Hold
  <2>4. CollectedInv'
    BY <1>5, <1>6, <2>1 DEF CollectedInv, Acknowledge, Hold
  <2> QED
    BY WaitingEdge, <1>1, <1>4, <2>1, <2>2, <2>3, <2>4 DEF IInv, CoreInLockstep, CallerInv,
       StartedInv, LoadInv, EarlierInv, AllInv, Acknowledge, Hold
<1>7. CASE outIndex # position
  <2>1. /\ outIndex' = outIndex + 1 /\ outIndex' \in Slot /\ outIndex' <= position
        /\ state' = "WAIT" /\ ~ack' /\ UNCHANGED coreState
    <3>1. /\ outIndex' = outIndex + 1 /\ state' = "WAIT" /\ ~ack'
          /\ UNCHANGED coreState
      BY WaitingEdge, <1>1, <1>7 DEF Acknowledge, RowOver, CoreOut
    <3> QED
      BY WaitingEdge, <1>1, <1>7, <3>1, TMaxAssumption DEF Slot
  <2>2. TypeOK'
    BY WaitingEdge, <1>1, <1>7, <2>1 DEF IInv, TypeOK, Acknowledge, CoreOut, Hold
  <2>3. OfferInv'
    BY WaitingEdge, <1>1, <1>2, <1>3, <1>7, <2>1 DEF OfferInv, Acknowledge, CoreOut, Hold, Slot
  <2>4. CollectedInv'
    BY WaitingEdge, <1>5, <2>1 DEF CollectedInv, Acknowledge, Slot
  <2> QED
    BY WaitingEdge, <1>1, <1>4, <1>7, <2>1, <2>2, <2>3, <2>4 DEF IInv, CoreInLockstep, CallerInv,
       StartedInv, LoadInv, EarlierInv, AllInv, Acknowledge, CoreOut, Hold
<1> QED
  BY <1>6, <1>7

\* The edge that files the last probability of a row, and goes on to the next
\* row or reports done.
LEMMA FinalIInv == ASSUME IInv, Edge, Hold, FinalProbability PROVE IInv'
<1>1. state = "FINAL" /\ coreState = "IDLE" /\ ~ack
      /\ outProbability = Share(CausalRow(head), position)
  BY DEF IInv, CoreInLockstep, OfferInv, FinalProbability
<1>2. CoreRest(CoreStarting, CoreOffered)
  BY <1>1 DEF Edge, CoreEdge, CoreStart, CoreLoad, CoreOut, CoreStarting
<1>3. /\ head \in HeadId /\ position \in Slot /\ run \in 1 .. Runs
      /\ probabilities \in [HeadId -> [Slot -> Shares]] /\ outProbability \in Shares
  BY <1>1 DEF IInv, TypeOK, CallerInv
<1>4. probabilities' = [probabilities EXCEPT ![head][position] = outProbability]
  BY DEF FinalProbability
<1>5. probabilities' \in [HeadId -> [Slot -> Shares]]
  BY <1>3, <1>4
<1>6. \A h : CausalRow(h)' = CausalRow(h)
  BY RowStable DEF Hold
<1>7. \A h \in HeadId, k \in Slot : h <= head /\ k <= position => Right(h, k)'
  <2> SUFFICES ASSUME NEW h \in HeadId, NEW k \in Slot, h <= head, k <= position
               PROVE  probabilities'[h][k] = Share(CausalRow(h), k)
    BY <1>6 DEF Right
  <2>1. CASE h = head /\ k = position
    BY <1>1, <1>3, <1>4, <2>1
  <2>2. CASE ~(h = head /\ k = position)
    <3>1. probabilities'[h][k] = probabilities[h][k]
      BY <1>3, <1>4, <2>2
    <3>2. h < head \/ (h = head /\ k < position)
      BY <1>3, <2>2 DEF HeadId, Slot
    <3>3. Right(h, k)
      BY <1>1, <3>2 DEF IInv, EarlierInv, CollectedInv
    <3> QED
      BY <3>1, <3>3 DEF Right
  <2> QED
    BY <2>1, <2>2
<1>8. CASE LastHead
  <2>1. done' /\ state' = "IDLE" /\ UNCHANGED <<head, key>>
    BY <1>8 DEF FinalProbability
  <2>2. TypeOK'
    BY <1>1, <1>2, <1>5, <2>1 DEF IInv, TypeOK, FinalProbability, CoreRest, Hold
  <2>3. \A h \in HeadId : h <= head
    BY <1>3, <1>8, HeadsAssumption DEF LastHead, HeadId
  <2>4. AllInv'
    BY <1>7, <2>3 DEF AllInv, Hold
  <2> QED
    BY <1>1, <1>2, <2>1, <2>2, <2>4 DEF IInv, CoreInLockstep, CallerInv, StartedInv, LoadInv,
       OfferInv, CollectedInv, EarlierInv, FinalProbability, CoreRest, Hold
<1>9. CASE ~LastHead
  <2>1. head' = head + 1 /\ key' = 0 /\ state' = "START" /\ ~done'
    BY <1>9 DEF FinalProbability, NextRow
  <2>2. head' \in HeadId /\ 0 \in Slot
    BY <1>3, <1>9, <2>1, HeadsAssumption, TMaxAssumption DEF LastHead, HeadId, Slot
  <2>3. TypeOK'
    BY <1>1, <1>2, <1>5, <2>1, <2>2 DEF IInv, TypeOK, FinalProbability, CoreRest, Hold
  <2>4. EarlierInv'
    BY <1>3, <1>7, <2>1 DEF EarlierInv, Hold, HeadId
  <2> QED
    BY <1>1, <1>2, <1>3, <2>1, <2>3, <2>4 DEF IInv, CoreInLockstep, CallerInv, StartedInv,
       LoadInv, OfferInv, CollectedInv, AllInv, FinalProbability, CoreRest, Hold
<1> QED
  BY <1>8, <1>9

\* Every edge and every reset keeps the invariant.
LEMMA NextIInv == IInv /\ [Next]_vars => IInv'
<1> SUFFICES ASSUME IInv, [Next]_vars PROVE IInv'
  OBVIOUS
<1>1. CASE Reset
  BY <1>1, ResetIInv
<1>2. ASSUME Edge, Hold \/ Launch \/ \E p \in Slot : Present(p) PROVE IInv'
  <2>1. CASE Idle
    BY <1>2, <2>1, IdleIInv
  <2>2. CASE state # "IDLE"
    <3>1. Hold
      BY <1>2, <2>2 DEF Launch, Present
    <3> QED
      BY <1>2, <2>2, <3>1, StartIInv, SendIInv, AwaitIInv, CollectIInv, AcknowledgeIInv,
         FinalIInv DEF Edge, Scheduler, Idle
  <2> QED
    BY <1>2, <2>1, <2>2 DEF Edge, Scheduler, StartRow, SendScore, Collect, Acknowledge,
       AwaitProbability, FinalProbability
<1>3. CASE UNCHANGED vars
  <2>1. \A h : CausalRow(h)' = CausalRow(h)
    BY <1>3, RowStable DEF vars, caller
  <2>2. \A h, k : Right(h, k)' = Right(h, k)
    BY <1>3, <2>1 DEF Right, vars, schedulerRegs
  <2> QED
    BY <1>3, <2>1, <2>2 DEF vars, coreRegs, schedulerRegs, caller, IInv, TypeOK, CoreInLockstep,
       CallerInv, StartedInv, LoadInv, OfferInv, CollectedInv, EarlierInv, AllInv
<1> QED
  BY <1>1, <1>2, <1>3 DEF Next, Run

-----------------------------------------------------------------------------
(* The theorems. *)

\* The scheduler's and the core's registers always satisfy the invariant.
LEMMA InductiveInvariant == Spec => []IInv
BY InitIInv, NextIInv, PTL DEF Spec

\* Every register keeps its type: no index ever leaves its row or its heads.
THEOREM TypeCorrect == Spec => []TypeOK
<1>1. IInv => TypeOK
  BY DEF IInv
<1> QED
  BY <1>1, InductiveInvariant, PTL

\* When the scheduler reports done, every causal slot of every head holds its
\* own share of its own row, whatever was left by earlier runs and resets; and
\* the core is idle whenever it is started and counts the scores it is sent:
\* neither automaton loses a pulse of the other.
THEOREM RowsComeOutRight == Spec => []SoftmaxIsRight
<1>1. IInv => RowsAreRight
  <2> SUFFICES ASSUME IInv, done, NEW h \in HeadId, NEW k \in 0 .. position
               PROVE  Right(h, k)
    BY DEF RowsAreRight, Right
  <2>1. position \in Slot
    BY DEF IInv, TypeOK
  <2>2. k \in Slot /\ k <= position
    BY <2>1, TMaxAssumption DEF Slot
  <2> QED
    BY <2>2 DEF IInv, AllInv
<1>2. IInv => SoftmaxIsRight
  BY <1>1 DEF IInv, SoftmaxIsRight
<1> QED
  BY <1>2, InductiveInvariant, PTL

\* No edge writes into a row that is finished.
THEOREM LaterRowsKeepOut == Spec => FinishedRowsKept
<1>1. ASSUME IInv, Next, state # "IDLE", ~(state' = "IDLE" /\ ~done'),
             NEW h \in 0 .. head - 1
      PROVE  probabilities'[h] = probabilities[h]
  <2>1. h # head /\ head \in HeadId /\ probabilities \in [HeadId -> [Slot -> Shares]]
    BY <1>1 DEF IInv, TypeOK, HeadId
  <2>2. Scheduler
    BY <1>1 DEF Next, Run, Reset, ResetScheduler, Edge
  <2>3. CASE UNCHANGED probabilities
    BY <2>3
  <2>4. CASE Collect
    <3>1. Cell(head, outIndex)[1] = head
      BY DEF Cell
    <3>2. probabilities' = [probabilities EXCEPT
            ![Cell(head, outIndex)[1]][Cell(head, outIndex)[2]] = outProbability]
      BY <2>4 DEF Collect
    <3> QED
      BY <2>1, <3>1, <3>2
  <2>5. CASE FinalProbability
    BY <2>1, <2>5 DEF FinalProbability
  <2> QED
    BY <2>2, <2>3, <2>4, <2>5 DEF Scheduler, Idle, StartRow, SendScore, Acknowledge,
       AwaitProbability
<1>2. IInv /\ [Next]_vars =>
        [state # "IDLE" /\ ~(state' = "IDLE" /\ ~done') =>
           \A h \in 0 .. head - 1 : UNCHANGED probabilities[h]]_vars
  BY <1>1
<1> QED
  BY <1>2, InductiveInvariant, PTL DEF Spec, FinishedRowsKept

-----------------------------------------------------------------------------
(***************************************************************************)
(* The attention path: the scheduler between its two kernels.              *)
(***************************************************************************)

(***************************************************************************)
(* The pulses: at most one stage is being started, at work or done, and    *)
(* it is the controller's.                                                 *)
(***************************************************************************)

HostInv ==
  /\ attnStart \/ attnDone => attnState = "IDLE"
  /\ attnStart \/ attnState # "IDLE" => run \in 1 .. Runs

ScorePulse ==
  /\ scoreStart => attnState = "SCORE" /\ score.state = "IDLE" /\ ~score.done
  /\ score.state # "IDLE" => attnState = "SCORE" /\ ~score.done
  /\ score.done => attnState = "SCORE"

SoftmaxPulse ==
  /\ start => attnState = "SOFT" /\ ~done
  /\ state # "IDLE" => attnState = "SOFT" /\ ~done
  /\ done => attnState = "SOFT"

ContextPulse ==
  /\ contextStart => attnState = "CTX" /\ ctx.state = "IDLE" /\ ~ctx.done
  /\ ctx.state # "IDLE" => attnState = "CTX" /\ ~ctx.done
  /\ ctx.done => attnState = "CTX"

(***************************************************************************)
(* The data: what each stage has finished is this run's.                   *)
(***************************************************************************)

RightScore(h, k) == k <= position => scores[h][k] = Score(run, h, k)
ScoresBefore(h, k) ==
  \A i \in HeadId, j \in Slot : i < h \/ (i = h /\ j < k) => RightScore(i, j)
AllScores == \A i \in HeadId, j \in Slot : RightScore(i, j)

\* The first n products of a query and a key.
ScoreSum(h, k, n) == [i \in 1 .. n |-> Factors(run, h, k, i - 1)]

ScoreInv ==
  /\ score.state = "MAC" =>
       /\ score.accum = ScoreSum(score.head, score.key, score.dim)
       /\ ScoresBefore(score.head, score.key)
  /\ score.state = "EMIT" =>
       /\ score.accum = ScoreSum(score.head, score.key, HD)
       /\ ScoresBefore(score.head, score.key)
  /\ score.done \/ attnState \in {"SOFT", "CTX"} => AllScores

AllRows == \A h \in HeadId : \A k \in Slot : k <= position => Right(h, k)

\* The shares of the first n keys in a context.
ContextSum(h, d, n) == [i \in 1 .. n |-> <<Share(CausalRow(h), i - 1), Factors(run, h, i - 1, d)>>]
RightContext(h, d) == context[h][d] = ContextSum(h, d, position + 1)
ContextBefore(h, d) ==
  \A i \in HeadId, e \in Dim : i < h \/ (i = h /\ e < d) => RightContext(i, e)
AllContext == \A i \in HeadId, e \in Dim : RightContext(i, e)

\* The causal keys among the first k.
CausalKeys(k) == IF k <= position THEN k ELSE position + 1

ContextInv ==
  /\ attnState = "CTX" => AllRows
  /\ ctx.state = "REDUCE" =>
       /\ ctx.accum = ContextSum(ctx.head, ctx.dim, CausalKeys(ctx.key))
       /\ ContextBefore(ctx.head, ctx.dim)
  /\ ctx.state = "EMIT" =>
       /\ ctx.accum = ContextSum(ctx.head, ctx.dim, position + 1)
       /\ ContextBefore(ctx.head, ctx.dim)
  /\ ctx.done \/ attnDone => AllContext

PathInv ==
  /\ AttentionTypeOK
  /\ HostInv
  /\ ScorePulse
  /\ SoftmaxPulse
  /\ ContextPulse
  /\ ScoreInv
  /\ ContextInv

-----------------------------------------------------------------------------
(* Lemmas about data. *)

\* Appending the next element of a row of values continues the row.
LEMMA AppendNext ==
  ASSUME NEW S, NEW n \in Nat, NEW f, NEW s \in Seq(S), NEW e \in S,
         s = [i \in 1 .. n |-> f[i]], e = f[n + 1]
  PROVE  Append(s, e) = [i \in 1 .. n + 1 |-> f[i]]
<1>1. Len(s) = n
  OBVIOUS
<1>2. /\ Append(s, e) \in Seq(S) /\ Len(Append(s, e)) = n + 1
      /\ \A i \in 1 .. n : Append(s, e)[i] = f[i]
      /\ Append(s, e)[n + 1] = f[n + 1]
  BY <1>1
<1>3. \A i \in 1 .. n + 1 : Append(s, e)[i] = f[i]
  BY <1>2
<1> QED
  BY <1>2, <1>3

\* The first element after a key in a row, and the row's wrap.
LEMMA NextKey ==
  ASSUME NEW k \in Slot
  PROVE  /\ (k + 1) % TMax \in Slot
         /\ k # TMax - 1 => (k + 1) % TMax = k + 1
BY TMaxAssumption DEF Slot

\* The row core only looks at a score that is offered to it.
LEMMA OnlyOfferedScores ==
  ASSUME NEW starting, NEW p, NEW offered, NEW x, NEW y, NEW accepted,
         CoreEdge(starting, p, offered, x, accepted), offered => x = y
  PROVE  CoreEdge(starting, p, offered, y, accepted)
BY DEF CoreEdge, CoreLoad

\* One more product of a score, and one more share of a context.
LEMMA ScoreSumGrows ==
  ASSUME NEW h, NEW k, NEW n \in Nat,
         ScoreSum(h, k, n) \in Seq(Products), Factors(run, h, k, n) \in Products
  PROVE  Append(ScoreSum(h, k, n), Factors(run, h, k, n)) = ScoreSum(h, k, n + 1)
<1> DEFINE f == [i \in 1 .. n + 1 |-> Factors(run, h, k, i - 1)]
<1>1. ScoreSum(h, k, n) = [i \in 1 .. n |-> f[i]] /\ ScoreSum(h, k, n + 1) = f
  BY DEF ScoreSum
<1>2. Factors(run, h, k, n) = f[n + 1]
  OBVIOUS
<1>3. f = [i \in 1 .. n + 1 |-> f[i]]
  OBVIOUS
<1> HIDE DEF f
<1> QED
  BY <1>1, <1>2, <1>3, AppendNext

LEMMA ContextSumGrows ==
  ASSUME NEW h, NEW d, NEW n \in Nat,
         ContextSum(h, d, n) \in Seq(Shares \X Products),
         <<Share(CausalRow(h), n), Factors(run, h, n, d)>> \in Shares \X Products
  PROVE  Append(ContextSum(h, d, n), <<Share(CausalRow(h), n), Factors(run, h, n, d)>>)
           = ContextSum(h, d, n + 1)
<1> DEFINE f == [i \in 1 .. n + 1 |-> <<Share(CausalRow(h), i - 1), Factors(run, h, i - 1, d)>>]
           e == <<Share(CausalRow(h), n), Factors(run, h, n, d)>>
           S == Shares \X Products
<1>1. ContextSum(h, d, n) = [i \in 1 .. n |-> f[i]] /\ ContextSum(h, d, n + 1) = f
  BY DEF ContextSum
<1>2. e = f[n + 1]
  <2>1. n + 1 \in 1 .. n + 1 /\ (n + 1) - 1 = n
    OBVIOUS
  <2> QED
    BY <2>1
<1>3. f = [i \in 1 .. n + 1 |-> f[i]]
  OBVIOUS
<1>4. ContextSum(h, d, n) \in Seq(S) /\ e \in S
  OBVIOUS
<1> HIDE DEF f, e, S
<1>5. Append(ContextSum(h, d, n), e) = ContextSum(h, d, n + 1)
  BY <1>1, <1>2, <1>3, <1>4, AppendNext
<1> QED
  BY <1>5 DEF e

\* While the caller holds its run, what was right stays right.
LEMMA DataStable ==
  ASSUME UNCHANGED <<position, run>>, NEW h, NEW k, NEW n
  PROVE  /\ ScoreSum(h, k, n)' = ScoreSum(h, k, n)
         /\ ContextSum(h, k, n)' = ContextSum(h, k, n)
         /\ scores' = scores => RightScore(h, k)' = RightScore(h, k)
         /\ probabilities' = probabilities => Right(h, k)' = Right(h, k)
         /\ context' = context => RightContext(h, k)' = RightContext(h, k)
<1>1. CausalRow(h)' = CausalRow(h)
  BY RowStable
<1> QED
  BY <1>1 DEF ScoreSum, ContextSum, RightScore, Right, RightContext, Factors, Score

-----------------------------------------------------------------------------
(* The controller. *)

\* The pulses and the controller's state after an edge.
LEMMA Moving ==
  ASSUME AttentionTypeOK, Controller
  PROVE  /\ attnState \in {"IDLE", "SCORE", "SOFT", "CTX"}
         /\ attnState' = CASE attnState = "IDLE" /\ attnStart -> "SCORE"
                           [] attnState = "SCORE" /\ score.done -> "SOFT"
                           [] attnState = "SOFT" /\ done -> "CTX"
                           [] attnState = "CTX" /\ ctx.done -> "IDLE"
                           [] OTHER -> attnState
         /\ scoreStart' = (attnState = "IDLE" /\ attnStart)
         /\ start' = (attnState = "SCORE" /\ score.done)
         /\ contextStart' = (attnState = "SOFT" /\ done)
         /\ attnDone' = (attnState = "CTX" /\ ctx.done)
<1>1. /\ attnState \in {"IDLE", "SCORE", "SOFT", "CTX"}
      /\ score.done \in BOOLEAN /\ done \in BOOLEAN /\ ctx.done \in BOOLEAN /\ attnStart \in BOOLEAN
  BY DEF AttentionTypeOK, TypeOK, After, Registers
<1>2. CASE attnState = "IDLE"
  BY <1>1, <1>2 DEF Controller, Moves, Enters, After, Awaited
<1>3. CASE attnState = "SCORE"
  BY <1>1, <1>3 DEF Controller, Moves, Enters, After, Awaited
<1>4. CASE attnState = "SOFT"
  BY <1>1, <1>4 DEF Controller, Moves, Enters, After, Awaited
<1>5. CASE attnState = "CTX"
  BY <1>1, <1>5 DEF Controller, Moves, Enters, After, Awaited
<1> QED
  BY <1>1, <1>2, <1>3, <1>4, <1>5

\* An edge of the attention path is one of the scheduler's.
LEMMA EdgeIsEdge ==
  ASSUME IInv, PathInv, AttentionEdge
  PROVE  Edge
<1>1. CoreOffered => scores[head][key] = Score(run, head, key)
  <2> SUFFICES ASSUME CoreOffered PROVE scores[head][key] = Score(run, head, key)
    OBVIOUS
  <2>1. state = "SEND"
    BY DEF CoreOffered
  <2>2. AllScores
    BY <2>1 DEF PathInv, SoftmaxPulse, ScoreInv
  <2>3. key <= position /\ head \in HeadId /\ key \in Slot
    BY <2>1 DEF IInv, LoadInv, TypeOK
  <2> QED
    BY <2>2, <2>3 DEF AllScores, RightScore
<1>2. CoreEdge(CoreStarting, position, CoreOffered, Score(run, head, key), ack)
  BY <1>1, OnlyOfferedScores DEF AttentionEdge
<1> QED
  BY <1>2 DEF AttentionEdge, Edge

\* So is every step of the controller, its kernels and its host.
LEMMA StepIsStep ==
  ASSUME IInv, PathInv, AttentionNext
  PROVE  Next
<1>1. CASE AttentionReset
  BY <1>1 DEF AttentionReset, Next
<1>2. CASE AttentionRun
  <2>1. Edge /\ Controller /\ UNCHANGED <<position, run>>
    BY <1>2, EdgeIsEdge DEF AttentionRun, HostHolds, AttentionEdge
  <2>2. start' = (attnState = "SCORE" /\ score.done)
    BY <2>1, Moving DEF PathInv
  <2>3. CASE attnState = "SCORE" /\ score.done
    <3>1. state = "IDLE" /\ ~start /\ run > 0
      BY <2>3 DEF PathInv, SoftmaxPulse, HostInv
    <3>2. Launch
      BY <2>1, <2>2, <2>3, <3>1 DEF Launch
    <3> QED
      BY <2>1, <3>2 DEF Next
  <2>4. CASE ~(attnState = "SCORE" /\ score.done)
    <3>1. Hold
      BY <2>1, <2>2, <2>4 DEF Hold
    <3> QED
      BY <2>1, <3>1 DEF Next, Run
  <2> QED
    BY <2>3, <2>4
<1>3. ASSUME NEW p \in Slot, AttentionEdge, HostLaunches(p) PROVE Next
  <2>1. Edge /\ Controller
    BY <1>3, EdgeIsEdge DEF AttentionEdge
  <2>2. start' = (attnState = "SCORE" /\ score.done)
    BY <2>1, Moving DEF PathInv
  <2>3. attnState = "IDLE" /\ run < Runs /\ position' = p /\ run' = run + 1
    BY <1>3 DEF HostLaunches
  <2>4. state = "IDLE" /\ ~start /\ start' = FALSE
    BY <2>2, <2>3 DEF PathInv, SoftmaxPulse
  <2> QED
    BY <2>1, <2>3, <2>4 DEF Next, Present
<1> QED
  BY <1>1, <1>2, <1>3 DEF AttentionNext

\* The host holds what a started run reads.
LEMMA HostFacts ==
  ASSUME PathInv, TypeOK', HostHolds \/ \E p \in Slot : HostLaunches(p)
  PROVE  /\ attnStart' \in BOOLEAN
         /\ attnStart' => attnState = "IDLE" /\ ~attnStart /\ run' \in 1 .. Runs
         /\ attnStart \/ attnState # "IDLE" => UNCHANGED <<position, run>>
<1>1. run \in 0 .. Runs /\ run' \in 0 .. Runs
  BY DEF PathInv, AttentionTypeOK, TypeOK
<1>2. CASE HostHolds
  BY <1>2 DEF HostHolds
<1>3. ASSUME NEW p \in Slot, HostLaunches(p)
      PROVE  /\ attnStart' = TRUE /\ attnState = "IDLE" /\ ~attnStart
             /\ run' \in 1 .. Runs
  <2>1. run' = run + 1
    BY <1>3 DEF HostLaunches
  <2> QED
    BY <1>1, <1>3, <2>1, RunsAssumption DEF HostLaunches
<1> QED
  BY <1>2, <1>3

-----------------------------------------------------------------------------
(* The score kernel. *)

ScoreHolds ==
  /\ score \in Registers({"IDLE", "MAC", "EMIT"}, Products)
  /\ scores \in [HeadId -> [Slot -> Scores]]
  /\ ScorePulse
  /\ ScoreInv

\* An idle kernel is started, or waits.
LEMMA ScoreIdleHolds ==
  ASSUME PathInv, Controller, ScoreIdle,
         attnStart \/ attnState # "IDLE" => UNCHANGED <<position, run>>
  PROVE  ScoreHolds'
<1> USE DEF PathInv
<1>1. score \in Registers({"IDLE", "MAC", "EMIT"}, Products) /\ scores \in [HeadId -> [Slot -> Scores]]
  BY DEF AttentionTypeOK
<1>2. 0 \in Slot /\ 0 \in HeadId /\ 0 \in Dim /\ <<>> \in Seq(Products)
  BY TMaxAssumption, HeadsAssumption, HDAssumption DEF Slot, HeadId, Dim
<1>3. scores' = scores
  BY DEF ScoreIdle
<1>4. CASE scoreStart
  <2>1. attnState = "SCORE" /\ ~score.done /\ attnState' = "SCORE" /\ scoreStart' = FALSE
    BY <1>4, Moving DEF ScorePulse
  <2>2. /\ score' \in Registers({"IDLE", "MAC", "EMIT"}, Products)
        /\ score'.state = "MAC" /\ score'.head = 0 /\ score'.key = 0 /\ score'.dim = 0
        /\ score'.accum = <<>> /\ score'.done = FALSE
    <3>1. score' = [KernelReset EXCEPT !.state = "MAC"]
      BY <1>4 DEF ScoreIdle
    <3> QED
      BY <1>2, <3>1 DEF KernelReset, Registers
  <2>3. ScoreSum(0, 0, 0)' = <<>>
    BY DEF ScoreSum
  <2>4. ScoresBefore(0, 0)'
    BY DEF ScoresBefore, HeadId, Slot
  <2>5. ScorePulse'
    BY <2>1, <2>2 DEF ScorePulse
  <2>6. ScoreInv'
    BY <2>1, <2>2, <2>3, <2>4 DEF ScoreInv
  <2> QED
    BY <1>1, <1>3, <2>2, <2>5, <2>6 DEF ScoreHolds
<1>5. CASE ~scoreStart
  <2>1. /\ score' \in Registers({"IDLE", "MAC", "EMIT"}, Products)
        /\ score'.state = "IDLE" /\ score'.done = FALSE
    BY <1>1, <1>5 DEF ScoreIdle, Registers
  <2>2. scoreStart' => attnState' = "SCORE"
    BY Moving
  <2>3. attnState' \in {"SOFT", "CTX"} => AllScores /\ attnState # "IDLE"
    BY Moving DEF ScoreInv
  <2>4. attnState' \in {"SOFT", "CTX"} => AllScores'
    BY <1>3, <2>3, DataStable DEF AllScores
  <2>5. ScorePulse'
    BY <2>1, <2>2 DEF ScorePulse
  <2>6. ScoreInv'
    BY <2>1, <2>4 DEF ScoreInv
  <2> QED
    BY <1>1, <1>3, <2>1, <2>5, <2>6 DEF ScoreHolds
<1> QED
  BY <1>4, <1>5

\* A working kernel is the controller's stage, which waits for it.
LEMMA ScoreWorks ==
  ASSUME PathInv, Controller, score.state # "IDLE",
         attnStart \/ attnState # "IDLE" => UNCHANGED <<position, run>>
  PROVE  /\ attnState = "SCORE" /\ attnState' = "SCORE" /\ scoreStart' = FALSE
         /\ ~scoreStart /\ UNCHANGED <<position, run>>
         /\ run \in 1 .. Runs /\ position \in Slot
BY Moving DEF PathInv, ScorePulse, HostInv, AttentionTypeOK, TypeOK

\* One product is added.
LEMMA ScoreMacHolds ==
  ASSUME PathInv, Controller, ScoreMac,
         attnStart \/ attnState # "IDLE" => UNCHANGED <<position, run>>
  PROVE  ScoreHolds'
<1> USE DEF PathInv
<1>1. /\ score \in Registers({"IDLE", "MAC", "EMIT"}, Products) /\ scores \in [HeadId -> [Slot -> Scores]]
      /\ score.state = "MAC" /\ scores' = scores
  BY DEF AttentionTypeOK, ScoreMac
<1>2. /\ attnState = "SCORE" /\ attnState' = "SCORE" /\ scoreStart' = FALSE
      /\ UNCHANGED <<position, run>> /\ run \in 1 .. Runs
  BY <1>1, ScoreWorks
<1>3. PICK h \in HeadId, k \in Slot, d \in Dim :
        /\ h = score.head /\ k = score.key /\ d = score.dim
        /\ score.accum \in Seq(Products) /\ ~score.done
  BY <1>1 DEF Registers, ScorePulse
<1> DEFINE e == Factors(run, h, k, d)
<1>4. e \in Products
  BY <1>2, <1>3 DEF Factors, Products
<1>5. /\ score.accum = ScoreSum(h, k, d) /\ ScoresBefore(h, k)
      /\ d \in Nat
  BY <1>1, <1>3, HDAssumption DEF ScoreInv, Dim
<1>6. Append(score.accum, e) = ScoreSum(h, k, d + 1) /\ Append(score.accum, e) \in Seq(Products)
  BY <1>3, <1>4, <1>5, ScoreSumGrows
<1>7. ScoreSum(h, k, d + 1)' = ScoreSum(h, k, d + 1)
  BY <1>2 DEF ScoreSum, Factors
<1>8. ScoresBefore(h, k)'
  BY <1>1, <1>2, <1>5, DataStable DEF ScoresBefore
<1>9. CASE d = HD - 1
  <2>1. score' = [score EXCEPT !.accum = Append(score.accum, e), !.state = "EMIT"]
    BY <1>3, <1>9 DEF ScoreMac
  <2>2. /\ score' \in Registers({"IDLE", "MAC", "EMIT"}, Products)
        /\ score'.state = "EMIT" /\ score'.head = h /\ score'.key = k
        /\ score'.accum = ScoreSum(h, k, HD) /\ score'.done = FALSE
    <3>1. d + 1 = HD
      BY <1>9, HDAssumption
    <3> HIDE DEF e
    <3> QED
      BY <1>1, <1>3, <1>6, <2>1, <3>1 DEF Registers
  <2>3. ScorePulse' /\ ScoreInv'
    <3>1. ScoreSum(h, k, HD)' = ScoreSum(h, k, HD)
      BY <1>2 DEF ScoreSum, Factors
    <3> QED
      BY <1>2, <1>8, <2>2, <3>1 DEF ScorePulse, ScoreInv
  <2> QED
    BY <1>1, <2>2, <2>3 DEF ScoreHolds
<1>10. CASE d # HD - 1
  <2>1. score' = [score EXCEPT !.accum = Append(score.accum, e), !.dim = d + 1]
    BY <1>3, <1>10 DEF ScoreMac
  <2>2. d + 1 \in Dim
    BY <1>3, <1>10, HDAssumption DEF Dim
  <2>3. /\ score' \in Registers({"IDLE", "MAC", "EMIT"}, Products)
        /\ score'.state = "MAC" /\ score'.head = h /\ score'.key = k /\ score'.dim = d + 1
        /\ score'.accum = ScoreSum(h, k, d + 1) /\ score'.done = FALSE
    <3> HIDE DEF e
    <3> QED
      BY <1>1, <1>3, <1>6, <2>1, <2>2 DEF Registers
  <2>4. ScorePulse' /\ ScoreInv'
    <3> QED
      BY <1>2, <1>7, <1>8, <2>3 DEF ScorePulse, ScoreInv
  <2> QED
    BY <1>1, <2>3, <2>4 DEF ScoreHolds
<1> QED
  BY <1>9, <1>10

\* A score is stored, and the kernel goes on or is done.
LEMMA ScoreEmitHolds ==
  ASSUME PathInv, Controller, ScoreEmit,
         attnStart \/ attnState # "IDLE" => UNCHANGED <<position, run>>
  PROVE  ScoreHolds'
<1> USE DEF PathInv
<1>1. /\ score \in Registers({"IDLE", "MAC", "EMIT"}, Products) /\ scores \in [HeadId -> [Slot -> Scores]]
      /\ score.state = "EMIT"
  BY DEF AttentionTypeOK, ScoreEmit
<1>2. /\ attnState = "SCORE" /\ attnState' = "SCORE" /\ scoreStart' = FALSE
      /\ UNCHANGED <<position, run>> /\ run \in 1 .. Runs /\ position \in Slot
  BY <1>1, ScoreWorks
<1>3. PICK h \in HeadId, k \in Slot :
        /\ h = score.head /\ k = score.key
        /\ score.dim \in Dim /\ score.accum \in Seq(Products) /\ ~score.done
  BY <1>1 DEF Registers, ScorePulse
<1> DEFINE v == IF k <= position THEN Total(score.accum, h, k) ELSE Blank
<1>4. score.accum = ScoreSum(h, k, HD) /\ ScoresBefore(h, k)
  BY <1>1, <1>3 DEF ScoreInv
<1>5. Total(score.accum, h, k) = Score(run, h, k)
  BY <1>4 DEF Total, ScoreSum
<1>6. v \in Scores /\ (k <= position => v = Score(run, h, k))
  BY <1>2, <1>3, <1>5, ScoreType, NoShareType
<1>7. scores' = [scores EXCEPT ![h][k] = v]
  BY <1>3 DEF ScoreEmit
<1> HIDE DEF v
<1>8. scores' \in [HeadId -> [Slot -> Scores]]
  BY <1>1, <1>3, <1>6, <1>7
<1>9. ASSUME NEW i \in HeadId, NEW j \in Slot, i < h \/ (i = h /\ j <= k)
      PROVE  RightScore(i, j)'
  <2>1. CASE i = h /\ j = k
    <3>1. scores'[i][j] = v
      BY <1>1, <1>3, <1>7, <2>1
    <3> QED
      BY <1>2, <1>6, <2>1, <3>1 DEF RightScore, Score
  <2>2. CASE ~(i = h /\ j = k)
    <3>1. i < h \/ (i = h /\ j < k)
      BY <1>3, <1>9, <2>2, HeadsAssumption, TMaxAssumption DEF HeadId, Slot
    <3>2. RightScore(i, j)
      BY <1>4, <3>1 DEF ScoresBefore
    <3>3. scores'[i][j] = scores[i][j]
      BY <1>1, <1>3, <1>7, <2>2
    <3> QED
      BY <1>2, <3>2, <3>3 DEF RightScore, Score
  <2> QED
    BY <2>1, <2>2
<1>10. score' = AfterScore(score) /\ 0 \in Slot /\ 0 \in Dim /\ 0 \in HeadId /\ <<>> \in Seq(Products)
  BY TMaxAssumption, HDAssumption, HeadsAssumption DEF ScoreEmit, Slot, Dim, HeadId
<1>11. ScoreSum(h, k + 1, 0)' = <<>> /\ ScoreSum(h + 1, 0, 0)' = <<>>
  BY DEF ScoreSum
<1>12. CASE k < TMax - 1
  <2>1. k + 1 \in Slot
    BY <1>3, <1>12, TMaxAssumption DEF Slot
  <2>2. score' = [score EXCEPT !.dim = 0, !.accum = <<>>, !.key = k + 1, !.state = "MAC"]
    BY <1>3, <1>10, <1>12 DEF AfterScore
  <2>3. /\ score' \in Registers({"IDLE", "MAC", "EMIT"}, Products)
        /\ score'.state = "MAC" /\ score'.head = h /\ score'.key = k + 1 /\ score'.dim = 0
        /\ score'.accum = <<>> /\ score'.done = FALSE
    BY <1>1, <1>3, <1>10, <2>1, <2>2 DEF Registers
  <2>4. ScoresBefore(h, k + 1)'
    BY <1>3, <1>9 DEF ScoresBefore, Slot
  <2>5. ScorePulse' /\ ScoreInv'
    <3> QED
      BY <1>2, <1>11, <2>3, <2>4 DEF ScorePulse, ScoreInv
  <2> QED
    BY <1>8, <2>3, <2>5 DEF ScoreHolds
<1>13. CASE ~(k < TMax - 1) /\ h < Heads - 1
  <2>1. h + 1 \in HeadId
    BY <1>3, <1>13, HeadsAssumption DEF HeadId
  <2>2. score' = [KernelReset EXCEPT !.state = "MAC", !.head = h + 1]
    BY <1>3, <1>10, <1>13 DEF AfterScore
  <2>3. /\ score' \in Registers({"IDLE", "MAC", "EMIT"}, Products)
        /\ score'.state = "MAC" /\ score'.head = h + 1 /\ score'.key = 0 /\ score'.dim = 0
        /\ score'.accum = <<>> /\ score'.done = FALSE
    BY <1>10, <2>1, <2>2 DEF Registers, KernelReset
  <2>4. ScoresBefore(h + 1, 0)'
    <3>1. \A i \in HeadId, j \in Slot : i < h + 1 => i < h \/ (i = h /\ j <= k)
      BY <1>3, <1>13, TMaxAssumption, HeadsAssumption DEF Slot, HeadId
    <3>2. \A j \in Slot : ~(j < 0)
      BY DEF Slot
    <3> QED
      BY <1>9, <3>1, <3>2 DEF ScoresBefore
  <2>5. ScorePulse' /\ ScoreInv'
    <3> QED
      BY <1>2, <1>11, <2>3, <2>4 DEF ScorePulse, ScoreInv
  <2> QED
    BY <1>8, <2>3, <2>5 DEF ScoreHolds
<1>14. CASE ~(k < TMax - 1) /\ ~(h < Heads - 1)
  <2>1. score' = [KernelReset EXCEPT !.head = h, !.done = TRUE]
    BY <1>3, <1>10, <1>14 DEF AfterScore
  <2>2. /\ score' \in Registers({"IDLE", "MAC", "EMIT"}, Products)
        /\ score'.state = "IDLE" /\ score'.done = TRUE
    BY <1>3, <1>10, <2>1 DEF Registers, KernelReset
  <2>3. AllScores'
    <3>1. \A i \in HeadId, j \in Slot : i < h \/ (i = h /\ j <= k)
      BY <1>3, <1>14, TMaxAssumption, HeadsAssumption DEF Slot, HeadId
    <3> QED
      BY <1>9, <3>1 DEF AllScores
  <2>4. ScorePulse' /\ ScoreInv'
    BY <1>2, <2>2, <2>3 DEF ScorePulse, ScoreInv
  <2> QED
    BY <1>8, <2>2, <2>4 DEF ScoreHolds
<1> QED
  BY <1>12, <1>13, <1>14

-----------------------------------------------------------------------------
(* The context kernel. *)

ContextHolds ==
  /\ ctx \in Registers({"IDLE", "REDUCE", "EMIT"}, Shares \X Products)
  /\ context \in [HeadId -> [Dim -> Seq(Shares \X Products)]]
  /\ ContextPulse
  /\ ContextInv

\* One share of a context is a share and a product.
LEMMA ShareOfContext ==
  ASSUME NEW h \in HeadId, NEW k \in Slot, NEW d \in Dim, run \in 1 .. Runs, position \in Slot
  PROVE  <<Share(CausalRow(h), k), Factors(run, h, k, d)>> \in Shares \X Products
<1>1. [i \in Slot |-> Score(run, h, i)] \in [Slot -> Scores]
  BY ScoreType
<1>2. Share(CausalRow(h), k) \in Shares
  BY <1>1, RowType, ShareType DEF CausalRow
<1>3. Factors(run, h, k, d) \in Products
  BY DEF Factors, Products
<1> QED
  BY <1>2, <1>3

\* The softmax rests once it is done, and while the contexts are reduced.
LEMMA RowsStay ==
  ASSUME IInv, PathInv, Scheduler, done \/ attnState = "CTX", UNCHANGED <<position, run>>
  PROVE  AllRows => AllRows'
<1>1. state = "IDLE"
  BY DEF IInv, TypeOK, PathInv, SoftmaxPulse
<1>2. probabilities' = probabilities
  BY <1>1 DEF Scheduler, Idle, StartRow, SendScore, Collect, Acknowledge, AwaitProbability,
     FinalProbability
<1> QED
  BY <1>2, DataStable DEF AllRows

\* An idle kernel is started, or waits.
LEMMA ContextIdleHolds ==
  ASSUME IInv, PathInv, Controller, Scheduler, ContextIdle,
         attnStart \/ attnState # "IDLE" => UNCHANGED <<position, run>>, position' \in Slot
  PROVE  ContextHolds'
<1> USE DEF PathInv
<1>1. /\ ctx \in Registers({"IDLE", "REDUCE", "EMIT"}, Shares \X Products)
      /\ context \in [HeadId -> [Dim -> Seq(Shares \X Products)]]
      /\ ctx.state = "IDLE" /\ context' = context
  BY DEF AttentionTypeOK, ContextIdle
<1>2. 0 \in Slot /\ 0 \in HeadId /\ 0 \in Dim /\ <<>> \in Seq(Shares \X Products)
  BY TMaxAssumption, HeadsAssumption, HDAssumption DEF Slot, HeadId, Dim
<1>3. attnState' = "CTX" => AllRows'
  <2>1. attnState' = "CTX" => attnState = "CTX" \/ (attnState = "SOFT" /\ done)
    BY Moving
  <2>2. attnState = "CTX" \/ (attnState = "SOFT" /\ done) => AllRows
    BY DEF ContextInv, IInv, AllInv, AllRows
  <2> QED
    BY <2>1, <2>2, RowsStay
<1>4. attnDone' => AllContext'
  <2> SUFFICES ASSUME attnDone' PROVE AllContext'
    OBVIOUS
  <2>1. attnState = "CTX" /\ ctx.done
    BY Moving
  <2>2. AllContext /\ UNCHANGED <<position, run>>
    BY <2>1 DEF ContextInv
  <2> QED
    BY <1>1, <2>2, DataStable DEF AllContext
<1>5. CASE contextStart
  <2>1. attnState = "CTX" /\ attnState' = "CTX" /\ contextStart' = FALSE
    BY <1>5, Moving DEF ContextPulse
  <2>2. /\ ctx' \in Registers({"IDLE", "REDUCE", "EMIT"}, Shares \X Products)
        /\ ctx'.state = "REDUCE" /\ ctx'.head = 0 /\ ctx'.key = 0 /\ ctx'.dim = 0
        /\ ctx'.accum = <<>> /\ ctx'.done = FALSE
    <3>1. ctx' = [KernelReset EXCEPT !.state = "REDUCE"]
      BY <1>5 DEF ContextIdle
    <3> QED
      BY <1>2, <3>1 DEF KernelReset, Registers
  <2>3. ContextSum(0, 0, CausalKeys(0))' = <<>>
    <3>1. CausalKeys(0)' = 0
      BY TMaxAssumption DEF CausalKeys, Slot
    <3> QED
      BY <3>1 DEF ContextSum
  <2>4. ContextBefore(0, 0)'
    BY DEF ContextBefore, HeadId, Dim
  <2>5. ContextPulse'
    BY <2>1, <2>2 DEF ContextPulse
  <2>6. ContextInv'
    BY <1>3, <1>4, <2>2, <2>3, <2>4 DEF ContextInv
  <2> QED
    BY <1>1, <2>2, <2>5, <2>6 DEF ContextHolds
<1>6. CASE ~contextStart
  <2>1. /\ ctx' \in Registers({"IDLE", "REDUCE", "EMIT"}, Shares \X Products)
        /\ ctx'.state = "IDLE" /\ ctx'.done = FALSE
    BY <1>1, <1>6 DEF ContextIdle, Registers
  <2>2. contextStart' => attnState' = "CTX"
    BY Moving
  <2>3. ContextPulse'
    BY <2>1, <2>2 DEF ContextPulse
  <2>4. ContextInv'
    BY <1>3, <1>4, <2>1 DEF ContextInv
  <2> QED
    BY <1>1, <2>1, <2>3, <2>4 DEF ContextHolds
<1> QED
  BY <1>5, <1>6

\* A working kernel is the controller's stage, which waits for it, and the
\* rows it reads are right.
LEMMA ContextWorks ==
  ASSUME IInv, PathInv, Controller, Scheduler, ctx.state # "IDLE",
         attnStart \/ attnState # "IDLE" => UNCHANGED <<position, run>>
  PROVE  /\ attnState' = "CTX" /\ contextStart' = FALSE /\ attnDone' = FALSE
         /\ UNCHANGED <<position, run>>
         /\ run \in 1 .. Runs /\ position \in Slot
         /\ AllRows /\ AllRows'
<1>1. attnState = "CTX" /\ ~ctx.done /\ ~contextStart
  BY DEF PathInv, ContextPulse
<1>2. attnState' = "CTX" /\ contextStart' = FALSE /\ attnDone' = FALSE
  BY <1>1, Moving DEF PathInv
<1>3. AllRows
  BY <1>1 DEF PathInv, ContextInv
<1>4. UNCHANGED <<position, run>> /\ run \in 1 .. Runs /\ position \in Slot
  BY <1>1 DEF PathInv, HostInv, AttentionTypeOK, TypeOK
<1> QED
  BY <1>1, <1>2, <1>3, <1>4, RowsStay

\* One share is added, if its key is causal.
LEMMA ContextReduceHolds ==
  ASSUME IInv, PathInv, Controller, Scheduler, ContextReduce,
         attnStart \/ attnState # "IDLE" => UNCHANGED <<position, run>>
  PROVE  ContextHolds'
<1> DEFINE S == Shares \X Products
<1>1. /\ ctx \in Registers({"IDLE", "REDUCE", "EMIT"}, S)
      /\ context \in [HeadId -> [Dim -> Seq(S)]]
      /\ ctx.state = "REDUCE" /\ context' = context
  BY DEF PathInv, AttentionTypeOK, ContextReduce
<1>2. /\ attnState' = "CTX" /\ contextStart' = FALSE /\ attnDone' = FALSE
      /\ UNCHANGED <<position, run>> /\ run \in 1 .. Runs /\ position \in Slot
      /\ AllRows /\ AllRows'
  BY <1>1, ContextWorks
<1>3. PICK h \in HeadId, k \in Slot, d \in Dim :
        /\ h = ctx.head /\ k = ctx.key /\ d = ctx.dim
        /\ ctx.accum \in Seq(S) /\ ctx.done = FALSE
  BY <1>1 DEF Registers, PathInv, ContextPulse
<1>4. ctx.accum = ContextSum(h, d, CausalKeys(k)) /\ ContextBefore(h, d)
  BY <1>1, <1>3 DEF PathInv, ContextInv
<1> DEFINE e == <<Share(CausalRow(h), k), Factors(run, h, k, d)>>
<1>5. PICK a \in Seq(S) :
        /\ a = ContextSum(h, d, CausalKeys(k + 1))
        /\ a = IF Causal(k)
               THEN Append(ctx.accum, <<probabilities[h][k], Factors(run, h, k, d)>>)
               ELSE ctx.accum
  <2>1. CASE k <= position
    <3>1. probabilities[h][k] = Share(CausalRow(h), k)
      BY <1>2, <2>1 DEF AllRows, Right
    <3>2. CausalKeys(k) = k /\ CausalKeys(k + 1) = k + 1 /\ k \in Nat /\ Causal(k)
      BY <1>2, <2>1, TMaxAssumption DEF CausalKeys, Slot, Causal
    <3>3. e \in S
      BY <1>2, ShareOfContext
    <3>4. Append(ctx.accum, e) = ContextSum(h, d, k + 1)
      BY <1>3, <1>4, <3>2, <3>3, ContextSumGrows
    <3>5. Append(ctx.accum, e) \in Seq(S)
      <4> HIDE DEF e, S
      <4> QED
        BY <1>3, <3>3
    <3> QED
      BY <3>1, <3>2, <3>4, <3>5
  <2>2. CASE ~(k <= position)
    <3>1. CausalKeys(k) = position + 1 /\ CausalKeys(k + 1) = position + 1 /\ ~Causal(k)
      BY <1>2, <2>2, TMaxAssumption DEF CausalKeys, Slot, Causal
    <3> QED
      BY <1>3, <1>4, <3>1
  <2> QED
    BY <2>1, <2>2
<1>6. ctx' = [ctx EXCEPT !.accum = a, !.key = (k + 1) % TMax,
                         !.state = IF k = TMax - 1 THEN "EMIT" ELSE "REDUCE"]
  BY <1>1, <1>3, <1>5 DEF ContextReduce
<1>7. ContextBefore(h, d)'
  BY <1>1, <1>2, <1>4, DataStable DEF ContextBefore
<1>8. \A n : ContextSum(h, d, n)' = ContextSum(h, d, n)
  BY <1>2, DataStable
<1>9. (k + 1) % TMax \in Slot
  BY NextKey
<1> HIDE DEF S
<1>10. CASE k = TMax - 1
  <2>1. /\ ctx' \in Registers({"IDLE", "REDUCE", "EMIT"}, S)
        /\ ctx'.state = "EMIT" /\ ctx'.head = h /\ ctx'.dim = d
        /\ ctx'.accum = a /\ ctx'.done = FALSE
    BY <1>1, <1>3, <1>6, <1>9, <1>10 DEF Registers
  <2>2. a = ContextSum(h, d, position + 1)'
    <3>1. CausalKeys(k + 1) = position + 1
      BY <1>2, <1>10, TMaxAssumption DEF CausalKeys, Slot
    <3> QED
      BY <1>2, <1>5, <1>8, <3>1 DEF ContextSum
  <2>3. ContextPulse' /\ ContextInv'
    BY <1>2, <1>7, <2>1, <2>2 DEF ContextPulse, ContextInv
  <2> QED
    BY <1>1, <2>1, <2>3 DEF ContextHolds, S
<1>11. CASE k # TMax - 1
  <2>1. (k + 1) % TMax = k + 1
    BY <1>11, NextKey
  <2>2. /\ ctx' \in Registers({"IDLE", "REDUCE", "EMIT"}, S)
        /\ ctx'.state = "REDUCE" /\ ctx'.head = h /\ ctx'.dim = d /\ ctx'.key = k + 1
        /\ ctx'.accum = a /\ ctx'.done = FALSE
    BY <1>1, <1>3, <1>6, <1>9, <1>11, <2>1 DEF Registers
  <2>3. a = ContextSum(h, d, CausalKeys(k + 1))'
    <3>1. CausalKeys(k + 1)' = CausalKeys(k + 1)
      BY <1>2 DEF CausalKeys
    <3> QED
      BY <1>2, <1>5, <1>8, <3>1 DEF ContextSum
  <2>4. ContextPulse' /\ ContextInv'
    BY <1>2, <1>7, <2>2, <2>3 DEF ContextPulse, ContextInv
  <2> QED
    BY <1>1, <2>2, <2>4 DEF ContextHolds, S
<1> QED
  BY <1>10, <1>11

\* A context is stored, and the kernel goes on or is done.
LEMMA ContextEmitHolds ==
  ASSUME IInv, PathInv, Controller, Scheduler, ContextEmit,
         attnStart \/ attnState # "IDLE" => UNCHANGED <<position, run>>
  PROVE  ContextHolds'
<1> DEFINE S == Shares \X Products
<1>1. /\ ctx \in Registers({"IDLE", "REDUCE", "EMIT"}, S)
      /\ context \in [HeadId -> [Dim -> Seq(S)]]
      /\ ctx.state = "EMIT"
  BY DEF PathInv, AttentionTypeOK, ContextEmit
<1>2. /\ attnState' = "CTX" /\ contextStart' = FALSE /\ attnDone' = FALSE
      /\ UNCHANGED <<position, run>> /\ run \in 1 .. Runs /\ position \in Slot
      /\ AllRows'
  BY <1>1, ContextWorks
<1>3. PICK h \in HeadId, d \in Dim :
        /\ h = ctx.head /\ d = ctx.dim /\ ctx.accum \in Seq(S)
  BY <1>1 DEF Registers
<1>4. ctx.accum = ContextSum(h, d, position + 1) /\ ContextBefore(h, d)
  BY <1>1, <1>3 DEF PathInv, ContextInv
<1>5. context' = [context EXCEPT ![h][d] = ctx.accum]
  BY <1>3 DEF ContextEmit
<1> HIDE DEF S
<1>6. context' \in [HeadId -> [Dim -> Seq(S)]]
  BY <1>1, <1>3, <1>5
<1>7. \A i, j, n : ContextSum(i, j, n)' = ContextSum(i, j, n)
  BY <1>2, DataStable
<1>8. ASSUME NEW i \in HeadId, NEW j \in Dim, i < h \/ (i = h /\ j <= d)
      PROVE  RightContext(i, j)'
  <2>1. CASE i = h /\ j = d
    <3>1. context'[i][j] = ctx.accum
      BY <1>1, <1>3, <1>5, <2>1
    <3>2. ContextSum(i, j, position + 1)' = ContextSum(i, j, position + 1)
      BY <1>2, <1>7 DEF ContextSum
    <3> QED
      BY <1>4, <2>1, <3>1, <3>2 DEF RightContext
  <2>2. CASE ~(i = h /\ j = d)
    <3>1. i < h \/ (i = h /\ j < d)
      BY <1>3, <1>8, <2>2, HeadsAssumption, HDAssumption DEF HeadId, Dim
    <3>2. RightContext(i, j)
      BY <1>4, <3>1 DEF ContextBefore
    <3>3. context'[i][j] = context[i][j]
      BY <1>1, <1>3, <1>5, <2>2
    <3>4. ContextSum(i, j, position + 1)' = ContextSum(i, j, position + 1)
      BY <1>2, <1>7 DEF ContextSum
    <3> QED
      BY <3>2, <3>3, <3>4 DEF RightContext
  <2> QED
    BY <2>1, <2>2
<1>9. /\ ctx' = AfterContext(ctx) /\ 0 \in Slot /\ 0 \in Dim /\ 0 \in HeadId
      /\ <<>> \in Seq(S)
  BY TMaxAssumption, HDAssumption, HeadsAssumption DEF ContextEmit, Slot, Dim, HeadId
<1>10. \A i, j : ContextSum(i, j, CausalKeys(0))' = <<>>
  <2>1. CausalKeys(0)' = 0
    BY <1>2, TMaxAssumption DEF CausalKeys, Slot
  <2> QED
    BY <2>1 DEF ContextSum
<1>11. CASE d < HD - 1
  <2>1. d + 1 \in Dim
    BY <1>3, <1>11, HDAssumption DEF Dim
  <2>2. ctx' = [KernelReset EXCEPT !.state = "REDUCE", !.head = h, !.dim = d + 1]
    BY <1>3, <1>9, <1>11 DEF AfterContext
  <2>3. /\ ctx' \in Registers({"IDLE", "REDUCE", "EMIT"}, S)
        /\ ctx'.state = "REDUCE" /\ ctx'.head = h /\ ctx'.key = 0 /\ ctx'.dim = d + 1
        /\ ctx'.accum = <<>> /\ ctx'.done = FALSE
    BY <1>9, <2>1, <2>2 DEF Registers, KernelReset
  <2>4. ContextBefore(h, d + 1)'
    BY <1>3, <1>8 DEF ContextBefore, Dim
  <2>5. ContextSum(h, d + 1, CausalKeys(0))' = <<>>
    BY <1>10
  <2>6. ContextPulse' /\ ContextInv'
    BY <1>2, <2>3, <2>4, <2>5 DEF ContextPulse, ContextInv
  <2> QED
    BY <1>6, <2>3, <2>6 DEF ContextHolds, S
<1>12. CASE ~(d < HD - 1) /\ h < Heads - 1
  <2>1. h + 1 \in HeadId
    BY <1>3, <1>12, HeadsAssumption DEF HeadId
  <2>2. ctx' = [KernelReset EXCEPT !.state = "REDUCE", !.head = h + 1]
    BY <1>3, <1>9, <1>12 DEF AfterContext
  <2>3. /\ ctx' \in Registers({"IDLE", "REDUCE", "EMIT"}, S)
        /\ ctx'.state = "REDUCE" /\ ctx'.head = h + 1 /\ ctx'.key = 0 /\ ctx'.dim = 0
        /\ ctx'.accum = <<>> /\ ctx'.done = FALSE
    BY <1>9, <2>1, <2>2 DEF Registers, KernelReset
  <2>4. ContextBefore(h + 1, 0)'
    <3>1. \A i \in HeadId, j \in Dim : i < h + 1 => i < h \/ (i = h /\ j <= d)
      BY <1>3, <1>12, HDAssumption, HeadsAssumption DEF Dim, HeadId
    <3>2. \A j \in Dim : ~(j < 0)
      BY DEF Dim
    <3> QED
      BY <1>8, <3>1, <3>2 DEF ContextBefore
  <2>5. ContextSum(h + 1, 0, CausalKeys(0))' = <<>>
    BY <1>10
  <2>6. ContextPulse' /\ ContextInv'
    BY <1>2, <2>3, <2>4, <2>5 DEF ContextPulse, ContextInv
  <2> QED
    BY <1>6, <2>3, <2>6 DEF ContextHolds, S
<1>13. CASE ~(d < HD - 1) /\ ~(h < Heads - 1)
  <2>1. ctx' = [KernelReset EXCEPT !.head = h, !.done = TRUE]
    BY <1>3, <1>9, <1>13 DEF AfterContext
  <2>2. /\ ctx' \in Registers({"IDLE", "REDUCE", "EMIT"}, S)
        /\ ctx'.state = "IDLE" /\ ctx'.done = TRUE
    BY <1>3, <1>9, <2>1 DEF Registers, KernelReset
  <2>3. AllContext'
    <3>1. \A i \in HeadId, j \in Dim : i < h \/ (i = h /\ j <= d)
      BY <1>3, <1>13, HDAssumption, HeadsAssumption DEF Dim, HeadId
    <3> QED
      BY <1>8, <3>1 DEF AllContext
  <2>4. ContextPulse' /\ ContextInv'
    BY <1>2, <2>2, <2>3 DEF ContextPulse, ContextInv
  <2> QED
    BY <1>6, <2>2, <2>4 DEF ContextHolds, S
<1> QED
  BY <1>11, <1>12, <1>13

-----------------------------------------------------------------------------
(* The path. *)

\* The softmax works while it is the controller's stage.
LEMMA SoftmaxPulseHolds ==
  ASSUME IInv, PathInv, Controller, Scheduler
  PROVE  SoftmaxPulse'
<1>1. done \in BOOLEAN /\ start \in BOOLEAN
  BY DEF IInv, TypeOK
<1>2. start' => attnState = "SCORE" /\ attnState' = "SOFT"
  BY Moving DEF PathInv
<1>3. CASE state = "IDLE"
  <2>1. Idle
    BY <1>3 DEF Scheduler, StartRow, SendScore, Collect, Acknowledge, AwaitProbability,
       FinalProbability
  <2>2. done' = FALSE /\ (state' # "IDLE" => start)
    BY <1>3, <2>1 DEF Idle
  <2>3. start => attnState' = "SOFT"
    BY Moving DEF PathInv, SoftmaxPulse
  <2> QED
    BY <1>2, <2>2, <2>3 DEF SoftmaxPulse
<1>4. CASE state # "IDLE"
  <2>1. attnState = "SOFT" /\ ~done
    BY <1>4 DEF PathInv, SoftmaxPulse
  <2>2. attnState' = "SOFT"
    BY <2>1, Moving DEF PathInv
  <2>3. done' => state' = "IDLE"
    BY <1>4 DEF Scheduler, Idle, StartRow, SendScore, Collect, Acknowledge, AwaitProbability,
       FinalProbability, NextRow
  <2> QED
    BY <1>2, <2>1, <2>2, <2>3 DEF SoftmaxPulse
<1> QED
  BY <1>3, <1>4

\* Every edge keeps the invariant.
LEMMA EdgePathInv ==
  ASSUME IInv, PathInv, TypeOK', AttentionEdge, HostHolds \/ \E p \in Slot : HostLaunches(p)
  PROVE  PathInv'
<1>1. /\ attnStart' \in BOOLEAN
      /\ attnStart' => attnState = "IDLE" /\ ~attnStart /\ run' \in 1 .. Runs
      /\ attnStart \/ attnState # "IDLE" => UNCHANGED <<position, run>>
  BY HostFacts
<1>2. Controller /\ Scheduler /\ position' \in Slot
  BY DEF AttentionEdge, TypeOK
<1>3. ScoreHolds'
  BY <1>1, <1>2, ScoreIdleHolds, ScoreMacHolds, ScoreEmitHolds DEF AttentionEdge, ScoreKernel
<1>4. ContextHolds'
  BY <1>1, <1>2, ContextIdleHolds, ContextReduceHolds, ContextEmitHolds DEF AttentionEdge,
     ContextKernel
<1>5. SoftmaxPulse'
  BY <1>2, SoftmaxPulseHolds
<1>6. /\ attnState' \in {"IDLE", "SCORE", "SOFT", "CTX"}
      /\ scoreStart' \in BOOLEAN /\ contextStart' \in BOOLEAN /\ attnDone' \in BOOLEAN
      /\ attnDone' => attnState' = "IDLE"
      /\ attnState = "IDLE" /\ ~attnStart => attnState' = "IDLE"
  BY <1>2, Moving DEF PathInv
<1>7. AttentionTypeOK'
  BY <1>1, <1>3, <1>4, <1>6 DEF AttentionTypeOK, ScoreHolds, ContextHolds, After
<1>8. HostInv'
  BY <1>1, <1>6 DEF HostInv, PathInv
<1> QED
  BY <1>3, <1>4, <1>5, <1>7, <1>8 DEF PathInv, ScoreHolds, ContextHolds

\* The reset state of the kernels and the controller.
AtReset ==
  /\ TypeOK
  /\ state = "IDLE" /\ start = FALSE /\ done = FALSE
  /\ attnState = "IDLE" /\ attnStart = FALSE /\ attnDone = FALSE
  /\ scoreStart = FALSE /\ contextStart = FALSE
  /\ score = KernelReset /\ scores = NoScores
  /\ ctx = KernelReset /\ context = NoContext

\* It satisfies the invariant.
LEMMA ResetPathInv == AtReset => PathInv
<1> SUFFICES ASSUME AtReset PROVE PathInv
  OBVIOUS
<1> USE DEF AtReset
<1>1. 0 \in Slot /\ 0 \in Dim /\ 0 \in HeadId /\ <<>> \in Seq(Products) /\ <<>> \in Seq(Shares \X Products)
  BY TMaxAssumption, HDAssumption, HeadsAssumption DEF Slot, Dim, HeadId
<1>2. /\ KernelReset \in Registers({"IDLE", "MAC", "EMIT"}, Products)
      /\ KernelReset \in Registers({"IDLE", "REDUCE", "EMIT"}, Shares \X Products)
      /\ KernelReset.state = "IDLE" /\ KernelReset.done = FALSE
  BY <1>1 DEF KernelReset, Registers
<1>3. NoScores \in [HeadId -> [Slot -> Scores]]
  BY NoShareType DEF NoScores
<1>4. NoContext \in [HeadId -> [Dim -> Seq(Shares \X Products)]]
  BY <1>1 DEF NoContext
<1>5. AttentionTypeOK
  BY <1>2, <1>3, <1>4 DEF AttentionTypeOK, After
<1> QED
  BY <1>2, <1>5 DEF PathInv, HostInv, ScorePulse, SoftmaxPulse, ContextPulse, ScoreInv, ContextInv

\* Both invariants hold at power-on.
LEMMA InitPath == AttentionInit => IInv /\ PathInv
<1> SUFFICES ASSUME AttentionInit PROVE IInv /\ PathInv
  OBVIOUS
<1>1. IInv
  BY InitIInv DEF AttentionInit
<1>2. TypeOK
  BY <1>1 DEF IInv
<1> QED
  BY <1>1, <1>2, ResetPathInv DEF AttentionInit, Init, AtReset

\* An edge, a reset and a stuttering step keep them.
LEMMA NextPath == IInv /\ PathInv /\ [AttentionNext]_attentionVars => IInv' /\ PathInv'
<1> SUFFICES ASSUME IInv, PathInv, [AttentionNext]_attentionVars PROVE IInv' /\ PathInv'
  OBVIOUS
<1>1. IInv' /\ TypeOK'
  <2>1. [Next]_vars
    BY StepIsStep DEF attentionVars
  <2> QED
    BY <2>1, NextIInv DEF IInv
<1>2. CASE AttentionReset
  <2>1. AtReset'
    BY <1>1, <1>2 DEF AtReset, AttentionReset, Reset, ResetScheduler, Hold, KernelReset, NoScores,
       NoContext
  <2>2. PathInv'
    BY <2>1, ResetPathInv, PTL
  <2> QED
    BY <1>1, <2>2
<1>3. CASE AttentionRun
  BY <1>1, <1>3, EdgePathInv DEF AttentionRun
<1>4. ASSUME NEW p \in Slot, AttentionEdge, HostLaunches(p) PROVE PathInv'
  BY <1>1, <1>4, EdgePathInv
<1>5. CASE UNCHANGED attentionVars
  <2>1. /\ UNCHANGED <<attnState, attnStart, attnDone, scoreStart, contextStart>>
        /\ UNCHANGED <<score, scores, ctx, context, state, start, done, probabilities>>
        /\ UNCHANGED <<position, run>>
    BY <1>5 DEF attentionVars, vars, schedulerRegs, caller, controllerRegs, kernelRegs
  <2>2. \A h, k, n : /\ ScoreSum(h, k, n)' = ScoreSum(h, k, n)
                     /\ ContextSum(h, k, n)' = ContextSum(h, k, n)
                     /\ RightScore(h, k)' = RightScore(h, k)
                     /\ Right(h, k)' = Right(h, k)
                     /\ RightContext(h, k)' = RightContext(h, k)
    BY <2>1, DataStable
  <2>3. AttentionTypeOK' /\ HostInv' /\ ScorePulse' /\ SoftmaxPulse' /\ ContextPulse'
    BY <1>1, <2>1 DEF PathInv, AttentionTypeOK, HostInv, ScorePulse, SoftmaxPulse, ContextPulse
  <2>4. ScoreInv'
    BY <2>1, <2>2 DEF PathInv, ScoreInv, ScoresBefore, AllScores, ScoreSum, Factors
  <2>5. ContextInv'
    <3>1. AllRows' = AllRows /\ AllContext' = AllContext
      BY <2>1, <2>2 DEF AllRows, AllContext
    <3>2. \A h, d : ContextBefore(h, d)' = ContextBefore(h, d)
      BY <2>2 DEF ContextBefore
    <3>3. \A k : CausalKeys(k)' = CausalKeys(k)
      BY <2>1 DEF CausalKeys
    <3>4. /\ ContextSum(ctx.head, ctx.dim, CausalKeys(ctx.key))'
               = ContextSum(ctx.head, ctx.dim, CausalKeys(ctx.key))
          /\ ContextSum(ctx.head, ctx.dim, position + 1)'
               = ContextSum(ctx.head, ctx.dim, position + 1)
          /\ ContextBefore(ctx.head, ctx.dim)' = ContextBefore(ctx.head, ctx.dim)
      BY <2>1, <2>2, <3>2, <3>3
    <3> QED
      BY <2>1, <3>1, <3>4 DEF PathInv, ContextInv
  <2> QED
    BY <1>1, <2>3, <2>4, <2>5 DEF PathInv
<1> QED
  BY <1>1, <1>2, <1>3, <1>4, <1>5 DEF AttentionNext

-----------------------------------------------------------------------------
(* The theorems. *)

\* The registers of the whole path always satisfy both invariants.
LEMMA PathInvariant == AttentionSpec => [](IInv /\ PathInv)
BY InitPath, NextPath, PTL DEF AttentionSpec

\* The softmax driven by this controller with these scores behaves as
\* SoftmaxScheduler says: the controller never starts it while it works, and
\* the score kernel is never late with a score it loads.
THEOREM AttentionIsAScheduler == AttentionSpec => Init /\ [][Next]_vars
<1>1. AttentionInit => Init
  BY DEF AttentionInit
<1>2. IInv /\ PathInv /\ [AttentionNext]_attentionVars => [Next]_vars
  BY StepIsStep DEF attentionVars
<1> QED
  BY <1>1, <1>2, PathInvariant, PTL DEF AttentionSpec

\* When the block reports done, every dimension of every head is the causal
\* sum of this run, whatever earlier runs left in the registers.
THEOREM ContextComesOutRight == AttentionSpec => []ContextIsRight
<1>1. IInv /\ PathInv => ContextIsRight
  <2> SUFFICES ASSUME PathInv, attnDone, NEW h \in HeadId, NEW d \in Dim
               PROVE  context[h][d] = ContextSum(h, d, position + 1)
    BY DEF ContextIsRight, ContextSum
  <2> QED
    BY DEF PathInv, ContextInv, AllContext, RightContext
<1> QED
  BY <1>1, PathInvariant, PTL

-----------------------------------------------------------------------------
(***************************************************************************)
(* The softmax bridge: the invariant of a graph being built and of the     *)
(* matcher's run over it.                                                  *)
(***************************************************************************)

Kinds == {"mask", "max", "delta", "exp", "sum", "div"}
Nests == {Nest(kind, l) : kind \in Kinds, l \in Layers}
IsEarlier(kind, n) == \E m \in 1..(n - 1) : graph[m].kind = kind /\ graph[m].layer = graph[n].layer

FlawInv ==
    /\ shared \subseteq {"max", "delta", "exp"}
    /\ flaw = Sound \/ (shared = {} /\ flaw \in [layer: Layers, nest: NestFlaws])

GraphInv ==
    /\ graph \in Seq(Nests) /\ expected_exp_sites <= Len(graph)
    /\ \A m, n \in Lines : graph[m].kind = graph[n].kind /\ graph[m].layer = graph[n].layer => m = n
    /\ \A l \in Layers : graph[l].kind = "mask" /\ graph[l].layer = l
    /\ \A n \in Lines : graph[n].kind = "div" => IsEarlier("delta", n) /\ IsEarlier("exp", n)

ChainRecords == [exp: Lines, delta: Lines, max: Lines, sum: Lines, div: Lines, mask: Lines]
ChainHolds(chain, i) ==
    /\ graph[chain.exp].kind = "exp" /\ same_index(chain.exp)
    /\ IsLast(chain.delta, {n \in StoresInto(graph[chain.exp].a, chain.exp) : same_index(n)})
    /\ graph[chain.delta].kind = "delta"
    /\ IsLast(chain.max, StoresInto(graph[chain.delta].b, chain.delta))
    /\ graph[chain.max].kind = "max" /\ graph[chain.max].a = graph[chain.delta].a
    /\ \E n \in StoresInto(graph[chain.delta].b, chain.delta) : graph[n].kind = "max" /\ has_initialization(n)
    /\ NormalizedBy(chain.exp, chain.sum, chain.div) /\ has_initialization(chain.sum)
    /\ graph[chain.mask].kind = "mask" /\ graph[chain.mask].into = graph[chain.delta].a
    /\ graph[chain.mask].mask = i

(* Of two exponentials in one workspace the later one comes after the      *)
(* division of the earlier one.                                            *)
InTurn(first, second) ==
    /\ first.exp # second.exp
    /\ canonical_memref(graph[first.exp].into) = canonical_memref(graph[second.exp].into) => first.div < second.exp

SiteHolds(i) ==
    /\ ChainHolds(matcher.chains[i], i)
    /\ Region("exp", graph[matcher.chains[i].exp].into, matcher.chains[i].div) \in matcher.regions
    /\ \A j \in 1..(i - 1) : InTurn(matcher.chains[j], matcher.chains[i])

MatcherInv ==
    /\ matcher = [regions |-> matcher.regions, sums |-> matcher.sums, causal |-> matcher.causal,
                  chains |-> matcher.chains, verdict |-> matcher.verdict]
    /\ matcher.chains \in Seq(ChainRecords)
    /\ \A i \in DOMAIN matcher.chains : SiteHolds(i)
    /\ matcher.verdict = "bridged" => Unseen = {} /\ \A l \in Layers : Emitted("div", l)

PatternInv == FlawInv /\ GraphInv /\ MatcherInv

-----------------------------------------------------------------------------
LEMMA NestFields ==
  ASSUME NEW kind \in Kinds, NEW l \in Layers
  PROVE  /\ Nest(kind, l).kind = kind /\ Nest(kind, l).layer = l
         /\ Nest(kind, l).a = FirstOperand(kind, l) /\ Nest(kind, l).b = SecondOperand(kind, l)
         /\ Nest(kind, l).into = (IF kind \in {"mask", "div"} THEN <<"score", l>> ELSE <<kind, l>>)
         /\ Nest(kind, l).domain = ~Wrong(l, kind, "index") /\ Nest(kind, l).seeded = ~Wrong(l, kind, "seed")
         /\ Nest(kind, l).mask = (IF Wrong(l, "mask", "argument") THEN Other(l) ELSE l)
  BY DEF Nest

LEMMA LinesAreNests ==
  ASSUME GraphInv, NEW n \in Lines
  PROVE  /\ n \in Nat /\ graph[n].kind \in Kinds /\ graph[n].layer \in Layers
         /\ graph[n] = Nest(graph[n].kind, graph[n].layer)
  <1>1. graph[n] \in Nests /\ n \in Nat
    BY DEF GraphInv, Lines
  <1>2. PICK kind \in Kinds, l \in Layers : graph[n] = Nest(kind, l)
    BY <1>1 DEF Nests
  <1>3. graph[n].kind = kind /\ graph[n].layer = l
    <2>1. Nest(kind, l).kind = kind /\ Nest(kind, l).layer = l
      BY NestFields, ZenonT(60)
    <2>2. QED
      BY <1>2, <2>1
  <1>4. QED
    BY <1>1, <1>2, <1>3

LEMMA FlawsAreKnown ==
  ASSUME FlawInv, NEW l \in Layers, NEW kind, NEW what, Wrong(l, kind, what)
  PROVE  shared = {} /\ [kind |-> kind, what |-> what] \in NestFlaws
  <1>1. l # 0
    BY PatternAssumption DEF Layers
  <1>2. flaw.layer = l /\ flaw.nest = [kind |-> kind, what |-> what]
    BY DEF Wrong
  <1>3. flaw # Sound
    BY <1>1, <1>2 DEF Sound
  <1>4. flaw \in [layer: Layers, nest: NestFlaws] /\ shared = {}
    BY <1>3 DEF FlawInv
  <1>5. flaw.nest \in NestFlaws
    BY <1>4
  <1>6. QED
    BY <1>2, <1>4, <1>5

LEMMA OnlyTheseFlaws ==
  ASSUME FlawInv, NEW l \in Layers
  PROVE  /\ ~Wrong(l, "mask", "index") /\ ~Wrong(l, "mask", "seed") /\ ~Wrong(l, "max", "index")
         /\ ~Wrong(l, "delta", "seed") /\ ~Wrong(l, "exp", "seed") /\ ~Wrong(l, "div", "seed")
  <1>1. /\ [kind |-> "mask", what |-> "index"] \notin NestFlaws /\ [kind |-> "mask", what |-> "seed"] \notin NestFlaws
        /\ [kind |-> "max", what |-> "index"] \notin NestFlaws /\ [kind |-> "delta", what |-> "seed"] \notin NestFlaws
        /\ [kind |-> "exp", what |-> "seed"] \notin NestFlaws /\ [kind |-> "div", what |-> "seed"] \notin NestFlaws
    BY DEF NestFlaws
  <1>2. QED
    BY <1>1, FlawsAreKnown

LEMMA StoresAreOfTheirKind ==
  ASSUME FlawInv, GraphInv, NEW n \in Lines, NEW s, NEW l,
         canonical_memref(graph[n].into) = canonical_memref(<<s, l>>)
  PROVE  /\ s = IF graph[n].kind \in {"mask", "div"} THEN "score" ELSE graph[n].kind
         /\ s \notin shared => graph[n].layer = l
  <1> DEFINE k == graph[n].kind
             m == graph[n].layer
             t == IF k \in {"mask", "div"} THEN "score" ELSE k
  <1>1. graph[n].into = <<t, m>>
    <2>1. k \in Kinds /\ m \in Layers /\ graph[n] = Nest(k, m)
      BY LinesAreNests
    <2> HIDE DEF k, m
    <2>2. graph[n].into = (IF k \in {"mask", "div"} THEN <<"score", m>> ELSE <<k, m>>)
      BY <2>1, NestFields
    <2>3. QED
      BY <2>2
  <1> HIDE DEF t, m
  <1>2. canonical_memref(<<t, m>>) = (IF t \in shared THEN <<t, 0>> ELSE <<t, m>>)
    BY DEF canonical_memref
  <1>3. canonical_memref(<<s, l>>) = (IF s \in shared THEN <<s, 0>> ELSE <<s, l>>)
    BY DEF canonical_memref
  <1>4. s = t /\ (s \notin shared => m = l)
    BY <1>1, <1>2, <1>3
  <1>5. QED
    BY <1>4 DEF t, m

LEMMA IntoIs ==
  ASSUME GraphInv, NEW n \in Lines
  PROVE  graph[n].into = IF graph[n].kind \in {"mask", "div"} THEN <<"score", graph[n].layer>>
                         ELSE <<graph[n].kind, graph[n].layer>>
  BY LinesAreNests, NestFields

(* What is read is what the last store made.                               *)
LEMMA LastStoreIsRead ==
  ASSUME GraphInv, NEW view, view[1] # "raw", NEW n \in Lines, NEW k, IsLast(k, StoresInto(view, n)), NEW made
  PROVE  k \in Lines /\ k < n /\ Held(view, n, made) = made[k]
  <1>1. k \in 1..(n - 1) /\ n \in Nat /\ Len(graph) \in Nat /\ n <= Len(graph)
    BY DEF IsLast, StoresInto, Lines, GraphInv
  <1>2. k \in Lines /\ k < n
    BY <1>1 DEF Lines
  <1>3. ASSUME NEW j \in Lines, IsLast(j, StoresInto(view, n)) PROVE j = k
    <2>1. j \in StoresInto(view, n) /\ k \in StoresInto(view, n) /\ j <= k /\ k <= j
      BY <1>3 DEF IsLast
    <2>2. j \in Int /\ k \in Int
      BY <1>1, <1>3 DEF Lines
    <2>3. QED
      BY <2>1, <2>2
  <1>4. (CHOOSE j \in Lines : IsLast(j, StoresInto(view, n))) = k
    <2> HIDE DEF IsLast, StoresInto, Lines
    <2>1. QED
      BY <1>2, <1>3
  <1>5. QED
    BY <1>2, <1>4 DEF Held

LEMMA IsOne ==
  ASSUME GraphInv, NEW m \in Lines, NEW n \in Lines,
         graph[m].kind = graph[n].kind, graph[m].layer = graph[n].layer
  PROVE  m = n
  BY DEF GraphInv

(* Up to the maximum and the delta of a layer its score buffer holds what  *)
(* its mask stored.                                                        *)
LEMMA ScoresAreMasked ==
  ASSUME FlawInv, GraphInv, NEW delta \in Lines, graph[delta].kind = "delta",
         NEW n \in Lines, n <= delta, graph[n].kind # "mask", NEW made
  PROVE  LET l == graph[delta].layer IN l \in Lines /\ l < n /\ Held(<<"score", l>>, n, made) = made[l]
  <1> DEFINE l == graph[delta].layer
  <1>1. l \in Layers /\ l \in Nat /\ n \in Nat /\ delta \in Nat /\ expected_exp_sites \in Nat /\ Len(graph) \in Nat
        /\ n <= Len(graph) /\ delta <= Len(graph) /\ expected_exp_sites <= Len(graph)
    BY LinesAreNests, PatternAssumption DEF Layers, Lines, GraphInv
  <1>2. l \in Lines
    BY <1>1 DEF Lines, Layers
  <1>3. graph[l].kind = "mask" /\ graph[l].layer = l
    BY <1>1 DEF GraphInv
  <1>4. l < n
    <2>1. n \notin Layers
      BY DEF GraphInv
    <2>2. QED
      BY <1>1, <2>1 DEF Layers, Lines
  <1>5. ASSUME NEW k \in StoresInto(<<"score", l>>, n) PROVE k = l
    <2>1. k \in Lines /\ k < n /\ k \in Nat
      BY <1>1 DEF StoresInto, Lines
    <2>2. graph[k].kind \in {"mask", "div"} /\ graph[k].layer = l
      <3>1. canonical_memref(graph[k].into) = canonical_memref(<<"score", l>>)
        BY <1>5 DEF StoresInto
      <3>2. "score" \notin shared
        BY DEF FlawInv
      <3>3. "score" = (IF graph[k].kind \in {"mask", "div"} THEN "score" ELSE graph[k].kind)
            /\ graph[k].layer = l
        BY <2>1, <3>1, <3>2, StoresAreOfTheirKind
      <3>4. graph[k].kind # "score"
        BY <2>1, LinesAreNests DEF Kinds
      <3>5. QED
        BY <3>3, <3>4
    <2>3. graph[k].kind # "div"
      <3>1. SUFFICES ASSUME graph[k].kind = "div" PROVE FALSE
        OBVIOUS
      <3>2. PICK m \in 1..(k - 1) : graph[m].kind = "delta" /\ graph[m].layer = l
        BY <2>1, <2>2, <3>1 DEF GraphInv, IsEarlier
      <3>3. m \in Lines /\ m < k /\ m \in Nat
        BY <2>1, <1>1 DEF Lines
      <3>4. m = delta
        BY <3>2, <3>3, IsOne
      <3>5. QED
        BY <3>3, <3>4, <2>1, <1>1
    <2>4. graph[k].kind = "mask"
      BY <2>2, <2>3
    <2>5. QED
      BY <2>1, <2>2, <2>4, <1>2, <1>3, IsOne
  <1>6. l \in StoresInto(<<"score", l>>, n)
    <2>1. graph[l].into = <<"score", l>>
      BY <1>2, <1>3, IntoIs
    <2>2. l \in 1..(n - 1)
      BY <1>4, <1>1, <1>2 DEF Lines
    <2>3. QED
      BY <2>1, <2>2 DEF StoresInto
  <1>7. IsLast(l, StoresInto(<<"score", l>>, n))
    <2>1. \A k \in StoresInto(<<"score", l>>, n) : k <= l
      BY <1>5, <1>1
    <2>2. QED
      BY <2>1, <1>6 DEF IsLast
  <1>8. <<"score", l>>[1] # "raw"
    OBVIOUS
  <1> HIDE DEF l
  <1>9. Held(<<"score", l>>, n, made) = made[l]
    BY <1>7, <1>8, LastStoreIsRead
  <1>10. QED
    BY <1>2, <1>4, <1>9 DEF l

-----------------------------------------------------------------------------
(* What a chain says of its nests.                                         *)

(* With the slip of a nest its layer shares nothing, and then a buffer has *)
(* one store of each kind: the last store is the last of those that are on *)
(* the domain.                                                             *)
LEMMA DeltaIsRead ==
  ASSUME FlawInv, GraphInv, NEW exp \in Lines, graph[exp].kind = "exp",
         NEW delta, IsLast(delta, {n \in StoresInto(graph[exp].a, exp) : same_index(n)}), NEW made
  PROVE  delta \in Lines /\ delta < exp /\ same_index(delta) /\ Held(graph[exp].a, exp, made) = made[delta]
  <1> DEFINE l == graph[exp].layer
  <1>1. l \in Layers /\ exp \in Nat /\ Len(graph) \in Nat /\ exp <= Len(graph)
    BY LinesAreNests DEF GraphInv, Lines
  <1>2. graph[exp].a = <<"delta", l>>
    <2>1. graph[exp] = Nest("exp", l)
      BY LinesAreNests
    <2>2. Nest("exp", l).a = FirstOperand("exp", l)
      BY <1>1, NestFields DEF Kinds
    <2>3. QED
      BY <2>1, <2>2 DEF FirstOperand
  <1>3. delta \in StoresInto(<<"delta", l>>, exp) /\ same_index(delta)
    BY <1>2 DEF IsLast
  <1>4. \A n \in StoresInto(<<"delta", l>>, exp) : same_index(n) => n <= delta
    BY <1>2 DEF IsLast
  <1>5. ASSUME NEW n \in StoresInto(<<"delta", l>>, exp) PROVE n \in Lines /\ n \in Nat /\ graph[n].kind = "delta"
        /\ ("delta" \notin shared => graph[n].layer = l)
    <2>1. n \in Lines /\ n \in Nat /\ canonical_memref(graph[n].into) = canonical_memref(<<"delta", l>>)
      BY <1>1, <1>5 DEF StoresInto, Lines
    <2>2. /\ "delta" = IF graph[n].kind \in {"mask", "div"} THEN "score" ELSE graph[n].kind
          /\ "delta" \notin shared => graph[n].layer = l
      BY <2>1, StoresAreOfTheirKind
    <2>3. QED
      BY <2>1, <2>2
  <1>6. ASSUME NEW n \in StoresInto(<<"delta", l>>, exp) PROVE n <= delta
    <2>1. CASE same_index(n)
      BY <2>1, <1>4
    <2>2. CASE ~same_index(n)
      <3>1. n \in Lines /\ graph[n].kind = "delta" /\ graph[n].layer \in Layers /\ graph[n] = Nest(graph[n].kind, graph[n].layer)
        BY <1>5, LinesAreNests
      <3>2. Wrong(graph[n].layer, "delta", "index")
        <4>1. Nest("delta", graph[n].layer).domain = ~Wrong(graph[n].layer, "delta", "index")
          BY <3>1, NestFields DEF Kinds
        <4>2. QED
          BY <3>1, <4>1, <2>2 DEF same_index
      <3>3. "delta" \notin shared
        BY <3>1, <3>2, FlawsAreKnown
      <3>4. graph[n].layer = l /\ graph[delta].layer = l /\ graph[delta].kind = "delta" /\ delta \in Lines
        BY <1>3, <1>5, <3>3
      <3>5. n = delta
        BY <3>1, <3>4, IsOne
      <3>6. QED
        BY <1>5, <3>5
    <2>3. QED
      BY <2>1, <2>2
  <1>7. IsLast(delta, StoresInto(<<"delta", l>>, exp))
    BY <1>3, <1>6 DEF IsLast
  <1>8. <<"delta", l>>[1] # "raw"
    OBVIOUS
  <1> HIDE DEF l
  <1>9. QED
    BY <1>2, <1>3, <1>7, <1>8, LastStoreIsRead

(* The maximum is that of the delta's own layer, and starts from its seed. *)
LEMMA MaximumIsItsOwn ==
  ASSUME FlawInv, GraphInv, NEW delta \in Lines, graph[delta].kind = "delta",
         NEW max, IsLast(max, StoresInto(graph[delta].b, delta)),
         graph[max].kind = "max", graph[max].a = graph[delta].a,
         \E n \in StoresInto(graph[delta].b, delta) : graph[n].kind = "max" /\ has_initialization(n),
         NEW made
  PROVE  /\ max \in Lines /\ max < delta /\ Held(graph[delta].b, delta, made) = made[max]
         /\ graph[max].layer = graph[delta].layer /\ graph[max].a = <<"score", graph[delta].layer>>
         /\ has_initialization(max) /\ same_index(max)
  <1> DEFINE l == graph[delta].layer
             m == graph[max].layer
  <1>1. l \in Layers /\ delta \in Nat /\ Len(graph) \in Nat /\ delta <= Len(graph) /\ graph[delta] = Nest("delta", l)
    BY LinesAreNests DEF GraphInv, Lines
  <1>2. graph[delta].b = <<"max", l>> /\ graph[delta].a = <<"score", l>>
    <2>1. Nest("delta", l).a = FirstOperand("delta", l) /\ Nest("delta", l).b = SecondOperand("delta", l)
      BY <1>1, NestFields DEF Kinds
    <2>2. FirstOperand("delta", l) = <<"score", l>> /\ SecondOperand("delta", l) = <<"max", l>>
      BY DEF FirstOperand, SecondOperand
    <2>3. QED
      BY <1>1, <2>1, <2>2
  <1>3. max \in Lines /\ max < delta /\ Held(graph[delta].b, delta, made) = made[max]
    <2>1. <<"max", l>>[1] # "raw"
      OBVIOUS
    <2> HIDE DEF l
    <2>2. QED
      BY <1>2, <2>1, LastStoreIsRead
  <1>4. m \in Layers /\ graph[max] = Nest("max", m)
    BY <1>3, LinesAreNests
  <1>5. m = l
    <2>1. Nest("max", m).a = FirstOperand("max", m)
      BY <1>4, NestFields DEF Kinds
    <2>2. FirstOperand("max", m) \in {<<"raw", m>>, <<"score", m>>}
      BY DEF FirstOperand
    <2>3. graph[max].a = <<"score", l>>
      BY <1>2
    <2>4. <<"score", l>> = <<"score", m>> \/ <<"score", l>> = <<"raw", m>>
      BY <1>4, <2>1, <2>2, <2>3
    <2> HIDE DEF l, m
    <2>5. QED
      BY <2>4
  <1>6. same_index(max)
    <2>1. Nest("max", m).domain = ~Wrong(m, "max", "index")
      BY <1>4, NestFields DEF Kinds
    <2>2. QED
      BY <1>4, <2>1, OnlyTheseFlaws DEF same_index
  <1>7. has_initialization(max)
    <2>1. SUFFICES ASSUME ~has_initialization(max) PROVE FALSE
      OBVIOUS
    <2>2. Wrong(m, "max", "seed")
      <3>1. Nest("max", m).seeded = ~Wrong(m, "max", "seed")
        BY <1>4, NestFields DEF Kinds
      <3>2. QED
        BY <1>4, <2>1, <3>1 DEF has_initialization
    <2>3. shared = {}
      BY <1>4, <2>2, FlawsAreKnown
    <2>4. PICK n \in StoresInto(<<"max", l>>, delta) : graph[n].kind = "max" /\ has_initialization(n)
      BY <1>2
    <2>5. n \in Lines /\ canonical_memref(graph[n].into) = canonical_memref(<<"max", l>>)
      BY <1>1 DEF StoresInto, Lines
    <2>6. graph[n].layer = l
      <3>1. "max" \notin shared
        BY <2>3
      <3>2. QED
        BY <2>5, <3>1, StoresAreOfTheirKind
    <2>7. n = max
      BY <1>3, <1>5, <2>4, <2>5, <2>6, IsOne
    <2>8. QED
      BY <2>1, <2>4, <2>7
  <1>8. QED
    BY <1>2, <1>3, <1>5, <1>6, <1>7

(* The sums are in buffers of their own.                                   *)
LEMMA SumIsItsOwn ==
  ASSUME FlawInv, GraphInv, NEW sum \in Lines, graph[sum].kind = "sum", NEW div \in Lines, sum < div, NEW made
  PROVE  Held(graph[sum].into, div, made) = made[sum]
  <1> DEFINE l == graph[sum].layer
  <1>1. sum \in Nat /\ div \in Nat /\ Len(graph) \in Nat /\ div <= Len(graph)
    BY DEF GraphInv, Lines
  <1>2. graph[sum].into = <<"sum", l>>
    BY IntoIs
  <1>3. ASSUME NEW n \in StoresInto(<<"sum", l>>, div) PROVE n = sum
    <2>1. n \in Lines /\ canonical_memref(graph[n].into) = canonical_memref(<<"sum", l>>)
      BY <1>1 DEF StoresInto, Lines
    <2>2. "sum" \notin shared
      BY DEF FlawInv
    <2>3. /\ "sum" = IF graph[n].kind \in {"mask", "div"} THEN "score" ELSE graph[n].kind
          /\ graph[n].layer = l
      BY <2>1, <2>2, StoresAreOfTheirKind
    <2>4. graph[n].kind = "sum"
      BY <2>3
    <2>5. QED
      BY <2>1, <2>3, <2>4, IsOne
  <1>4. sum \in StoresInto(<<"sum", l>>, div)
    BY <1>1, <1>2 DEF StoresInto, Lines
  <1>5. IsLast(sum, StoresInto(<<"sum", l>>, div))
    <2>1. \A n \in StoresInto(<<"sum", l>>, div) : n <= sum
      BY <1>1, <1>3
    <2>2. QED
      BY <1>4, <2>1 DEF IsLast
  <1>6. <<"sum", l>>[1] # "raw"
    OBVIOUS
  <1> HIDE DEF l
  <1>7. QED
    BY <1>2, <1>5, <1>6, LastStoreIsRead

-----------------------------------------------------------------------------
(* When every exponential has its chain.                                   *)

LEMMA ChainTypes ==
  ASSUME MatcherInv, NEW i \in DOMAIN matcher.chains
  PROVE  LET chain == matcher.chains[i] IN
         /\ i \in Nat \ {0} /\ chain \in ChainRecords
         /\ chain.exp \in Lines /\ chain.delta \in Lines /\ chain.max \in Lines
         /\ chain.sum \in Lines /\ chain.div \in Lines /\ chain.mask \in Lines
  <1>1. matcher.chains \in Seq(ChainRecords)
    BY DEF MatcherInv
  <1>2. matcher.chains[i] \in ChainRecords /\ i \in Nat \ {0}
    BY <1>1
  <1>3. QED
    BY <1>2 DEF ChainRecords

LEMMA ChainsHold ==
  ASSUME MatcherInv, NEW i \in DOMAIN matcher.chains
  PROVE  ChainHolds(matcher.chains[i], i)
  BY DEF MatcherInv, SiteHolds

LEMMA EverySiteHasAChain ==
  ASSUME GraphInv, MatcherInv, matcher.verdict = "bridged"
  PROVE  Layers \subseteq DOMAIN matcher.chains
  <1> DEFINE D == DOMAIN matcher.chains
             Of(l, i) == graph[matcher.chains[i].exp].kind = "exp" /\ graph[matcher.chains[i].exp].layer = l
  <1>1. Unseen = {} /\ \A l \in Layers : Emitted("div", l)
    BY DEF MatcherInv
  <1>2. ASSUME NEW l \in Layers PROVE \E i \in D : Of(l, i)
    <2>1. PICK n \in Lines : graph[n].kind = "div" /\ graph[n].layer = l
      BY <1>1 DEF Emitted
    <2>2. PICK m \in 1..(n - 1) : graph[m].kind = "exp" /\ graph[m].layer = l
      BY <2>1 DEF GraphInv, IsEarlier
    <2>3. m \in ExpLines
      <3>1. n \in Nat /\ Len(graph) \in Nat /\ n <= Len(graph)
        BY DEF Lines, GraphInv
      <3>2. m \in Lines
        BY <3>1 DEF Lines
      <3>3. QED
        BY <2>2, <3>2 DEF ExpLines
    <2>4. PICK i \in D : matcher.chains[i].exp = m
      BY <1>1, <2>3 DEF Unseen
    <2>5. QED
      BY <2>2, <2>4
  <1>3. Len(matcher.chains) \in Nat /\ D = 1..Len(matcher.chains)
    BY DEF MatcherInv
  <1>4. SUFFICES ASSUME Len(matcher.chains) < expected_exp_sites PROVE FALSE
    BY <1>3, PatternAssumption DEF Layers
  <1> DEFINE f == [l \in Layers |-> CHOOSE i \in D : Of(l, i)]
  <1>5. ASSUME NEW l \in Layers PROVE f[l] \in D /\ Of(l, f[l])
    <2> HIDE DEF Of, D
    <2>1. f[l] = CHOOSE i \in D : Of(l, i)
      OBVIOUS
    <2>2. QED
      BY <1>2, <2>1
  <1>6. f \in [Layers -> D]
    <2> HIDE DEF Of, D
    <2>1. ASSUME NEW l \in Layers PROVE (CHOOSE i \in D : Of(l, i)) \in D
      BY <1>2
    <2>2. QED
      BY <2>1
  <1>7. /\ IsFiniteSet(Layers) /\ Cardinality(Layers) = expected_exp_sites
        /\ IsFiniteSet(D) /\ Cardinality(D) = Len(matcher.chains)
    <2>1. expected_exp_sites \in Nat \ {0} /\ Layers = 1..expected_exp_sites
      BY PatternAssumption DEF Layers
    <2>2. IsFiniteSet(1..expected_exp_sites) /\ Cardinality(1..expected_exp_sites) = expected_exp_sites
      BY <2>1, FS_Interval
    <2>3. IsFiniteSet(1..Len(matcher.chains)) /\ Cardinality(1..Len(matcher.chains)) = Len(matcher.chains)
      BY <1>3, FS_Interval
    <2> HIDE DEF D
    <2>4. QED
      BY <1>3, <2>1, <2>2, <2>3
  <1>8. \E x, y \in Layers : x # y /\ f[x] = f[y]
    <2> HIDE DEF f, D
    <2>1. QED
      BY <1>4, <1>6, <1>7, FS_PigeonHole
  <1>9. PICK x \in Layers, y \in Layers : x # y /\ f[x] = f[y]
    BY <1>8
  <1>10. Of(x, f[x]) /\ Of(y, f[y])
    BY <1>5
  <1>11. QED
    BY <1>9, <1>10

(* A chain with a layer's number is of that layer's scores: every layer    *)
(* has one, and no two masks have one argument.                            *)
LEMMA ChainIsOfItsLayer ==
  ASSUME FlawInv, GraphInv, MatcherInv, matcher.verdict = "bridged", NEW i \in Layers
  PROVE  /\ i \in DOMAIN matcher.chains
         /\ graph[matcher.chains[i].delta].layer = i
         /\ graph[i].mask = i
  <1> DEFINE mask(n) == matcher.chains[n].mask
             layer(n) == graph[mask(n)].layer
  <1>1. ASSUME NEW n \in Layers
        PROVE  /\ n \in DOMAIN matcher.chains /\ mask(n) \in Lines /\ graph[mask(n)].kind = "mask"
               /\ graph[mask(n)].mask = n /\ layer(n) \in Layers
               /\ n = IF Wrong(layer(n), "mask", "argument") THEN Other(layer(n)) ELSE layer(n)
    <2>1. n \in DOMAIN matcher.chains
      BY EverySiteHasAChain
    <2>2. mask(n) \in Lines /\ graph[mask(n)].kind = "mask" /\ graph[mask(n)].mask = n
      BY <2>1, ChainTypes, ChainsHold DEF ChainHolds
    <2> HIDE DEF mask
    <2>3. layer(n) \in Layers /\ graph[mask(n)] = Nest("mask", layer(n))
      BY <2>2, LinesAreNests
    <2> HIDE DEF layer
    <2>4. Nest("mask", layer(n)).mask = (IF Wrong(layer(n), "mask", "argument") THEN Other(layer(n)) ELSE layer(n))
      BY <2>3, NestFields DEF Kinds
    <2>5. QED
      BY <2>1, <2>2, <2>3, <2>4
  <1>2. \A l, m \in Layers : Wrong(l, "mask", "argument") /\ Wrong(m, "mask", "argument") => l = m
    <2>1. ASSUME NEW l \in Layers, NEW m \in Layers, Wrong(l, "mask", "argument"), Wrong(m, "mask", "argument")
          PROVE  l = m
      <3>1. flaw.layer = l /\ flaw.layer = m
        BY <2>1 DEF Wrong
      <3>2. QED
        BY <3>1
    <2>2. QED
      BY <2>1
  <1>3. layer(i) = i
    <2> HIDE DEF layer, mask
    <2>1. CASE ~Wrong(layer(i), "mask", "argument")
      BY <2>1, <1>1
    <2>2. CASE Wrong(layer(i), "mask", "argument")
      <3> DEFINE k == layer(i)
      <3>1. k \in Layers /\ i = Other(k)
        BY <2>2, <1>1
      <3>2. layer(k) \in Layers /\ k = IF Wrong(layer(k), "mask", "argument") THEN Other(layer(k)) ELSE layer(k)
        BY <3>1, <1>1
      <3>3. layer(k) = k
        BY <2>2, <3>1, <3>2, <1>2
      <3>4. k = Other(k)
        BY <2>2, <3>2, <3>3
      <3>5. QED
        BY <3>1, <3>4
    <2>3. QED
      BY <2>1, <2>2
  <1>4. graph[mask(i)].into = <<"score", i>>
    <2> HIDE DEF mask
    <2>1. mask(i) \in Lines /\ graph[mask(i)].kind = "mask" /\ graph[mask(i)].layer = i
      BY <1>1, <1>3
    <2>2. QED
      BY <2>1, IntoIs
  <1>5. mask(i) = i
    <2>1. mask(i) \in Lines /\ graph[mask(i)].kind = "mask" /\ graph[mask(i)].layer = i
      BY <1>1, <1>3
    <2>2. i \in Lines /\ graph[i].kind = "mask" /\ graph[i].layer = i
      BY PatternAssumption DEF GraphInv, Layers, Lines
    <2> HIDE DEF mask
    <2>3. QED
      BY <2>1, <2>2, IsOne
  <1>6. graph[i].mask = i
    BY <1>1, <1>5
  <1>7. graph[matcher.chains[i].delta].layer = i
    <2> DEFINE delta == matcher.chains[i].delta
    <2>1. delta \in Lines /\ graph[delta].kind = "delta" /\ graph[mask(i)].into = graph[delta].a
      BY <1>1, ChainTypes, ChainsHold DEF ChainHolds
    <2> HIDE DEF delta, mask
    <2>2. graph[delta].layer \in Layers /\ graph[delta] = Nest("delta", graph[delta].layer)
      BY <2>1, LinesAreNests
    <2>3. graph[delta].a = <<"score", graph[delta].layer>>
      BY <2>2, NestFields DEF FirstOperand, Kinds
    <2>4. <<"score", i>> = <<"score", graph[delta].layer>>
      BY <1>4, <2>1, <2>3
    <2>5. graph[delta].layer = i
      BY <2>4
    <2>6. QED
      BY <2>5 DEF delta
  <1>8. QED
    BY <1>1, <1>6, <1>7

-----------------------------------------------------------------------------
(* What the nests make.                                                    *)

LEMMA OutcomeReads ==
  ASSUME GraphInv, NEW n \in Lines, NEW f, NEW g, \A k \in 1..(n - 1) : f[k] = g[k]
  PROVE  Outcome(n, f) = Outcome(n, g)
  <1>1. ASSUME NEW view PROVE Held(view, n, f) = Held(view, n, g)
    <2> DEFINE c == CHOOSE k \in Lines : IsLast(k, StoresInto(view, n))
    <2>1. CASE \E k \in Lines : IsLast(k, StoresInto(view, n))
      <3>1. IsLast(c, StoresInto(view, n))
        <4> HIDE DEF IsLast, StoresInto, Lines
        <4>1. QED
          BY <2>1
      <3>2. c \in 1..(n - 1)
        BY <3>1 DEF IsLast, StoresInto
      <3>3. f[c] = g[c]
        BY <3>2
      <3> HIDE DEF IsLast, StoresInto, Lines
      <3>4. QED
        BY <3>3 DEF Held
    <2>2. CASE ~\E k \in Lines : IsLast(k, StoresInto(view, n))
      BY <2>2 DEF Held
    <2>3. QED
      BY <2>1, <2>2
  <1>2. Held(graph[n].a, n, f) = Held(graph[n].a, n, g) /\ Held(graph[n].b, n, f) = Held(graph[n].b, n, g)
    BY <1>1
  <1>3. QED
    BY <1>2, Zenon DEF Outcome

LEMMA MadeIs ==
  ASSUME GraphInv
  PROVE  \A n \in Lines : Made[n] = Outcome(n, Made)
  <1> DEFINE L == Len(graph)
             body(made) == [n \in Lines |-> Outcome(n, made)]
             T == {m \in Nat : m <= L => \E f : f = [n \in 1..m |-> Outcome(n, f)]}
  <1>1. L \in Nat /\ Lines = 1..L
    BY DEF GraphInv, Lines
  <1>2. 0 \in T
    <2>1. [n \in 1..0 |-> 0] = [n \in 1..0 |-> Outcome(n, [k \in 1..0 |-> 0])]
      OBVIOUS
    <2>2. QED
      BY <2>1
  <1>3. ASSUME NEW m \in Nat, m \in T PROVE m + 1 \in T
    <2>1. SUFFICES ASSUME m + 1 <= L PROVE \E f : f = [n \in 1..(m + 1) |-> Outcome(n, f)]
      BY <1>3
    <2>2. PICK f : f = [n \in 1..m |-> Outcome(n, f)]
      BY <1>3, <2>1, <1>1
    <2> DEFINE g == [n \in 1..(m + 1) |-> Outcome(n, f)]
    <2>3. \A n \in 1..m : n \in 1..(m + 1) /\ g[n] = f[n]
      <3>1. ASSUME NEW n \in 1..m PROVE n \in 1..(m + 1) /\ g[n] = f[n]
        <4>1. f[n] = Outcome(n, f)
          BY <2>2
        <4>2. n \in 1..(m + 1)
          OBVIOUS
        <4>3. QED
          BY <4>1, <4>2
      <3>2. QED
        BY <3>1
    <2>4. ASSUME NEW n \in 1..(m + 1) PROVE Outcome(n, f) = Outcome(n, g)
      <3>1. n \in Lines /\ \A k \in 1..(n - 1) : k \in 1..m
        BY <1>1, <2>1
      <3>2. \A k \in 1..(n - 1) : f[k] = g[k]
        BY <3>1, <2>3
      <3> HIDE DEF g
      <3>3. QED
        BY <3>1, <3>2, OutcomeReads
    <2>5. g = [n \in 1..(m + 1) |-> Outcome(n, g)]
      <3>1. [n \in 1..(m + 1) |-> Outcome(n, f)] = [n \in 1..(m + 1) |-> Outcome(n, g)]
        <4> HIDE DEF g
        <4>1. QED
          BY <2>4
      <3>2. QED
        BY <3>1, Zenon
    <2> HIDE DEF g
    <2>6. QED
      BY <2>5
  <1>4. L \in T
    <2> HIDE DEF T, L
    <2>1. QED
      BY <1>1, <1>2, <1>3, Induction
  <1>5. \E f : f = body(f)
    BY <1>1, <1>4
  <1>6. Made = CHOOSE made : made = body(made)
    BY Zenon DEF Made
  <1>7. Made = body(Made)
    BY <1>5, <1>6, Zenon
  <1> HIDE DEF Made
  <1>8. ASSUME NEW n \in Lines PROVE Made[n] = Outcome(n, Made)
    <2>1. body(Made)[n] = Outcome(n, Made)
      OBVIOUS
    <2> HIDE DEF body
    <2>2. QED
      BY <1>7, <2>1, Zenon
  <1>9. QED
    BY <1>8

(* What a nest makes that is on its domain and starts from its seed.       *)
LEMMA NestMakes ==
  ASSUME GraphInv, NEW n \in Lines, same_index(n), has_initialization(n)
  PROVE  LET a == Held(graph[n].a, n, Made)
             b == Held(graph[n].b, n, Made)
         IN  /\ graph[n].kind = "mask" => Made[n] = <<"masked", a, graph[n].mask>>
             /\ graph[n].kind \in {"delta", "div"} => Made[n] = <<graph[n].kind, a, b>>
             /\ graph[n].kind \in {"max", "exp", "sum"} => Made[n] = <<graph[n].kind, a>>
  <1>1. Made[n] = Outcome(n, Made)
    BY MadeIs
  <1>2. graph[n].domain /\ graph[n].seeded
    BY DEF same_index, has_initialization
  <1> HIDE DEF Made
  <1>3. QED
    BY <1>1, <1>2 DEF Outcome

LEMMA ChainRuns ==
  ASSUME MatcherInv, NEW i \in DOMAIN matcher.chains
  PROVE  LET chain == matcher.chains[i] IN
         /\ chain.exp < chain.sum /\ chain.sum < chain.div
         /\ chain.sum \in Reloads(chain.exp) /\ chain.div \in Reloads(chain.exp)
         /\ graph[chain.sum].kind = "sum" /\ graph[chain.div].kind = "div"
         /\ graph[chain.div].b = graph[chain.sum].into
  <1> DEFINE chain == matcher.chains[i]
  <1>1. NormalizedBy(chain.exp, chain.sum, chain.div)
    BY ChainsHold DEF ChainHolds
  <1> HIDE DEF chain
  <1>2. /\ graph[chain.sum].kind = "sum" /\ graph[chain.div].kind = "div" /\ chain.sum \in Reloads(chain.exp)
        /\ chain.div \in Reloads(chain.exp) /\ chain.div > chain.sum /\ graph[chain.div].b = graph[chain.sum].into
    BY <1>1 DEF NormalizedBy, IsFirst
  <1>3. chain.sum > chain.exp
    BY <1>2 DEF Reloads
  <1>4. chain.exp \in Lines /\ chain.sum \in Lines /\ chain.div \in Lines
    BY ChainTypes DEF chain
  <1>5. chain.exp < chain.sum /\ chain.sum < chain.div
    BY <1>2, <1>3, <1>4 DEF Lines
  <1>6. QED
    BY <1>2, <1>5 DEF chain

(* Until the division of a site its exponentials stay where they are.      *)
LEMMA PowersAreRead ==
  ASSUME FlawInv, GraphInv, MatcherInv, matcher.verdict = "bridged", NEW i \in DOMAIN matcher.chains,
         NEW n \in Reloads(matcher.chains[i].exp), n <= matcher.chains[i].div,
         graph[n].kind \in {"sum", "div"}, NEW made
  PROVE  Held(graph[n].a, n, made) = made[matcher.chains[i].exp]
  <1> DEFINE exp == matcher.chains[i].exp
             div == matcher.chains[i].div
             S == StoresInto(graph[n].a, n)
  <1>1. /\ n \in Lines /\ exp < n /\ canonical_memref(graph[n].a) = canonical_memref(graph[exp].into)
    <2>1. n \in Lines /\ n > exp /\ canonical_memref(graph[n].a) = canonical_memref(graph[exp].into)
      BY DEF Reloads
    <2>2. exp \in Lines
      BY ChainTypes
    <2>3. QED
      BY <2>1, <2>2 DEF Lines
  <1>2. exp \in Lines /\ div \in Lines /\ graph[exp].kind = "exp" /\ i \in Nat
    BY ChainTypes, ChainsHold DEF ChainHolds
  <1>3. Len(graph) \in Nat /\ n \in Nat /\ exp \in Nat /\ div \in Nat /\ n <= Len(graph)
    BY <1>1, <1>2 DEF GraphInv, Lines
  <1>4. graph[exp].into = <<"exp", graph[exp].layer>>
    BY <1>2, IntoIs
  <1>5. ASSUME NEW m \in S PROVE m <= exp
    <2>1. m \in Lines /\ m < n /\ m \in Nat /\ canonical_memref(graph[m].into) = canonical_memref(graph[exp].into)
      BY <1>1, <1>3, <1>5 DEF StoresInto, Lines
    <2>2. graph[m].kind = "exp"
      <3>1. "exp" = IF graph[m].kind \in {"mask", "div"} THEN "score" ELSE graph[m].kind
        <4> HIDE DEF exp
        <4>1. QED
          BY <1>4, <2>1, StoresAreOfTheirKind
      <3>2. QED
        BY <3>1
    <2>3. m \in ExpLines
      BY <2>1, <2>2 DEF ExpLines
    <2>4. PICK j \in DOMAIN matcher.chains : matcher.chains[j].exp = m
      BY <2>3 DEF MatcherInv, Unseen
    <2>5. j \in Nat \ {0} /\ i \in Nat \ {0} /\ matcher.chains[j].div \in Lines
      BY ChainTypes
    <2>6. CASE j = i
      BY <2>4, <2>6, <1>3
    <2>7. CASE j < i
      <3>1. InTurn(matcher.chains[j], matcher.chains[i])
        BY <2>5, <2>7 DEF MatcherInv, SiteHolds
      <3>2. matcher.chains[j].div < exp
        BY <2>1, <2>4, <3>1 DEF InTurn
      <3>3. m < matcher.chains[j].sum /\ matcher.chains[j].sum < matcher.chains[j].div
            /\ matcher.chains[j].sum \in Lines
        BY <2>4, ChainRuns, ChainTypes
      <3>4. QED
        BY <3>2, <3>3, <2>1, <2>5, <1>3 DEF Lines
    <2>8. CASE j > i
      <3>1. InTurn(matcher.chains[i], matcher.chains[j])
        BY <2>5, <2>8 DEF MatcherInv, SiteHolds
      <3>2. div < m
        BY <2>1, <2>4, <3>1 DEF InTurn
      <3>3. QED
        BY <3>2, <2>1, <1>3
    <2>9. QED
      BY <2>5, <2>6, <2>7, <2>8
  <1>6. exp \in S
    <2>1. exp \in 1..(n - 1)
      BY <1>1, <1>2, <1>3 DEF Lines
    <2>2. QED
      BY <1>1, <2>1 DEF StoresInto
  <1>7. IsLast(exp, S)
    <2> HIDE DEF exp, S
    <2>1. QED
      BY <1>5, <1>6 DEF IsLast
  <1>8. graph[n].a[1] # "raw"
    <2>1. PICK kind \in Kinds, l \in Layers : kind = graph[n].kind /\ graph[n] = Nest(kind, l)
      BY <1>1, LinesAreNests
    <2>2. kind \in {"sum", "div"}
      BY <2>1
    <2>3. Nest(kind, l).a = FirstOperand(kind, l)
      BY DEF Nest
    <2>4. FirstOperand(kind, l) = <<"exp", l>>
      BY <2>2 DEF FirstOperand
    <2>5. QED
      BY <2>1, <2>3, <2>4
  <1> HIDE DEF exp
  <1>9. Held(graph[n].a, n, made) = made[exp]
    BY <1>1, <1>7, <1>8, LastStoreIsRead
  <1>10. QED
    BY <1>9 DEF exp

LEMMA SeedsAreSound ==
  ASSUME FlawInv, GraphInv, NEW n \in Lines
  PROVE  /\ graph[n].kind \in {"mask", "delta", "exp", "div"} => has_initialization(n)
         /\ graph[n].kind \in {"mask", "max"} => same_index(n)
  <1>1. PICK kind \in Kinds, l \in Layers : kind = graph[n].kind /\ graph[n] = Nest(kind, l)
    BY LinesAreNests
  <1>2. Nest(kind, l).domain = ~Wrong(l, kind, "index") /\ Nest(kind, l).seeded = ~Wrong(l, kind, "seed")
    BY DEF Nest
  <1>3. kind \in {"mask", "delta", "exp", "div"} => ~Wrong(l, kind, "seed")
    BY OnlyTheseFlaws
  <1>4. kind \in {"mask", "max"} => ~Wrong(l, kind, "index")
    BY OnlyTheseFlaws
  <1>5. QED
    BY <1>1, <1>2, <1>3, <1>4 DEF same_index, has_initialization

LEMMA MaskMakes ==
  ASSUME FlawInv, GraphInv, NEW i \in Layers, graph[i].mask = i
  PROVE  Made[i] = <<"masked", <<"raw", i>>, i>>
  <1>1. i \in Lines /\ graph[i].kind = "mask" /\ graph[i].layer = i
    BY PatternAssumption DEF GraphInv, Layers, Lines
  <1>2. graph[i].a = <<"raw", i>>
    <2>1. graph[i] = Nest("mask", i)
      BY <1>1, LinesAreNests
    <2>2. Nest("mask", i).a = FirstOperand("mask", i)
      BY NestFields DEF Kinds
    <2>3. QED
      BY <2>1, <2>2 DEF FirstOperand
  <1>3. Held(<<"raw", i>>, i, Made) = <<"raw", i>>
    BY DEF Held
  <1>4. same_index(i) /\ has_initialization(i)
    BY <1>1, SeedsAreSound
  <1> HIDE DEF Made
  <1>5. Made[i] = <<"masked", Held(graph[i].a, i, Made), graph[i].mask>>
    BY <1>1, <1>4, NestMakes
  <1>6. QED
    BY <1>2, <1>3, <1>5

LEMMA SiteIsSoftmax ==
  ASSUME FlawInv, GraphInv, MatcherInv, matcher.verdict = "bridged", NEW i \in Layers
  PROVE  LET masked == <<"masked", <<"raw", i>>, i>>
             powers == <<"exp", <<"delta", masked, <<"max", masked>>>>>>
         IN  Made[matcher.chains[i].div] = <<"div", powers, <<"sum", powers>>>>
  <1> DEFINE exp == matcher.chains[i].exp
             delta == matcher.chains[i].delta
             max == matcher.chains[i].max
             sum == matcher.chains[i].sum
             div == matcher.chains[i].div
             masked == <<"masked", <<"raw", i>>, i>>
             powers == <<"exp", <<"delta", masked, <<"max", masked>>>>>>
  <1>1. i \in DOMAIN matcher.chains /\ graph[delta].layer = i /\ graph[i].mask = i
    BY ChainIsOfItsLayer
  <1>2. exp \in Lines /\ delta \in Lines /\ max \in Lines /\ sum \in Lines /\ div \in Lines
    BY <1>1, ChainTypes
  <1>3. ChainHolds(matcher.chains[i], i)
    BY <1>1, ChainsHold
  <1>4. /\ exp < sum /\ sum < div /\ sum \in Reloads(exp) /\ div \in Reloads(exp)
        /\ graph[sum].kind = "sum" /\ graph[div].kind = "div" /\ graph[div].b = graph[sum].into
    BY <1>1, ChainRuns
  <1>5. /\ sum \in Reloads(exp) => Held(graph[sum].a, sum, Made) = Made[exp]
        /\ div \in Reloads(exp) => Held(graph[div].a, div, Made) = Made[exp]
    <2>1. sum <= div /\ div <= div
      BY <1>2, <1>4 DEF Lines
    <2> HIDE DEF Made
    <2>2. QED
      BY <1>1, <1>4, <2>1, PowersAreRead
  <1>6. /\ graph[exp].kind = "exp" /\ same_index(exp)
        /\ IsLast(delta, {n \in StoresInto(graph[exp].a, exp) : same_index(n)})
        /\ graph[delta].kind = "delta"
        /\ IsLast(max, StoresInto(graph[delta].b, delta))
        /\ graph[max].kind = "max" /\ graph[max].a = graph[delta].a
        /\ \E n \in StoresInto(graph[delta].b, delta) : graph[n].kind = "max" /\ has_initialization(n)
        /\ has_initialization(sum)
    BY <1>3 DEF ChainHolds
  <1> HIDE DEF exp, delta, max, sum, div, Made
  <1>7. same_index(delta) /\ Held(graph[exp].a, exp, Made) = Made[delta]
    BY <1>2, <1>6, DeltaIsRead
  <1>8. /\ max < delta /\ Held(graph[delta].b, delta, Made) = Made[max]
        /\ graph[max].layer = i /\ graph[max].a = <<"score", i>>
        /\ has_initialization(max) /\ same_index(max)
    BY <1>1, <1>2, <1>6, MaximumIsItsOwn
  <1>9. Held(graph[sum].into, div, Made) = Made[sum]
    BY <1>2, <1>4, SumIsItsOwn
  <1>10. Held(<<"score", i>>, max, Made) = Made[i] /\ Held(<<"score", i>>, delta, Made) = Made[i]
    <2>1. max <= delta /\ delta <= delta
      BY <1>2, <1>8 DEF Lines
    <2>2. QED
      BY <1>1, <1>2, <1>6, <2>1, ScoresAreMasked
  <1>11. Made[i] = masked
    BY <1>1, MaskMakes
  <1> HIDE DEF masked
  <1>12. Made[max] = <<"max", masked>>
    <2>1. Made[max] = <<"max", Held(graph[max].a, max, Made)>>
      BY <1>2, <1>6, <1>8, NestMakes
    <2>2. QED
      BY <2>1, <1>8, <1>10, <1>11
  <1>13. Made[delta] = <<"delta", masked, <<"max", masked>>>>
    <2>1. has_initialization(delta)
      BY <1>2, <1>6, SeedsAreSound
    <2>2. Made[delta] = <<"delta", Held(graph[delta].a, delta, Made), Held(graph[delta].b, delta, Made)>>
      BY <1>2, <1>6, <1>7, <2>1, NestMakes
    <2>3. QED
      BY <2>2, <1>6, <1>8, <1>10, <1>11, <1>12
  <1>14. Made[exp] = powers
    <2>1. has_initialization(exp)
      BY <1>2, <1>6, SeedsAreSound
    <2>2. Made[exp] = <<"exp", Held(graph[exp].a, exp, Made)>>
      BY <1>2, <1>6, <2>1, NestMakes
    <2>3. QED
      BY <2>2, <1>7, <1>13
  <1> HIDE DEF powers
  <1>15. Made[sum] = <<"sum", powers>>
    <2>1. same_index(sum)
      BY <1>4 DEF Reloads
    <2>2. Made[sum] = <<"sum", Held(graph[sum].a, sum, Made)>>
      BY <1>2, <1>4, <1>6, <2>1, NestMakes
    <2>3. QED
      BY <2>2, <1>4, <1>5, <1>14
  <1>16. Made[div] = <<"div", powers, <<"sum", powers>>>>
    <2>1. same_index(div) /\ has_initialization(div)
      BY <1>2, <1>4, SeedsAreSound DEF Reloads
    <2>2. Made[div] = <<"div", Held(graph[div].a, div, Made), Held(graph[div].b, div, Made)>>
      BY <1>2, <1>4, <2>1, NestMakes
    <2>3. QED
      BY <2>2, <1>4, <1>5, <1>9, <1>14, <1>15
  <1>17. QED
    BY <1>16, Zenon DEF div, powers, masked

LEMMA SitesAreSoftmax ==
  ASSUME FlawInv, GraphInv, MatcherInv
  PROVE  BridgedSitesAreSoftmax
  BY SiteIsSoftmax, Zenon DEF BridgedSitesAreSoftmax

-----------------------------------------------------------------------------
(* The invariant holds at first, and every step keeps it.                  *)

LEMMA PatternInitInv == ASSUME PatternInit PROVE PatternInv
  <1>1. shared \subseteq {"max", "delta", "exp"}
    BY PatternAssumption DEF PatternInit
  <1>2. FlawInv
    BY <1>1 DEF PatternInit, FlawInv
  <1>3. expected_exp_sites \in Nat \ {0} /\ Layers = 1..expected_exp_sites
    BY PatternAssumption DEF Layers
  <1>4. \A l \in Layers : graph[l] = Nest("mask", l) /\ graph[l].kind = "mask" /\ graph[l].layer = l
    <2>1. ASSUME NEW l \in Layers PROVE graph[l] = Nest("mask", l) /\ graph[l].kind = "mask" /\ graph[l].layer = l
      <3>1. graph[l] = Nest("mask", l)
        BY DEF PatternInit
      <3>2. Nest("mask", l).kind = "mask" /\ Nest("mask", l).layer = l
        BY NestFields DEF Kinds
      <3>3. QED
        BY <3>1, <3>2
    <2>2. QED
      BY <2>1
  <1>5. graph \in Seq(Nests) /\ Len(graph) = expected_exp_sites
    <2>1. graph = [l \in 1..expected_exp_sites |-> Nest("mask", l)]
      BY <1>3 DEF PatternInit
    <2>2. \A l \in 1..expected_exp_sites : Nest("mask", l) \in Nests
      BY <1>3 DEF Nests, Kinds
    <2>3. QED
      BY <1>3, <2>1, <2>2
  <1>6. Lines = Layers
    BY <1>3, <1>5 DEF Lines
  <1>7. GraphInv
    BY <1>3, <1>4, <1>5, <1>6 DEF GraphInv
  <1>8. MatcherInv
    BY DEF PatternInit, MatcherInv, Unmatched
  <1>9. QED
    BY <1>2, <1>7, <1>8 DEF PatternInv

LEMMA AddNestKeeps == ASSUME PatternInv, AddNest PROVE PatternInv'
  <1>1. FlawInv /\ GraphInv /\ matcher = Unmatched
    BY DEF PatternInv, AddNest
  <1>2. PICK l \in Layers, k \in DOMAIN NestKinds :
          /\ ~Emitted(NestKinds[k], l)
          /\ \A earlier \in 1..(k - 1) : Emitted(NestKinds[earlier], l)
          /\ graph' = Append(graph, Nest(NestKinds[k], l))
    BY DEF AddNest
  <1>3. shared' = shared /\ flaw' = flaw /\ matcher' = matcher
    BY DEF AddNest
  <1> DEFINE kind == NestKinds[k]
             nest == Nest(kind, l)
             L == Len(graph)
  <1>4. kind \in Kinds /\ kind # "mask" /\ (kind = "div" => Emitted("delta", l) /\ Emitted("exp", l))
    <2>1. k \in 1..5 /\ NestKinds = <<"max", "delta", "exp", "sum", "div">>
      BY DEF NestKinds
    <2>2. kind \in {"max", "delta", "exp", "sum", "div"} /\ (kind = "div" => k = 5)
      BY <2>1
    <2>3. k = 5 => Emitted("delta", l) /\ Emitted("exp", l)
      <3>1. k = 5 => 2 \in 1..(k - 1) /\ 3 \in 1..(k - 1)
        OBVIOUS
      <3>2. NestKinds[2] = "delta" /\ NestKinds[3] = "exp"
        BY DEF NestKinds
      <3>3. QED
        BY <1>2, <3>1, <3>2
    <2>4. QED
      BY <2>2, <2>3 DEF Kinds
  <1> HIDE DEF kind
  <1>5. nest.kind = kind /\ nest.layer = l
    BY <1>4, NestFields, ZenonT(60)
  <1>6. nest \in Nests
    BY <1>4 DEF Nests
  <1> HIDE DEF nest
  <1>7. /\ graph \in Seq(Nests) /\ L \in Nat /\ graph' = Append(graph, nest)
        /\ expected_exp_sites \in Nat /\ expected_exp_sites <= L
    BY <1>1, <1>2, PatternAssumption DEF GraphInv, nest, kind
  <1>8. /\ graph' \in Seq(Nests) /\ Len(graph') = L + 1 /\ graph'[L + 1] = nest
        /\ \A n \in 1..L : graph'[n] = graph[n]
    BY <1>6, <1>7
  <1>9. FlawInv'
    BY <1>1, <1>3 DEF FlawInv
  <1>10. GraphInv'
    <2>1. Nests' = Nests
      BY <1>3 DEF Nests, Nest, Wrong, FirstOperand, SecondOperand
    <2>2. \A n \in 1..L : ~(graph[n].kind = kind /\ graph[n].layer = l)
      BY <1>2 DEF Emitted, Lines, kind
    <2>3. ASSUME NEW m \in 1..(L + 1), NEW n \in 1..(L + 1), graph'[m].kind = graph'[n].kind, graph'[m].layer = graph'[n].layer
          PROVE  m = n
      <3>1. CASE m \in 1..L /\ n \in 1..L
        BY <3>1, <2>3, <1>1, <1>8 DEF GraphInv, Lines
      <3>2. CASE m = L + 1 /\ n \in 1..L
        BY <3>2, <2>2, <2>3, <1>5, <1>8
      <3>3. CASE n = L + 1 /\ m \in 1..L
        BY <3>3, <2>2, <2>3, <1>5, <1>8
      <3>4. QED
        BY <3>1, <3>2, <3>3, <1>7
    <2>4. \A n \in Layers : n \in 1..L /\ graph'[n].kind = "mask" /\ graph'[n].layer = n
      BY <1>1, <1>7, <1>8 DEF GraphInv, Layers
    <2>5. ASSUME NEW n \in 1..(L + 1), graph'[n].kind = "div", NEW other \in {"delta", "exp"}
          PROVE  \E m \in 1..(n - 1) : graph'[m].kind = other /\ graph'[m].layer = graph'[n].layer
      <3>1. CASE n \in 1..L
        <4>1. graph[n].kind = "div" /\ graph'[n].layer = graph[n].layer
          BY <3>1, <2>5, <1>8
        <4>2. PICK m \in 1..(n - 1) : graph[m].kind = other /\ graph[m].layer = graph[n].layer
          BY <3>1, <4>1, <2>5, <1>1 DEF GraphInv, IsEarlier, Lines
        <4>3. m \in 1..L
          BY <3>1, <1>7
        <4>4. QED
          BY <4>1, <4>2, <4>3, <1>8
      <3>2. CASE n = L + 1
        <4>1. kind = "div" /\ graph'[n].layer = l
          BY <3>2, <2>5, <1>5, <1>8
        <4>2. PICK m \in 1..L : graph[m].kind = other /\ graph[m].layer = l
          BY <4>1, <2>5, <1>4 DEF Emitted, Lines
        <4>3. m \in 1..(n - 1) /\ graph'[m] = graph[m]
          BY <3>2, <1>7, <1>8
        <4>4. QED
          BY <4>1, <4>2, <4>3
      <3>3. QED
        BY <3>1, <3>2, <1>7
    <2>6. Lines' = 1..(L + 1)
      BY <1>8 DEF Lines
    <2>7. graph' \in Seq(Nests') /\ expected_exp_sites <= Len(graph')
      BY <2>1, <1>7, <1>8
    <2>8. \A n \in Lines' : graph'[n].kind = "div" => IsEarlier("delta", n)' /\ IsEarlier("exp", n)'
      BY <2>5, <2>6 DEF IsEarlier
    <2>9. \A m, n \in Lines' : graph'[m].kind = graph'[n].kind /\ graph'[m].layer = graph'[n].layer => m = n
      BY <2>3, <2>6
    <2>10. QED
      BY <2>4, <2>7, <2>8, <2>9 DEF GraphInv
  <1>11. MatcherInv'
    BY <1>1, <1>3 DEF MatcherInv, Unmatched
  <1>12. QED
    BY <1>9, <1>10, <1>11 DEF PatternInv

-----------------------------------------------------------------------------
(* Matching keeps what the chains so far say.                              *)

LEMMA ChainsAreSound ==
  ASSUME PatternInv, NEW chain \in Chains
  PROVE  /\ chain \in ChainRecords /\ chain.exp \in Unseen
         /\ ChainHolds(chain, number)
         /\ temporal_reuse_safe("exp", graph[chain.exp].into, chain.exp)
  <1> DEFINE exps   == {n \in Lines : IsFirst(n, Unseen)}
             deltas == {n \in Lines : \E exp \in exps : DeltaOf(exp, n)}
             sums   == {n \in Lines : \E exp \in exps, div \in Lines : NormalizationOf(exp, n, div)}
             maxes  == {n \in Lines : \E delta \in deltas : RowMaxOf(delta, n)}
             divs   == {n \in Lines : \E exp \in exps, sum \in sums : NormalizedBy(exp, sum, n)}
             masks  == {n \in Lines : \E delta \in deltas : CausalOf(delta, n)}
  <1>1. chain \in [exp: exps, delta: deltas, max: maxes, sum: sums, div: divs, mask: masks]
    BY Zenon DEF Chains
  <1>2. /\ chain.exp \in exps /\ chain.delta \in deltas /\ chain.max \in maxes
        /\ chain.sum \in sums /\ chain.div \in divs /\ chain.mask \in masks
        /\ chain = [exp |-> chain.exp, delta |-> chain.delta, max |-> chain.max,
                    sum |-> chain.sum, div |-> chain.div, mask |-> chain.mask]
    <2> HIDE DEF exps, deltas, maxes, sums, divs, masks
    <2>1. QED
      BY <1>1
  <1>3. \A n \in Lines : n \in Int
    BY DEF Lines
  <1>4. \A m, n \in exps : m = n
    <2>1. \A m, n \in exps : m \in Lines /\ n \in Lines /\ m <= n /\ n <= m
      BY DEF IsFirst
    <2>2. QED
      BY <2>1, <1>3
  <1>5. chain.exp \in Lines /\ chain.exp \in Unseen
    BY <1>2 DEF IsFirst
  <1>6. \A exp \in exps : exp = chain.exp
    BY <1>2, <1>4
  <1> HIDE DEF exps
  <1>7. chain.delta \in Lines /\ DeltaOf(chain.exp, chain.delta)
    BY <1>2, <1>6
  <1>8. \A delta \in deltas : delta = chain.delta
    <2>1. \A delta \in deltas : delta \in Lines /\ delta <= chain.delta /\ chain.delta <= delta
      <3>1. ASSUME NEW delta \in deltas PROVE delta \in Lines /\ delta <= chain.delta /\ chain.delta <= delta
        <4>1. delta \in Lines /\ DeltaOf(chain.exp, delta)
          BY <1>6
        <4>2. QED
          BY <1>7, <4>1 DEF DeltaOf, IsLast
      <3>2. QED
        BY <3>1
    <2>2. QED
      BY <2>1, <1>3, <1>7
  <1> HIDE DEF deltas
  <1>9. chain.max \in Lines /\ RowMaxOf(chain.delta, chain.max)
    BY <1>2, <1>8
  <1>10. chain.mask \in Lines /\ CausalOf(chain.delta, chain.mask)
    BY <1>2, <1>8
  <1>11. chain.sum \in Lines /\ \E div \in Lines : NormalizationOf(chain.exp, chain.sum, div)
    BY <1>2, <1>6
  <1>12. \A sum \in sums : sum = chain.sum
    <2>1. \A sum \in sums : sum \in Lines /\ sum <= chain.sum /\ chain.sum <= sum
      <3>1. ASSUME NEW sum \in sums PROVE sum \in Lines /\ sum <= chain.sum /\ chain.sum <= sum
        <4>1. sum \in Lines /\ \E div \in Lines : NormalizationOf(chain.exp, sum, div)
          BY <1>6
        <4>2. QED
          BY <1>11, <4>1 DEF NormalizationOf
      <3>2. QED
        BY <3>1
    <2>2. QED
      BY <2>1, <1>3, <1>11
  <1> HIDE DEF sums
  <1>13. chain.div \in Lines /\ NormalizedBy(chain.exp, chain.sum, chain.div)
    BY <1>2, <1>6, <1>12
  <1>14. chain \in ChainRecords
    BY <1>2, <1>5, <1>7, <1>9, <1>10, <1>11, <1>13 DEF ChainRecords
  <1>15. /\ has_initialization(chain.sum) /\ same_index(chain.exp)
         /\ temporal_reuse_safe("exp", graph[chain.exp].into, chain.exp)
    BY <1>11 DEF NormalizationOf
  <1>16. graph[chain.exp].kind = "exp"
    BY <1>5 DEF Unseen, ExpLines
  <1>17. /\ graph[chain.mask].kind = "mask" /\ graph[chain.mask].into = graph[chain.delta].a
         /\ graph[chain.mask].mask = number
    BY <1>10 DEF CausalOf, IsFirst
  <1>18. ChainHolds(chain, number)
    BY <1>7, <1>9, <1>13, <1>15, <1>16, <1>17 DEF ChainHolds, DeltaOf, RowMaxOf
  <1>19. QED
    BY <1>5, <1>14, <1>15, <1>18

LEMMA ChainStays ==
  ASSUME shared' = shared, flaw' = flaw, graph' = graph, NEW chain, NEW i, ChainHolds(chain, i)
  PROVE  ChainHolds(chain, i)'
  <1>1. Lines' = Lines /\ \A n : same_index(n)' = same_index(n) /\ has_initialization(n)' = has_initialization(n)
    BY DEF Lines, same_index, has_initialization
  <1>2. \A view : canonical_memref(view)' = canonical_memref(view)
    BY DEF canonical_memref
  <1>3. \A view, before : StoresInto(view, before)' = StoresInto(view, before)
    BY DEF StoresInto, canonical_memref
  <1>4. \A exp : Reloads(exp)' = Reloads(exp)
    BY DEF Reloads, canonical_memref, Lines, same_index
  <1>5. QED
    BY <1>1, <1>3, <1>4 DEF ChainHolds, IsLast, IsFirst, NormalizedBy

(* A chain that was found stays as it was found.                           *)
LEMMA SiteStays ==
  ASSUME shared' = shared, flaw' = flaw, graph' = graph, matcher.regions \subseteq matcher'.regions,
         NEW i, SiteHolds(i), \A j \in 1..(i - 1) : matcher'.chains[j] = matcher.chains[j],
         matcher'.chains[i] = matcher.chains[i]
  PROVE  SiteHolds(i)'
  <1>1. PICK chain : chain = matcher.chains[i]
    OBVIOUS
  <1>2. ChainHolds(chain, i)'
    BY <1>1, ChainStays DEF SiteHolds
  <1>3. ChainHolds(matcher.chains[i], i)'
    BY <1>1, <1>2 DEF ChainHolds
  <1>4. canonical_memref(graph[chain.exp].into)' = canonical_memref(graph[chain.exp].into)
    BY DEF canonical_memref
  <1>5. (Region("exp", graph[matcher.chains[i].exp].into, matcher.chains[i].div) \in matcher.regions)'
    <2>1. Region("exp", graph[chain.exp].into, chain.div) \in matcher'.regions
      BY <1>1 DEF SiteHolds
    <2>2. Region("exp", graph[chain.exp].into, chain.div)' = Region("exp", graph[chain.exp].into, chain.div)
      BY <1>4 DEF Region
    <2>3. QED
      BY <1>1, <2>1, <2>2 DEF Region, canonical_memref
  <1>6. ASSUME NEW j \in 1..(i - 1) PROVE InTurn(matcher.chains[j], matcher.chains[i])'
    BY DEF SiteHolds, InTurn, canonical_memref
  <1>7. QED
    BY <1>3, <1>5, <1>6 DEF SiteHolds

LEMMA GraphStays ==
  ASSUME shared' = shared, flaw' = flaw, graph' = graph, FlawInv, GraphInv
  PROVE  FlawInv' /\ GraphInv' /\ ChainRecords' = ChainRecords /\ ExpLines' = ExpLines
         /\ \A l \in Layers : Emitted("div", l) => Emitted("div", l)'
  <1>1. FlawInv'
    BY DEF FlawInv
  <1>2. Nests' = Nests
    BY DEF Nests, Nest, Wrong, FirstOperand, SecondOperand
  <1>3. GraphInv'
    BY <1>2 DEF GraphInv, IsEarlier, Lines
  <1>4. QED
    BY <1>1, <1>3 DEF ChainRecords, ExpLines, Emitted, Lines

LEMMA MatcherStays ==
  ASSUME shared' = shared, flaw' = flaw, graph' = graph, PatternInv,
         matcher' = matcher \/ matcher' = [matcher EXCEPT !.verdict = "refused"]
  PROVE  MatcherInv'
  <1>1. PICK regions, sums, causal, chains, verdict :
          matcher = [regions |-> regions, sums |-> sums, causal |-> causal, chains |-> chains, verdict |-> verdict]
    BY DEF PatternInv, MatcherInv
  <1>2. PICK said : matcher' = [regions |-> regions, sums |-> sums, causal |-> causal, chains |-> chains, verdict |-> said]
                    /\ said \in {verdict, "refused"}
    BY <1>1
  <1>3. /\ matcher'.chains = matcher.chains /\ matcher'.regions = matcher.regions
        /\ matcher'.verdict = "bridged" => matcher.verdict = "bridged"
        /\ matcher' = [regions |-> matcher'.regions, sums |-> matcher'.sums, causal |-> matcher'.causal,
                       chains |-> matcher'.chains, verdict |-> matcher'.verdict]
    BY <1>1, <1>2
  <1>4. ASSUME NEW i \in DOMAIN matcher.chains PROVE SiteHolds(i)'
    <2>1. SiteHolds(i)
      BY DEF PatternInv, MatcherInv
    <2>2. QED
      BY <1>3, <2>1, SiteStays
  <1>5. Unseen' = Unseen
    BY <1>3, GraphStays DEF PatternInv, Unseen
  <1>6. matcher.chains \in Seq(ChainRecords)
        /\ (matcher.verdict = "bridged" => Unseen = {} /\ \A l \in Layers : Emitted("div", l))
    BY DEF PatternInv, MatcherInv
  <1>7. ChainRecords' = ChainRecords /\ \A l \in Layers : Emitted("div", l) => Emitted("div", l)'
    BY GraphStays DEF PatternInv
  <1>8. QED
    BY <1>3, <1>4, <1>5, <1>6, <1>7 DEF MatcherInv

LEMMA MatchSiteKeeps == ASSUME PatternInv, MatchSite PROVE PatternInv'
  <1> DEFINE Matched(chain) ==
               [regions |-> matcher.regions \cup RegionsOf(chain),
                sums |-> matcher.sums \cup {graph[chain.sum].into},
                causal |-> matcher.causal \cup {chain.mask},
                chains |-> Append(matcher.chains, chain),
                verdict |-> IF Unseen = {chain.exp} THEN "bridged" ELSE "none"]
  <1>1. shared' = shared /\ flaw' = flaw /\ graph' = graph /\ \A l \in Layers : Emitted("div", l)
    BY DEF MatchSite
  <1>2. FlawInv' /\ GraphInv' /\ ChainRecords' = ChainRecords /\ ExpLines' = ExpLines
        /\ \A l \in Layers : Emitted("div", l)'
    BY <1>1, GraphStays DEF PatternInv
  <1>3. CASE matcher' = [matcher EXCEPT !.verdict = "refused"]
    BY <1>1, <1>2, <1>3, MatcherStays DEF PatternInv
  <1>4. ASSUME NEW chain \in Chains, matcher' = Matched(chain)
        PROVE  MatcherInv'
    <2>0. PICK chains, C : chains = matcher.chains /\ C = Len(matcher.chains)
      OBVIOUS
    <2>1. /\ chain \in ChainRecords /\ chain.exp \in Unseen /\ ChainHolds(chain, C + 1)
          /\ temporal_reuse_safe("exp", graph[chain.exp].into, chain.exp)
      BY <2>0, ChainsAreSound DEF number
    <2>2. chains \in Seq(ChainRecords) /\ C \in Nat /\ DOMAIN chains = 1..C /\ C = Len(chains)
      BY <2>0 DEF PatternInv, MatcherInv
    <2>3. PICK more : more = Append(chains, chain)
      OBVIOUS
    <2>4. /\ more \in Seq(ChainRecords) /\ DOMAIN more = 1..(C + 1) /\ more[C + 1] = chain
          /\ \A i \in 1..C : more[i] = chains[i]
      BY <2>1, <2>2, <2>3
    <2>5. /\ matcher'.chains = more /\ matcher'.regions = matcher.regions \cup RegionsOf(chain)
          /\ matcher'.verdict = IF Unseen = {chain.exp} THEN "bridged" ELSE "none"
          /\ matcher' = [regions |-> matcher'.regions, sums |-> matcher'.sums, causal |-> matcher'.causal,
                         chains |-> matcher'.chains, verdict |-> matcher'.verdict]
      BY <1>4, <2>0, <2>3
    <2>6. ASSUME NEW i \in 1..C PROVE SiteHolds(i) /\ SiteHolds(i)'
      <3>1. SiteHolds(i)
        BY <2>0, <2>2 DEF PatternInv, MatcherInv
      <3>2. matcher'.chains[i] = matcher.chains[i] /\ \A j \in 1..(i - 1) : matcher'.chains[j] = matcher.chains[j]
        BY <2>0, <2>2, <2>4, <2>5
      <3>3. QED
        BY <1>1, <2>5, <3>1, <3>2, SiteStays
    <2>7. SiteHolds(C + 1)'
      <3>1. ChainHolds(chain, C + 1)'
        BY <1>1, <2>1, ChainStays
      <3>2. ChainHolds(matcher.chains[C + 1], C + 1)'
        BY <3>1, <2>4, <2>5 DEF ChainHolds
      <3>3. Region("exp", graph[chain.exp].into, chain.div) \in matcher'.regions
        BY <2>5 DEF RegionsOf
      <3>4. (Region("exp", graph[matcher.chains[C + 1].exp].into, matcher.chains[C + 1].div) \in matcher.regions)'
        BY <1>1, <2>4, <2>5, <3>3 DEF Region, canonical_memref
      <3>5. ASSUME NEW j \in 1..C PROVE InTurn(chains[j], chain)
        <4>1. chains[j].exp # chain.exp
          BY <2>0, <2>1, <2>2 DEF Unseen
        <4>2. Region("exp", graph[chains[j].exp].into, chains[j].div) \in matcher.regions
          BY <2>0, <2>6 DEF SiteHolds
        <4>3. PICK region \in matcher.regions : region = Region("exp", graph[chains[j].exp].into, chains[j].div)
          BY <4>2
        <4>4. /\ region.role = "exp" /\ region.base = canonical_memref(graph[chains[j].exp].into)
              /\ region.end = chains[j].div
          BY <4>3 DEF Region
        <4>5. region.base = canonical_memref(graph[chain.exp].into) => region.end < chain.exp
          BY <2>1, <4>4 DEF temporal_reuse_safe
        <4>6. QED
          BY <4>1, <4>4, <4>5 DEF InTurn
      <3>6. ASSUME NEW j \in 1..((C + 1) - 1) PROVE InTurn(matcher.chains[j], matcher.chains[C + 1])'
        <4>1. j \in 1..C
          BY <2>2
        <4>2. matcher'.chains[j] = chains[j] /\ matcher'.chains[C + 1] = chain
          BY <4>1, <2>4, <2>5
        <4>3. QED
          BY <1>1, <3>5, <4>1, <4>2 DEF InTurn, canonical_memref
      <3>7. QED
        BY <3>2, <3>4, <3>6 DEF SiteHolds
    <2>8. matcher'.verdict = "bridged" => Unseen' = {}
      <3>1. SUFFICES ASSUME Unseen = {chain.exp} PROVE Unseen' = {}
        BY <2>5
      <3>2. Unseen' = ExpLines \ {more[i].exp : i \in 1..(C + 1)}
        BY <1>2, <2>4, <2>5 DEF Unseen
      <3>3. ASSUME NEW n \in ExpLines PROVE \E i \in 1..(C + 1) : more[i].exp = n
        <4>1. CASE n \in Unseen
          BY <4>1, <3>1, <2>2, <2>4
        <4>2. CASE n \notin Unseen
          <5>1. PICK i \in 1..C : chains[i].exp = n
            BY <4>2, <3>3, <2>0, <2>2 DEF Unseen
          <5>2. QED
            BY <5>1, <2>2, <2>4
        <4>3. QED
          BY <4>1, <4>2
      <3>4. QED
        BY <3>2, <3>3
    <2>9. \A i \in 1..(C + 1) : SiteHolds(i)'
      <3>1. ASSUME NEW i \in 1..(C + 1) PROVE SiteHolds(i)'
        <4>1. CASE i \in 1..C
          BY <4>1, <2>6
        <4>2. CASE i = C + 1
          BY <4>2, <2>7
        <4>3. QED
          BY <4>1, <4>2, <2>2
      <3>2. QED
        BY <3>1
    <2>10. DOMAIN matcher'.chains = 1..(C + 1) /\ matcher'.chains \in Seq(ChainRecords')
      BY <1>2, <2>4, <2>5
    <2>11. QED
      BY <1>2, <2>5, <2>8, <2>9, <2>10 DEF MatcherInv
  <1>5. \/ \E chain \in Chains : matcher' = Matched(chain)
        \/ matcher' = [matcher EXCEPT !.verdict = "refused"]
    BY Zenon DEF MatchSite
  <1>6. CASE \E chain \in Chains : matcher' = Matched(chain)
    <2> HIDE DEF Matched
    <2>1. MatcherInv'
      BY <1>4, <1>6
    <2>2. QED
      BY <1>2, <2>1 DEF PatternInv
  <1>7. QED
    BY <1>3, <1>5, <1>6

\* Whatever the layers share and however their nests mix, a matcher that
\* bridges has replaced softmaxes only, for every number of layers.
THEOREM BridgedStaySoftmax == PatternSpec => []BridgedSitesAreSoftmax
  <1>1. PatternInit => PatternInv
    BY PatternInitInv
  <1>2. PatternInv /\ [PatternNext]_patternVars => PatternInv'
    <2>1. SUFFICES ASSUME PatternInv, [PatternNext]_patternVars PROVE PatternInv'
      OBVIOUS
    <2>2. CASE UNCHANGED patternVars
      <3>1. shared' = shared /\ flaw' = flaw /\ graph' = graph /\ matcher' = matcher
        BY <2>2 DEF patternVars
      <3>2. QED
        BY <2>1, <3>1, GraphStays, MatcherStays DEF PatternInv
    <2>3. QED
      BY <2>1, <2>2, AddNestKeeps, MatchSiteKeeps DEF PatternNext
  <1>3. PatternInv => BridgedSitesAreSoftmax
    BY SitesAreSoftmax DEF PatternInv
  <1>4. QED
    BY <1>1, <1>2, <1>3, PTL DEF PatternSpec

=============================================================================
