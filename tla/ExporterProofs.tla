--------------------------- MODULE ExporterProofs ---------------------------
(***************************************************************************)
(* Proofs about Exporter, for any number of records, batch size, number of *)
(* retries and configuration: an export stores a prefix, a record reaches  *)
(* the collector at most once per attempt, headers stay home, and a call   *)
(* over HTTP takes a bounded time.                                         *)
(***************************************************************************)
EXTENDS Exporter, FiniteSetTheorems, TLAPS

Stages == {"batch", "payload", "http", "wait", "failed", "sleep", "done"}

\* What the variables hold.
Typed ==
  /\ config \in Configs
  /\ count \in 0 .. MaxRecords
  /\ start \in Nat /\ end \in Nat /\ attempt \in Nat /\ sent \in Nat
  /\ stage \in Stages
  /\ wire \in SUBSET Request /\ IsFiniteSet(wire)
  /\ answered \in BOOLEAN
  /\ stored \in [1 .. MaxRecords -> Nat]

\* The attempts a payload may take.
Allowed == IF config.transport = "http" THEN config.maxRetries + 1 ELSE 1

\* Between batches nothing is half done; only HTTP comes back to try again.
\* The attempt counter is left over from the batch before until export_http is
\* entered.
CallOK ==
  /\ start <= end /\ end <= count
  /\ stage = "batch" => start = end
  /\ stage # "done" => result = "none"
  /\ result = "Ok" => start = count
  /\ stage \in {"http", "failed", "sleep"} => config.transport = "http"
  /\ attempt + 1 <= Allowed

\* A request is about records up to the current batch; the newest one is about
\* the current batch for as long as the exporter waits for its answer, which
\* comes after the records have been stored.
WireOK ==
  /\ \A m \in wire : m.id <= sent /\ m.last <= end
  /\ stage = "wait" => \A m \in wire : m.id = sent => m.first = start + 1 /\ m.last = end
  /\ stage = "wait" /\ answered => \A r \in start + 1 .. end : stored[r] >= 1

\* What is behind the current batch is stored, what is ahead of it is not.
StoredOK ==
  /\ \A r \in 1 .. start : stored[r] >= 1
  /\ \A r \in end + 1 .. MaxRecords : stored[r] = 0

\* The requests on the wire that hold a record.
Holding(r) == {m \in wire : r \in m.first .. m.last}

\* The attempts at the current batch so far.
Tried == CASE stage \in {"batch", "payload"} -> 0
           [] stage \in {"http", "sleep"} -> attempt
           [] OTHER -> attempt + 1

\* A record is stored or under way at most once for every attempt.
CopiesOK ==
  \A r \in 1 .. MaxRecords :
    stored[r] + Cardinality(Holding(r)) <=
      IF r <= start THEN Allowed ELSE IF r <= end THEN Tried ELSE 0

\* With secrets to keep, nothing is sent and no other error is met.
HomeOK ==
  Insecure => /\ sent = 0 /\ start = 0
              /\ stage \in {"batch", "payload", "done"}
              /\ result \in {"none", "InsecureTransport"} \/ count = 0

ExporterInv == Typed /\ CallOK /\ WireOK /\ StoredOK /\ CopiesOK /\ HomeOK

-----------------------------------------------------------------------------

\* The numbers of a configuration are numbers.
LEMMA ConfigType ==
  ASSUME config \in Configs
  PROVE  config.batchSize \in Nat /\ config.maxRetries \in Nat
  <1>1. config.batchSize \in BatchSizes /\ config.maxRetries \in Retries
    BY DEF Configs
  <1> QED
    BY <1>1, ExporterAssumption

\* A batch has at least one record and ends inside the slice.
LEMMA BatchEnd ==
  ASSUME Typed, start < count
  PROVE  LET e == Least(start + Most(config.batchSize, 1), count) IN
         e \in Nat /\ start < e /\ e <= count
  BY ConfigType DEF Typed, Least, Most

LEMMA AllowedType ==
  ASSUME Typed
  PROVE  Allowed \in Nat
  BY ConfigType DEF Typed, Allowed

\* The requests that hold a record can be counted.
LEMMA HoldingFinite ==
  ASSUME Typed, NEW r
  PROVE  IsFiniteSet(Holding(r)) /\ Cardinality(Holding(r)) \in Nat
  <1>1. Holding(r) \in SUBSET wire
    BY DEF Holding
  <1> QED
    BY <1>1, FS_Subset, FS_CardinalityType DEF Typed

\* Before a batch is sent for the first time nobody has its records.
LEMMA Untouched ==
  ASSUME Typed, CopiesOK, NEW r \in 1 .. MaxRecords, r > end, start <= end
  PROVE  stored[r] = 0 /\ Cardinality(Holding(r)) = 0
  <1>1. stored[r] + Cardinality(Holding(r)) <= 0
    BY DEF CopiesOK, Typed
  <1>2. stored[r] \in Nat /\ Cardinality(Holding(r)) \in Nat
    BY HoldingFinite DEF Typed
  <1> QED
    BY <1>1, <1>2

-----------------------------------------------------------------------------
(* The inductive step, one lemma per action or group of actions. *)

LEMMA InitStep == Init => ExporterInv
  <1> SUFFICES ASSUME Init PROVE ExporterInv
    OBVIOUS
  <1>1. Typed
    BY ExporterAssumption, FS_EmptySet DEF Init, Typed, Stages
  <1>2. CallOK
    BY <1>1, ConfigType DEF Init, CallOK, Allowed, Typed
  <1>3. WireOK /\ StoredOK /\ HomeOK
    BY ExporterAssumption DEF Init, WireOK, StoredOK, HomeOK
  <1>4. CopiesOK
    <2> SUFFICES ASSUME NEW r \in 1 .. MaxRecords
                 PROVE  stored[r] + Cardinality(Holding(r)) <= 0
      BY AllowedType, <1>1, ExporterAssumption DEF CopiesOK, Init
    <2>1. Holding(r) = {}
      BY DEF Holding, Init
    <2> QED
      BY <2>1, FS_EmptySet DEF Init
  <1> QED
    BY <1>1, <1>2, <1>3, <1>4 DEF ExporterInv

\* The next slice (exporter.rs, the while loop of export).
LEMMA NextBatchStep ==
  ASSUME ExporterInv, NextBatch
  PROVE  ExporterInv'
  <1> USE DEF ExporterInv
  <1>1. end' \in Nat /\ start < end' /\ end' <= count /\ start = end
    BY BatchEnd DEF NextBatch, CallOK
  <1>2. Typed'
    BY <1>1 DEF NextBatch, Typed, wireVars, Stages
  <1>3. CallOK'
    BY <1>1 DEF NextBatch, CallOK, Allowed, Typed
  <1>4. WireOK'
    BY <1>1 DEF NextBatch, WireOK, wireVars, Typed, Request
  <1>5. StoredOK'
    BY <1>1 DEF NextBatch, StoredOK, wireVars, Typed
  <1>6. CopiesOK'
    <2> SUFFICES ASSUME NEW r \in 1 .. MaxRecords
                 PROVE  (stored[r] + Cardinality(Holding(r)) <=
                           IF r <= start THEN Allowed ELSE IF r <= end THEN Tried ELSE 0)'
      BY DEF CopiesOK, NextBatch
    <2>1. Holding(r)' = Holding(r) /\ stored' = stored /\ Allowed' = Allowed /\ start' = start
      BY DEF NextBatch, Holding, wireVars, Allowed
    <2>2. Tried' = 0
      BY DEF Tried, NextBatch
    <2>3. CASE r <= start
      BY <2>1, <2>3 DEF CopiesOK
    <2>4. CASE ~(r <= start)
      <3>1. stored[r] = 0 /\ Cardinality(Holding(r)) = 0
        BY <1>1, <2>4, Untouched DEF Typed, CallOK
      <3> QED
        BY <2>1, <2>2, <2>4, <3>1
    <2> QED
      BY <2>3, <2>4
  <1>7. HomeOK'
    BY <1>1 DEF NextBatch, HomeOK, Insecure, wireVars
  <1> QED
    BY <1>2, <1>3, <1>4, <1>5, <1>6, <1>7

\* A step that changes neither the batch nor the network, and does not take
\* back an attempt, keeps the bound on the copies.
LEMMA CopiesKept ==
  ASSUME ExporterInv, Typed', UNCHANGED <<config, start, end, wire, stored>>,
         Tried <= Tried'
  PROVE  CopiesOK'
  <1> SUFFICES ASSUME NEW r \in 1 .. MaxRecords
               PROVE  (stored[r] + Cardinality(Holding(r)) <=
                         IF r <= start THEN Allowed ELSE IF r <= end THEN Tried ELSE 0)'
    BY DEF CopiesOK
  <1>1. Holding(r)' = Holding(r) /\ Allowed' = Allowed
    BY DEF Holding, Allowed
  <1>2. stored[r] \in Nat /\ Cardinality(Holding(r)) \in Nat
    BY HoldingFinite DEF Typed, ExporterInv
  <1>3. Tried \in Nat /\ Tried' \in Nat
    BY DEF Tried, Typed, ExporterInv
  <1> QED
    BY <1>1, <1>2, <1>3 DEF CopiesOK, ExporterInv

\* export returns: Ok, or one of its errors.
LEMMA ReturnStep ==
  ASSUME ExporterInv,
         \/ AllExported \/ RefuseInsecure \/ GrpcUnavailable \/ GiveUp
         \/ \E f \in {"transport", "permanent"} : GrpcSetupFails(f)
  PROVE  ExporterInv'
  <1> USE DEF ExporterInv
  <1> DEFINE Errors == {"InsecureTransport", "GrpcFeatureDisabled", "Transport",
                        "RetriesExhausted"}
  <1>1. /\ stage' = "done" /\ UNCHANGED <<callVars, wireVars>>
        /\ \/ result' = "Ok" /\ start >= count
           \/ result' \in Errors /\ (Insecure => result' = "InsecureTransport")
    BY DEF AllExported, RefuseInsecure, GrpcUnavailable, GiveUp, GrpcSetupFails,
           Return, HomeOK
  <1> USE <1>1 DEF callVars, wireVars
  <1>2. Typed'
    BY DEF Typed, Stages
  <1>3. CallOK'
    BY DEF CallOK, Allowed, Typed
  <1>4. WireOK' /\ StoredOK'
    BY DEF WireOK, StoredOK
  <1>5. Tried <= Tried'
    BY DEF Tried, Typed
  <1>6. CopiesOK'
    BY <1>2, <1>5, CopiesKept
  <1>7. HomeOK'
    BY DEF HomeOK, Insecure, Typed, CallOK
  <1> QED
    BY <1>2, <1>3, <1>4, <1>6, <1>7

\* The steps of export_http that send nothing.
LEMMA HttpStep ==
  ASSUME ExporterInv, EnterHttp \/ ConnectFails \/ Retry \/ Sleep \/ AttemptTimesOut
  PROVE  ExporterInv'
  <1> USE DEF ExporterInv
  <1>1. /\ UNCHANGED <<config, count, start, end, wireVars, result>>
        /\ config.transport = "http" /\ ~Insecure
        /\ stage \in {"payload", "http", "failed", "sleep", "wait"}
        /\ stage' \in {"http", "failed", "sleep"}
        /\ attempt' \in Nat /\ attempt' <= config.maxRetries
        /\ Tried <= Tried'
    <2>1. CASE EnterHttp
      BY <2>1, ExporterAssumption DEF EnterHttp, callVars, Typed, Configs, CallOK, HomeOK,
         Tried, Allowed
    <2>2. CASE ConnectFails
      BY <2>2, ExporterAssumption DEF ConnectFails, callVars, Typed, Configs, CallOK, HomeOK,
         Tried, Allowed
    <2>3. CASE Retry
      BY <2>3, ExporterAssumption DEF Retry, callVars, Typed, Configs, CallOK, HomeOK,
         Tried, Allowed
    <2>4. CASE Sleep
      BY <2>4, ExporterAssumption DEF Sleep, callVars, Typed, Configs, CallOK, HomeOK,
         Tried, Allowed
    <2>5. CASE AttemptTimesOut
      BY <2>5, ExporterAssumption DEF AttemptTimesOut, callVars, Typed, Configs, CallOK, HomeOK,
         Tried, Allowed
    <2> QED  BY <2>1, <2>2, <2>3, <2>4, <2>5
  <1> USE <1>1 DEF wireVars
  <1>2. Typed'
    BY DEF Typed, Stages
  <1>3. CallOK'
    BY ConfigType DEF CallOK, Allowed, Typed
  <1>4. WireOK' /\ StoredOK'
    BY DEF WireOK, StoredOK
  <1>5. CopiesOK'
    BY <1>2, CopiesKept
  <1>6. HomeOK'
    BY DEF HomeOK, Insecure
  <1> QED
    BY <1>2, <1>3, <1>4, <1>5, <1>6

\* A request goes out, over either transport.
LEMMA SendStep ==
  ASSUME ExporterInv, SendGrpc \/ SendHttp
  PROVE  ExporterInv'
  <1> USE DEF ExporterInv
  <1> DEFINE new == [id |-> sent + 1, first |-> start + 1, last |-> end]
  <1>1. /\ UNCHANGED <<callVars, result, stored>>
        /\ stage \in {"payload", "http"} /\ stage' = "wait" /\ ~Insecure
        /\ wire' = wire \cup {new} /\ sent' = sent + 1 /\ answered' = FALSE
        /\ Tried \in Nat /\ Tried' = attempt + 1 /\ Tried + 1 <= Tried'
    BY DEF SendGrpc, SendHttp, Send, callVars, HomeOK, Tried, Typed
  <1> USE <1>1 DEF callVars
  <1>2. new \in Request /\ new \notin wire
    BY DEF Typed, Request, WireOK
  <1>3. Typed'
    <2>1. IsFiniteSet(wire \cup {new})
      BY FS_AddElement DEF Typed
    <2>2. wire' \in SUBSET Request
      BY <1>2 DEF Typed
    <2>3. sent' \in Nat /\ stage' \in Stages
      BY DEF Typed, Stages
    <2>4. IsFiniteSet(wire') /\ answered' \in BOOLEAN
      BY <2>1, Zenon
    <2> QED
      BY <2>2, <2>3, <2>4, Zenon DEF Typed
  <1>4. CallOK'
    BY DEF CallOK, Allowed
  <1>5. WireOK'
    BY DEF WireOK, Typed, Request
  <1>6. StoredOK'
    BY DEF StoredOK
  <1>7. CopiesOK'
    <2> SUFFICES ASSUME NEW r \in 1 .. MaxRecords
                 PROVE  (stored[r] + Cardinality(Holding(r)) <=
                           IF r <= start THEN Allowed ELSE IF r <= end THEN Tried ELSE 0)'
      BY DEF CopiesOK
    <2>1. IsFiniteSet(Holding(r)) /\ Cardinality(Holding(r)) \in Nat /\ stored[r] \in Nat
      BY HoldingFinite DEF Typed
    <2>2. CASE r \in start + 1 .. end
      <3>1. Holding(r)' = Holding(r) \cup {new}
        BY <2>2 DEF Holding
      <3>2. Cardinality(Holding(r)') <= Cardinality(Holding(r)) + 1
        <4>1. Cardinality(Holding(r) \cup {new}) \in
                {Cardinality(Holding(r)), Cardinality(Holding(r)) + 1}
          BY <2>1, FS_AddElement
        <4> QED
          BY <2>1, <3>1, <4>1
      <3>3. stored[r] + Cardinality(Holding(r)) <= Tried
        BY <2>2 DEF CopiesOK, Typed
      <3>4. Cardinality(Holding(r)') \in Nat
        BY <1>3, HoldingFinite, <2>1, <3>1, FS_AddElement, FS_CardinalityType
      <3> QED
        BY <2>1, <2>2, <3>2, <3>3, <3>4 DEF Typed
    <2>3. CASE r \notin start + 1 .. end
      <3>1. Holding(r)' = Holding(r)
        BY <2>3 DEF Holding
      <3>2. Allowed' = Allowed /\ (r <= start \/ r > end)
        BY <2>3 DEF Allowed, Typed
      <3> QED
        BY <3>1, <3>2 DEF CopiesOK, Typed, CallOK
    <2> QED
      BY <2>2, <2>3
  <1>8. HomeOK'
    BY DEF HomeOK, Insecure
  <1> QED
    BY <1>3, <1>4, <1>5, <1>6, <1>7, <1>8

\* The answer arrives: the batch is behind.
LEMMA AttemptOkStep ==
  ASSUME ExporterInv, AttemptOk
  PROVE  ExporterInv'
  <1> USE DEF ExporterInv
  <1>1. /\ stage = "wait" /\ answered /\ stage' = "batch" /\ start' = end
        /\ UNCHANGED <<config, count, end, attempt, wireVars, result>>
        /\ ~Insecure
    BY DEF AttemptOk, HomeOK
  <1> USE <1>1 DEF wireVars
  <1>2. Typed'
    BY DEF Typed, Stages
  <1>3. CallOK'
    BY DEF CallOK, Allowed, Typed
  <1>4. WireOK'
    BY DEF WireOK
  <1>5. StoredOK'
    BY DEF StoredOK, WireOK, Typed, CallOK
  <1>6. CopiesOK'
    <2> SUFFICES ASSUME NEW r \in 1 .. MaxRecords
                 PROVE  (stored[r] + Cardinality(Holding(r)) <=
                           IF r <= start THEN Allowed ELSE IF r <= end THEN Tried ELSE 0)'
      BY DEF CopiesOK
    <2>1. Holding(r)' = Holding(r) /\ Allowed' = Allowed
      BY DEF Holding, Allowed
    <2>2. Tried = attempt + 1 /\ Tried <= Allowed
      BY DEF Tried, CallOK
    <2>3. stored[r] \in Nat /\ Cardinality(Holding(r)) \in Nat /\ Allowed \in Nat
      BY HoldingFinite, AllowedType DEF Typed
    <2> QED
      BY <2>1, <2>2, <2>3 DEF CopiesOK, Typed, CallOK
  <1>7. HomeOK'
    BY DEF HomeOK, Insecure
  <1> QED
    BY <1>2, <1>3, <1>4, <1>5, <1>6, <1>7

\* The attempt fails: HTTP may try again, gRPC returns.
LEMMA AttemptErrStep ==
  ASSUME ExporterInv, NEW f \in Failures, AttemptErr(f)
  PROVE  ExporterInv'
  <1> USE DEF ExporterInv
  <1>1. /\ stage = "wait" /\ ~Insecure
        /\ UNCHANGED <<callVars, wireVars>>
        /\ \/ stage' = "failed" /\ result' = result /\ config.transport = "http"
           \/ stage' = "done" /\ result' = "Transport"
    BY DEF AttemptErr, Return, HomeOK
  <1> USE <1>1 DEF callVars, wireVars
  <1>2. Typed'
    BY DEF Typed, Stages
  <1>3. CallOK'
    BY DEF CallOK, Allowed
  <1>4. WireOK' /\ StoredOK'
    BY DEF WireOK, StoredOK
  <1>5. Tried <= Tried'
    BY DEF Tried, Typed
  <1>6. CopiesOK'
    BY <1>2, <1>5, CopiesKept
  <1>7. HomeOK'
    BY DEF HomeOK, Insecure
  <1> QED
    BY <1>2, <1>3, <1>4, <1>6, <1>7

\* A request arrives, in time or late.
LEMMA StoreStep ==
  ASSUME ExporterInv, NEW m \in wire, CollectorStores(m)
  PROVE  ExporterInv'
  <1> USE DEF ExporterInv
  <1>1. /\ wire' = wire \ {m} /\ UNCHANGED <<callVars, sent, stage, result>>
        /\ stored' = [r \in DOMAIN stored |->
                        stored[r] + (IF r \in m.first .. m.last THEN 1 ELSE 0)]
        /\ answered' = (answered \/ (stage = "wait" /\ m.id = sent))
    BY DEF CollectorStores
  <1> USE <1>1 DEF callVars
  <1>2. m \in Request /\ m.last <= end
    BY DEF Typed, WireOK
  <1>3. stored' \in [1 .. MaxRecords -> Nat]
    BY DEF Typed
  <1>4. Typed'
    BY <1>3, FS_RemoveElement DEF Typed
  <1>5. CallOK'
    BY DEF CallOK, Allowed
  <1>6. \A r \in 1 .. MaxRecords : stored[r] \in Nat /\ stored'[r] \in Nat
                                     /\ stored'[r] >= stored[r]
    BY <1>3 DEF Typed
  <1>7. \A r \in 1 .. MaxRecords : r \in m.first .. m.last => stored'[r] = stored[r] + 1
    BY DEF Typed
  <1>8. \A r \in 1 .. MaxRecords : r \notin m.first .. m.last => stored'[r] = stored[r]
    BY DEF Typed
  <1>9. WireOK'
    <2>1. (\A n \in wire : n.id <= sent /\ n.last <= end)'
      BY DEF WireOK
    <2>2. (stage = "wait" => \A n \in wire : n.id = sent => n.first = start + 1 /\ n.last = end)'
      BY DEF WireOK
    <2>3. ASSUME stage = "wait", answered', NEW r \in start + 1 .. end
          PROVE  stored'[r] >= 1
      <3>1. r \in 1 .. MaxRecords
        BY ExporterAssumption DEF Typed, CallOK
      <3>2. CASE answered
        BY <1>6, <2>3, <3>1, <3>2 DEF WireOK
      <3>3. CASE m.id = sent
        BY <1>6, <1>7, <2>3, <3>1, <3>3 DEF WireOK
      <3> QED
        BY <2>3, <3>2, <3>3
    <2> QED
      BY <2>1, <2>2, <2>3 DEF WireOK
  <1>10. StoredOK'
    <2>1. \A r \in 1 .. start : r \in 1 .. MaxRecords
      BY ExporterAssumption DEF Typed, CallOK
    <2>2. \A r \in end + 1 .. MaxRecords : r \in 1 .. MaxRecords /\ r \notin m.first .. m.last
      BY <1>2, ExporterAssumption DEF Typed, Request
    <2> QED
      BY <1>6, <1>8, <2>1, <2>2 DEF StoredOK
  <1>11. CopiesOK'
    <2> SUFFICES ASSUME NEW r \in 1 .. MaxRecords
                 PROVE  (stored[r] + Cardinality(Holding(r)) <=
                           IF r <= start THEN Allowed ELSE IF r <= end THEN Tried ELSE 0)'
      BY DEF CopiesOK
    <2>1. IsFiniteSet(Holding(r)) /\ Cardinality(Holding(r)) \in Nat
      BY HoldingFinite
    <2>2. Allowed' = Allowed /\ Tried' = Tried
      BY DEF Allowed, Tried
    <2>3. stored'[r] + Cardinality(Holding(r)') = stored[r] + Cardinality(Holding(r))
      <3>1. CASE r \in m.first .. m.last
        <4>1. m \in Holding(r) /\ Holding(r)' = Holding(r) \ {m}
          BY <3>1 DEF Holding
        <4>2. Cardinality(Holding(r)') = Cardinality(Holding(r)) - 1
          BY <2>1, <4>1, FS_RemoveElement
        <4> QED
          BY <1>6, <1>7, <2>1, <3>1, <4>2
      <3>2. CASE r \notin m.first .. m.last
        <4>1. Holding(r)' = Holding(r)
          BY <3>2 DEF Holding
        <4> QED
          BY <1>8, <3>2, <4>1
      <3> QED
        BY <3>1, <3>2
    <2> QED
      BY <2>2, <2>3 DEF CopiesOK
  <1>12. HomeOK'
    BY DEF HomeOK, Insecure
  <1> QED
    BY <1>4, <1>5, <1>9, <1>10, <1>11, <1>12

\* A request is lost.
LEMMA LostStep ==
  ASSUME ExporterInv, NEW m \in wire, RequestLost(m)
  PROVE  ExporterInv'
  <1> USE DEF ExporterInv
  <1>1. /\ wire' = wire \ {m}
        /\ UNCHANGED <<callVars, sent, answered, stored, stage, result>>
    BY DEF RequestLost
  <1> USE <1>1 DEF callVars
  <1>2. Typed'
    BY FS_RemoveElement DEF Typed
  <1>3. CallOK' /\ StoredOK' /\ HomeOK'
    BY DEF CallOK, Allowed, StoredOK, HomeOK, Insecure
  <1>4. WireOK'
    BY DEF WireOK
  <1>5. CopiesOK'
    <2> SUFFICES ASSUME NEW r \in 1 .. MaxRecords
                 PROVE  (stored[r] + Cardinality(Holding(r)) <=
                           IF r <= start THEN Allowed ELSE IF r <= end THEN Tried ELSE 0)'
      BY DEF CopiesOK
    <2>1. IsFiniteSet(Holding(r)) /\ Cardinality(Holding(r)) \in Nat /\ stored[r] \in Nat
      BY HoldingFinite DEF Typed
    <2>2. Allowed' = Allowed /\ Tried' = Tried
      BY DEF Allowed, Tried
    <2>3. Holding(r)' \in SUBSET Holding(r)
      BY DEF Holding
    <2>4. Cardinality(Holding(r)') <= Cardinality(Holding(r))
      BY <2>1, <2>3, FS_Subset
    <2>5. Cardinality(Holding(r)') \in Nat
      BY <2>1, <2>3, FS_Subset, FS_CardinalityType
    <2>6. Allowed \in Nat /\ Tried \in Nat
      BY AllowedType DEF Tried, Typed
    <2> QED
      BY <2>1, <2>2, <2>4, <2>5, <2>6 DEF CopiesOK
  <1> QED
    BY <1>2, <1>3, <1>4, <1>5

LEMMA StutterStep ==
  ASSUME ExporterInv, UNCHANGED vars
  PROVE  ExporterInv'
  BY DEF ExporterInv, vars, callVars, wireVars, Typed, CallOK, WireOK, StoredOK,
         CopiesOK, HomeOK, Allowed, Tried, Holding, Insecure

LEMMA NextStep == ExporterInv /\ [Next]_vars => ExporterInv'
  <1> SUFFICES ASSUME ExporterInv, [Next]_vars PROVE ExporterInv'
    OBVIOUS
  <1>1. CASE Export
    BY <1>1, NextBatchStep, ReturnStep, HttpStep, SendStep, AttemptOkStep DEF Export
  <1>2. CASE Environment
    BY <1>2, AttemptErrStep, StoreStep, LostStep DEF Environment
  <1>3. CASE Returned \/ UNCHANGED vars
    BY <1>3, StutterStep DEF Returned
  <1> QED
    BY <1>1, <1>2, <1>3 DEF Next

LEMMA Invariance == Spec => []ExporterInv
  BY InitStep, NextStep, PTL DEF Spec

-----------------------------------------------------------------------------

\* Whatever fails, what an export has stored is a prefix of the records plus
\* possibly the batch that failed, and Ok means everything.
THEOREM ExportStoresPrefix == Spec => []PrefixOnly
  <1>1. ExporterInv => PrefixOnly
    BY ExporterAssumption
       DEF ExporterInv, CallOK, StoredOK, WireOK, Typed, Request, PrefixOnly
  <1> QED
    BY <1>1, Invariance, PTL

\* However many answers are lost, a record is stored at most once for every
\* attempt.
THEOREM DuplicatesAreBounded == Spec => []DuplicatesBounded
  <1>1. ExporterInv => DuplicatesBounded
    <2> SUFFICES ASSUME ExporterInv, NEW r \in 1 .. MaxRecords
                 PROVE  stored[r] <= Allowed
      BY DEF DuplicatesBounded, Allowed
    <2> USE DEF ExporterInv
    <2>1. stored[r] \in Nat /\ Cardinality(Holding(r)) \in Nat
      BY HoldingFinite DEF Typed
    <2>2. Allowed \in Nat /\ Tried \in Nat /\ Tried <= Allowed
      BY AllowedType DEF Tried, Typed, CallOK
    <2> QED
      BY <2>1, <2>2 DEF CopiesOK
  <1> QED
    BY <1>1, Invariance, PTL

\* Under require_tls headers never leave for an endpoint that is not https.
THEOREM SecretsKept == Spec => []SecretsStayHome
  <1>1. ExporterInv => SecretsStayHome
    BY DEF ExporterInv, HomeOK, Insecure, SecretsStayHome
  <1> QED
    BY <1>1, Invariance, PTL

-----------------------------------------------------------------------------
(* How long a call may take *)

Batch == Most(config.batchSize, 1)
LongestSleep == Most(config.backoff, BackoffCap)
PerBatch == (config.maxRetries + 1) * Timeout + config.maxRetries * LongestSleep

\* What the retries that are left may still take.
Left == (config.maxRetries - attempt) * (Timeout + LongestSleep)

\* What is set aside for the current batch and not yet used up.
Owed == CASE stage = "payload" -> PerBatch
          [] stage = "http" -> Left + Timeout
          [] stage \in {"wait", "failed"} -> Left
          [] stage = "sleep" -> LongestSleep + Left + Timeout
          [] OTHER -> 0

\* Where the batches begin among the first e records.
Starts(e) == {k \in 1 .. e : \E j \in 0 .. MaxRecords : k = j * Batch + 1}

\* The batches follow each other, and only the last is shorter.
AlignOK ==
  /\ start < count => \E j \in 0 .. MaxRecords : start = j * Batch
  /\ start < end => end = Least(start + Batch, count)

\* Every batch that was begun has paid for its attempts and its sleeps.
WaitOK ==
  /\ waited \in Nat /\ backoff \in Nat
  /\ config.transport = "http" =>
       backoff <= LongestSleep /\ waited + Owed <= Begun * PerBatch

WaitInv == AlignOK /\ WaitOK

LEMMA Products ==
  ASSUME NEW r \in Nat, NEW t \in Nat, NEW s \in Nat
  PROVE  /\ r * s \in Nat /\ (r + 1) * s = r * s + s
         /\ (r + 1) * t + r * s = r * (t + s) + t
         /\ \A q \in Nat : q >= r + 1 => q * s >= r * s + s
<1>1. r * s \in Nat /\ (r + 1) * s = r * s + s
  OBVIOUS
<1>2. (r + 1) * t + r * s = r * (t + s) + t
  OBVIOUS
<1>3. ASSUME NEW q \in Nat, q >= r + 1 PROVE q * s >= r * s + s
  <2> DEFINE x == q - (r + 1)
  <2>1. x \in Nat /\ q = (r + 1) + x
    BY <1>3
  <2> HIDE DEF x
  <2>2. q * s = (r + 1) * s + x * s
    BY <2>1
  <2>3. x * s \in Nat /\ (r + 1) * s \in Nat
    BY <2>1
  <2> QED  BY <1>1, <2>2, <2>3
<1> QED  BY <1>1, <1>2, <1>3

\* The numbers a bound is made of.
LEMMA Numbers ==
  ASSUME Typed, CallOK, config.transport = "http"
  PROVE  /\ Batch \in Nat \ {0} /\ LongestSleep \in Nat /\ Timeout \in Nat
         /\ config.maxRetries \in Nat /\ attempt \in Nat /\ attempt <= config.maxRetries
         /\ config.backoff \in Nat
         /\ PerBatch \in Nat /\ Left \in Nat
         /\ PerBatch = config.maxRetries * (Timeout + LongestSleep) + Timeout
<1>1. /\ config.maxRetries \in Nat /\ config.batchSize \in Nat /\ Timeout \in Nat
      /\ config.backoff \in Nat /\ BackoffCap \in Nat
  <2>1. config.backoff \in Backoffs
    BY DEF Typed, Configs
  <2>2. /\ Backoffs \subseteq 0 .. U64 - 1 /\ U64 \in Nat
        /\ Timeout \in Nat /\ BackoffCap \in Nat
    BY ExporterAssumption
  <2>3. config.backoff \in 0 .. U64 - 1
    BY <2>1, <2>2
  <2> QED  BY <2>2, <2>3, ConfigType DEF Typed
<1>2. Batch \in Nat \ {0} /\ LongestSleep \in Nat
  BY <1>1 DEF Batch, LongestSleep, Most
<1>3. attempt \in Nat /\ attempt <= config.maxRetries
  BY <1>1 DEF Typed, CallOK, Allowed
<1> DEFINE r == config.maxRetries
           s == LongestSleep
           left == r - attempt
           d == Timeout + s
<1>4. left \in Nat /\ d \in Nat /\ r \in Nat /\ s \in Nat
  BY <1>1, <1>2, <1>3
<1>5. PerBatch = (r + 1) * Timeout + r * s /\ Left = left * d
  BY DEF PerBatch, Left
<1> HIDE DEF r, s, left, d
<1>6. (r + 1) * Timeout + r * s = r * (Timeout + s) + Timeout
  BY <1>1, <1>4, Products
<1>7. (r + 1) * Timeout \in Nat /\ r * s \in Nat /\ left * d \in Nat
  BY <1>1, <1>4, Products
<1>8. PerBatch = r * (Timeout + s) + Timeout
  BY <1>5, <1>6
<1>9. PerBatch \in Nat /\ Left \in Nat
  BY <1>5, <1>7
<1> QED  BY <1>1, <1>2, <1>3, <1>8, <1>9 DEF r, s

\* Batches can be counted.
LEMMA BegunType ==
  ASSUME NEW e \in Nat
  PROVE  IsFiniteSet(Starts(e)) /\ Cardinality(Starts(e)) \in Nat
<1>1. IsFiniteSet(1 .. e)
  BY FS_Interval
<1>2. Starts(e) \subseteq 1 .. e
  BY DEF Starts
<1> QED  BY <1>1, <1>2, FS_Subset, FS_CardinalityType

LEMMA BegunIs == Begun = Cardinality(Starts(end))
  BY DEF Begun, Starts, Batch

LEMMA BegunSame ==
  ASSUME UNCHANGED <<config, end>>
  PROVE  Begun' = Begun
  BY DEF Begun

\* The next batch is one more.
LEMMA BegunGrows ==
  ASSUME ExporterInv, AlignOK, NextBatch
  PROVE  Begun \in Nat /\ Begun' \in Nat /\ Begun' >= Begun + 1
<1>1. /\ end' \in Nat /\ start < end' /\ start = end /\ start \in Nat /\ end \in Nat
      /\ config' = config /\ start < count
  BY BatchEnd DEF NextBatch, CallOK, ExporterInv, Typed
<1> DEFINE old == Starts(end)
           new == Starts(end')
<1>2. Begun = Cardinality(old) /\ Begun' = Cardinality(new)
  <2>1. Begun' = Cardinality({k \in 1 .. end' : \E j \in 0 .. MaxRecords : k = j * Batch + 1})
    BY <1>1 DEF Begun, Batch
  <2> QED  BY <2>1, BegunIs DEF Starts
<1>3. /\ IsFiniteSet(old) /\ Cardinality(old) \in Nat
      /\ IsFiniteSet(new) /\ Cardinality(new) \in Nat
  BY <1>1, BegunType
<1>4. old \subseteq new /\ start + 1 \notin old
  BY <1>1 DEF Starts
<1>5. start + 1 \in new
  <2>1. PICK j \in 0 .. MaxRecords : start = j * Batch
    BY <1>1 DEF AlignOK
  <2>2. start + 1 = j * Batch + 1
    BY <2>1
  <2>3. start + 1 \in 1 .. end'
    BY <1>1
  <2> QED  BY <2>2, <2>3, Zenon DEF Starts
<1> HIDE DEF old, new
<1>6. Cardinality(old \cup {start + 1}) = Cardinality(old) + 1
  BY <1>3, <1>4, FS_AddElement
<1>7. old \cup {start + 1} \subseteq new
  BY <1>4, <1>5
<1>8. Cardinality(old \cup {start + 1}) <= Cardinality(new)
  BY <1>3, <1>7, FS_Subset
<1> QED  BY <1>2, <1>3, <1>6, <1>8

-----------------------------------------------------------------------------

LEMMA AlignStep ==
  ASSUME ExporterInv, AlignOK, [Next]_vars
  PROVE  AlignOK'
<1> USE DEF ExporterInv
<1>1. CASE NextBatch
  <2>1. /\ UNCHANGED <<config, count, start>> /\ start = end
        /\ end' = Least(start + Batch, count)
    BY <1>1 DEF NextBatch, CallOK, Batch
  <2>2. Batch' = Batch
    BY <2>1 DEF Batch
  <2> QED  BY <2>1, <2>2 DEF AlignOK
<1>2. CASE AttemptOk
  <2>1. UNCHANGED <<config, count, end>> /\ start' = end /\ stage = "wait"
    BY <1>2 DEF AttemptOk
  <2>2. Batch' = Batch
    BY <2>1 DEF Batch
  <2>3. /\ start \in Nat /\ end \in Nat /\ count \in 0 .. MaxRecords /\ MaxRecords \in Nat
        /\ start <= end /\ Batch \in Nat \ {0}
    BY ConfigType, ExporterAssumption DEF Typed, CallOK, Batch, Most
  <2> HIDE DEF ExporterInv
  <2>4. ASSUME end < count PROVE \E j \in 0 .. MaxRecords : end = j * Batch
    <3>1. PICK j \in 0 .. MaxRecords : start = j * Batch
      BY <2>3, <2>4 DEF AlignOK
    <3>2. CASE start = end
      BY <3>1, <3>2
    <3>3. CASE start < end
      <4>1. end = start + Batch
        BY <2>3, <2>4, <3>3 DEF AlignOK, Least
      <4>2. j \in Nat
        BY <2>3
      <4>3. end = (j + 1) * Batch
        BY <2>3, <3>1, <4>1, <4>2, Products
      <4>4. j + 1 <= (j + 1) * Batch
        <5>1. j * Batch \in Nat /\ j <= j * Batch
          BY <2>3, <4>2
        <5>2. (j + 1) * Batch = j * Batch + Batch
          BY <2>3, <4>2, Products
        <5> HIDE DEF Batch
        <5> QED  BY <2>3, <4>2, <5>1, <5>2
      <4>5. j + 1 \in 0 .. MaxRecords
        BY <2>3, <2>4, <4>2, <4>3, <4>4
      <4> QED  BY <4>3, <4>5
    <3> QED  BY <2>3, <3>2, <3>3
  <2> QED  BY <2>1, <2>2, <2>3, <2>4 DEF AlignOK
<1>3. CASE UNCHANGED <<config, count, start, end>>
  BY <1>3 DEF AlignOK, Batch
<1>4. ASSUME Next, ~NextBatch, ~AttemptOk PROVE UNCHANGED <<config, count, start, end>>
  BY <1>4 DEF Next, Export, Environment, Returned, AllExported, RefuseInsecure, EnterHttp,
     GrpcUnavailable, SendGrpc, GrpcSetupFails, SendHttp, ConnectFails, GiveUp, Retry,
     Sleep, AttemptTimesOut, AttemptErr, CollectorStores, RequestLost, callVars, vars
<1>5. CASE UNCHANGED vars
  BY <1>3, <1>5 DEF vars, callVars
<1> QED  BY <1>1, <1>2, <1>3, <1>4, <1>5

\* A step that uses no more time than what it takes off what is owed.
LEMMA WaitKept ==
  ASSUME ExporterInv, ExporterInv', WaitOK, UNCHANGED <<config, end>>,
         waited' \in Nat, backoff' \in Nat,
         config.transport = "http" => /\ waited' + Owed' <= waited + Owed
                                      /\ Owed \in Nat /\ Owed' \in Nat
                                      /\ backoff' <= LongestSleep
  PROVE  WaitOK'
<1>1. Begun' = Begun /\ PerBatch' = PerBatch /\ LongestSleep' = LongestSleep
  BY BegunSame DEF PerBatch, LongestSleep
<1>2. CASE config.transport # "http"
  BY <1>2 DEF WaitOK
<1>3. CASE config.transport = "http"
  <2> DEFINE most == Begun * PerBatch
  <2>1. most \in Nat
    <3>1. PerBatch \in Nat /\ Begun \in Nat
      BY <1>3, Numbers, BegunIs, BegunType DEF ExporterInv, Typed
    <3> QED  BY <3>1, Products
  <2>2. waited + Owed <= most /\ waited \in Nat
    BY <1>3 DEF WaitOK
  <2>3. (Begun * PerBatch)' = most
    BY <1>1
  <2> HIDE DEF most
  <2>4. waited' + Owed' <= most
    BY <1>3, <2>1, <2>2
  <2> QED  BY <1>1, <1>3, <2>3, <2>4 DEF WaitOK
<1> QED  BY <1>2, <1>3

LEMMA WaitStep ==
  ASSUME ExporterInv, ExporterInv', AlignOK, WaitOK, [Next]_vars
  PROVE  WaitOK'
<1>0. /\ waited \in Nat /\ backoff \in Nat /\ Timeout \in Nat
      /\ config.transport = "http" => backoff <= LongestSleep
  BY ExporterAssumption DEF WaitOK
<1> DEFINE http == config.transport = "http"
           r == config.maxRetries
           s == LongestSleep
           d == Timeout + LongestSleep
<1>1. http => /\ s \in Nat /\ d \in Nat /\ r \in Nat /\ attempt \in Nat /\ attempt <= r
              /\ config.backoff \in Nat /\ config.backoff <= s /\ BackoffCap <= s
              /\ BackoffCap \in Nat
              /\ PerBatch \in Nat /\ Left \in Nat /\ PerBatch = r * d + Timeout
  <2> SUFFICES ASSUME http
               PROVE  /\ s \in Nat /\ d \in Nat /\ r \in Nat /\ attempt \in Nat
                      /\ attempt <= r
                      /\ config.backoff \in Nat /\ config.backoff <= s /\ BackoffCap <= s
                      /\ BackoffCap \in Nat
                      /\ PerBatch \in Nat /\ Left \in Nat /\ PerBatch = r * d + Timeout
    OBVIOUS
  <2>1. /\ s \in Nat /\ r \in Nat /\ attempt \in Nat /\ attempt <= r
        /\ config.backoff \in Nat /\ PerBatch \in Nat /\ Left \in Nat
        /\ PerBatch = r * d + Timeout
    BY Numbers DEF ExporterInv
  <2>2. config.backoff <= s /\ BackoffCap <= s /\ BackoffCap \in Nat
    BY <2>1, ExporterAssumption DEF LongestSleep, Most
  <2> HIDE DEF r, s
  <2> QED  BY <1>0, <2>1, <2>2 DEF s
<1> HIDE DEF r, s, d
\* What is owed, for each place of the call.
<1>3. ASSUME UNCHANGED <<config, attempt>> PROVE Left' = Left /\ PerBatch' = PerBatch
  BY <1>3 DEF Left, PerBatch, LongestSleep
<1>4. CASE NextBatch
  <2>1. /\ stage = "batch" /\ stage' = "payload"
        /\ UNCHANGED <<config, attempt, waited, backoff>>
    BY <1>4 DEF NextBatch
  <2>2. Owed = 0 /\ Owed' = PerBatch
    BY <1>3, <2>1 DEF Owed
  <2>3. Begun \in Nat /\ Begun' \in Nat /\ Begun' >= Begun + 1
    BY <1>4, BegunGrows
  <2>4. http' = http /\ PerBatch' = PerBatch /\ LongestSleep' = LongestSleep
    BY <2>1 DEF PerBatch, LongestSleep
  <2>5. CASE http
    <3>1. PerBatch \in Nat
      BY <1>1, <2>5
    <3>2. Begun' * PerBatch >= Begun * PerBatch + PerBatch
      BY <2>3, <3>1, Products
    <3>3. Begun * PerBatch \in Nat /\ Begun' * PerBatch \in Nat
      BY <2>3, <3>1, Products
    <3>4. waited <= Begun * PerBatch
      BY <1>0, <2>2, <2>5 DEF WaitOK
    <3>5. waited' + Owed' <= Begun' * PerBatch'
      <4> DEFINE a == Begun * PerBatch
                 b == Begun' * PerBatch
      <4>1. a \in Nat /\ b \in Nat /\ b >= a + PerBatch /\ waited <= a
        BY <3>2, <3>3, <3>4
      <4>2. waited' = waited /\ Owed' = PerBatch /\ Begun' * PerBatch' = b
        BY <2>1, <2>2, <2>4
      <4> HIDE DEF a, b
      <4> QED  BY <1>0, <3>1, <4>1, <4>2
    <3> QED  BY <1>0, <2>1, <2>4, <2>5, <3>5 DEF WaitOK
  <2> QED  BY <1>0, <2>1, <2>4, <2>5 DEF WaitOK
<1>5. CASE \/ AllExported \/ RefuseInsecure \/ GrpcUnavailable \/ GiveUp
           \/ \E f \in {"transport", "permanent"} : GrpcSetupFails(f)
  <2>1. stage' = "done" /\ UNCHANGED <<config, end, attempt, waited, backoff>>
    BY <1>5 DEF AllExported, RefuseInsecure, GrpcUnavailable, GiveUp, GrpcSetupFails, Return,
                callVars
  <2>2. Owed' = 0 /\ (http => Owed \in Nat)
    BY <1>0, <1>1, <2>1 DEF Owed, s
  <2> QED  BY <1>0, <2>1, <2>2, WaitKept
<1>6. CASE EnterHttp
  <2>1. /\ stage = "payload" /\ stage' = "http" /\ http /\ attempt' = 0
        /\ backoff' = config.backoff /\ UNCHANGED <<config, end, waited>>
    BY <1>6 DEF EnterHttp
  <2>2. Left' = r * d
    <3>1. Left' = (r - 0) * d
      BY <2>1 DEF Left, LongestSleep, r, d
    <3>2. r - 0 = r
      BY <1>1, <2>1
    <3> QED  BY <3>1, <3>2
  <2>3. Owed = PerBatch /\ Owed' = PerBatch
    BY <1>1, <2>1, <2>2 DEF Owed
  <2> QED  BY <1>0, <1>1, <2>1, <2>3, WaitKept DEF s
<1>7. CASE SendHttp \/ ConnectFails
  <2>1. /\ stage = "http" /\ stage' \in {"wait", "failed"} /\ waited' = waited + Timeout
        /\ UNCHANGED <<config, end, attempt, backoff>>
    BY <1>7 DEF SendHttp, Send, ConnectFails, callVars
  <2>2. Owed = Left + Timeout /\ Owed' = Left
    BY <1>3, <2>1 DEF Owed
  <2> QED  BY <1>0, <1>1, <2>1, <2>2, WaitKept DEF s
<1>8. CASE SendGrpc
  <2>1. ~http /\ UNCHANGED <<config, end, backoff>> /\ waited' = waited + Timeout
    BY <1>8 DEF SendGrpc, Send, callVars
  <2> QED  BY <1>0, <2>1, WaitKept
<1>9. CASE AttemptOk
  <2>1. stage = "wait" /\ stage' = "batch" /\ UNCHANGED <<config, end, attempt, waited, backoff>>
    BY <1>9 DEF AttemptOk
  <2>2. Owed = Left /\ Owed' = 0
    BY <2>1 DEF Owed
  <2> QED  BY <1>0, <1>1, <2>1, <2>2, WaitKept DEF s
<1>10. CASE AttemptTimesOut \/ \E f \in Failures : AttemptErr(f)
  <2>1. /\ stage = "wait" /\ stage' \in {"failed", "done"}
        /\ UNCHANGED <<config, end, attempt, waited, backoff>>
    BY <1>10 DEF AttemptTimesOut, AttemptErr, Return, callVars
  <2>2. Owed = Left /\ Owed' \in {Left, 0}
    BY <1>3, <2>1 DEF Owed
  <2> QED  BY <1>0, <1>1, <2>1, <2>2, WaitKept DEF s
<1>11. CASE Retry
  <2>1. /\ stage = "failed" /\ stage' = "sleep" /\ attempt' = attempt + 1 /\ attempt < r
        /\ UNCHANGED <<config, end, waited, backoff>>
    BY <1>11 DEF Retry, r
  <2>2. http
    BY <2>1 DEF ExporterInv, CallOK
  <2> DEFINE q == r - attempt'
  <2>3. q \in Nat /\ r - attempt = q + 1
    BY <1>1, <2>1, <2>2
  <2>4. Left = (r - attempt) * d /\ Left' = q * d
    BY <2>1 DEF Left, LongestSleep, r, d
  <2> HIDE DEF q
  <2>5. (q + 1) * d = q * d + d /\ q * d \in Nat
    BY <1>1, <2>2, <2>3, Products
  <2>6. Left = Left' + d
    BY <2>3, <2>4, <2>5
  <2>7. Owed = Left /\ Owed' = s + Left' + Timeout
    BY <2>1 DEF Owed, LongestSleep, s
  <2>8. d = Timeout + s /\ Left \in Nat /\ Left' \in Nat /\ s \in Nat
    BY <1>1, <2>2, <2>4, <2>5 DEF d, s
  <2>9. Owed' = Owed /\ Owed \in Nat
    <3>1. Left = Left' + (Timeout + s) /\ Timeout \in Nat
      BY <1>0, <2>6, <2>8
    <3>2. \A x, y, z \in Nat : x + (y + z) = z + x + y
      OBVIOUS
    <3>3. Left' + (Timeout + s) = s + Left' + Timeout
      BY <2>8, <3>1, <3>2
    <3>4. Owed' = Left
      BY <2>7, <3>1, <3>3
    <3> QED  BY <2>7, <2>8, <3>4
  <2> QED  BY <1>0, <1>1, <2>1, <2>9, WaitKept DEF s
<1>12. CASE Sleep
  <2>1. /\ stage = "sleep" /\ stage' = "http" /\ waited' = waited + backoff
        /\ backoff' = Least((backoff * 2) % U64, BackoffCap)
        /\ UNCHANGED <<config, end, attempt>>
    BY <1>12 DEF Sleep
  <2>2. http
    BY <2>1 DEF ExporterInv, CallOK
  <2>3. Owed = s + Left + Timeout /\ Owed' = Left + Timeout
    BY <1>3, <2>1 DEF Owed, s
  <2>4. (backoff * 2) % U64 \in Nat
    BY <1>0, ExporterAssumption
  <2>5. backoff' \in Nat /\ backoff' <= s
    BY <1>1, <2>1, <2>2, <2>4 DEF Least
  <2>6. waited' \in Nat /\ waited' + Owed' <= waited + Owed /\ Owed \in Nat /\ Owed' \in Nat
    BY <1>0, <1>1, <2>1, <2>2, <2>3 DEF s
  <2> QED  BY <2>1, <2>5, <2>6, WaitKept DEF s
<1>13. CASE UNCHANGED <<config, end, attempt, stage, waited, backoff>>
  <2>1. Owed' = Owed
    BY <1>3, <1>13 DEF Owed, LongestSleep
  <2>2. http => Owed \in Nat
    BY <1>0, <1>1 DEF Owed, s
  <2> QED  BY <1>0, <1>13, <2>1, <2>2, WaitKept
<1>14. CASE (\E m \in wire : CollectorStores(m) \/ RequestLost(m)) \/ Returned
  BY <1>13, <1>14 DEF CollectorStores, RequestLost, Returned, vars, callVars
<1>15. CASE UNCHANGED vars
  BY <1>13, <1>15 DEF vars, callVars
<1> QED
  BY <1>4, <1>5, <1>6, <1>7, <1>8, <1>9, <1>10, <1>11, <1>12, <1>14, <1>15
     DEF Next, Export, Environment

\* The worker that exports over HTTP comes back: a call takes at most one
\* timeout for every attempt and one capped sleep for every retry of every
\* batch it has begun, for all batch sizes, retries and backoffs, although the
\* backoff doubles and wraps around.
THEOREM ExportTimeBounded == Spec => []BlockedBound
<1>1. Init => WaitInv
  <2> SUFFICES ASSUME Init PROVE WaitInv
    OBVIOUS
  <2>1. ExporterInv
    BY InitStep
  <2>2. AlignOK
    <3>1. start = 0 /\ end = 0 /\ 0 \in 0 .. MaxRecords
      BY ExporterAssumption DEF Init
    <3>2. 0 = 0 * Batch
      <4>1. Batch \in Nat
        BY <2>1, ConfigType DEF ExporterInv, Typed, Batch, Most
      <4> QED  BY <4>1
    <3> QED  BY <3>1, <3>2 DEF AlignOK
  <2>3. waited = 0 /\ backoff = 0 /\ Owed = 0
    BY DEF Init, Owed
  <2>4. ASSUME config.transport = "http"
        PROVE  LongestSleep \in Nat /\ Begun * PerBatch \in Nat
    <3>1. LongestSleep \in Nat /\ PerBatch \in Nat
      BY <2>1, <2>4, Numbers DEF ExporterInv
    <3>2. Begun \in Nat
      BY <2>1, BegunIs, BegunType DEF ExporterInv, Typed
    <3> QED  BY <3>1, <3>2, Products
  <2>5. WaitOK
    BY <2>3, <2>4 DEF WaitOK
  <2> QED  BY <2>2, <2>5 DEF WaitInv
<1>2. ExporterInv /\ ExporterInv' /\ WaitInv /\ [Next]_vars => WaitInv'
  BY AlignStep, WaitStep DEF WaitInv
<1>3. ExporterInv /\ WaitInv => BlockedBound
  <2> SUFFICES ASSUME ExporterInv, WaitInv, config.transport = "http"
               PROVE  waited <= Begun * PerBatch
    BY DEF BlockedBound, PerBatch, LongestSleep
  <2>1. PerBatch \in Nat /\ Begun \in Nat /\ LongestSleep \in Nat /\ Left \in Nat
    BY Numbers, BegunIs, BegunType DEF ExporterInv, Typed
  <2>2. Begun * PerBatch \in Nat
    BY <2>1, Products
  <2>3. Owed \in Nat
    BY <2>1, ExporterAssumption DEF Owed
  <2>4. waited \in Nat /\ waited + Owed <= Begun * PerBatch
    BY DEF WaitInv, WaitOK
  <2> DEFINE most == Begun * PerBatch
  <2>5. most \in Nat /\ waited + Owed <= most
    BY <2>2, <2>4
  <2> HIDE DEF most
  <2>6. waited <= most
    BY <2>3, <2>4, <2>5
  <2> QED  BY <2>6 DEF most
<1> QED  BY <1>1, <1>2, <1>3, Invariance, PTL DEF Spec
=============================================================================
