-------------------------- MODULE MicrohttpdProofs --------------------------
(***************************************************************************)
(* Theorems about Microhttpd, for any number of connections, requests and  *)
(* methods, and any limit of descriptors.                                  *)
(***************************************************************************)
EXTENDS Microhttpd, DataLemmas

\* A thread is among the readers of /proc exactly while it collects.
ReadersAreCalled == \A t \in Threads : at[t] # "idle" <=> pc[t] = "process"

\* A complete exposition is not under way any more.
CompleteIsOver ==
  \A t \in Threads :
    body[t].complete => pc[t] \in {"response", "recorded", "idle", "closed"}

\* An exposition, or what earlier ones have shown, is not ahead of the counters;
\* and where its own response has been counted, it is behind.
NotAhead(x) ==
  /\ \A m \in Methods : x.requests[m] <= requests_total[m]
  /\ x.responses <= responses_total

Behind(x) ==
  /\ \A m \in Methods : x.requests[m] <= requests_total[m]
  /\ x.complete => x.responses < responses_total
  /\ ~x.complete => x.responses = 0

NothingIsAhead ==
  /\ Behind(answered)
  /\ \A t \in Threads :
       /\ NotAhead(body[t]) /\ Behind(floor[t])
       /\ pc[t] = "recorded" /\ body[t].complete => body[t].responses < responses_total

\* What a scrape has to show, from the count of its request on.
OwnRequestShows ==
  \A t \in Threads :
    /\ pc[t] = "counted" => floor[t].requests[req[t].method] < requests_total[req[t].method]
    /\ pc[t] = "requests" =>
         /\ floor[t].requests["GET"] < requests_total["GET"]
         /\ \A m \in Methods \ left[t] : body[t].requests[m] >= floor[t].requests[m]
         /\ "GET" \notin left[t] => body[t].requests["GET"] > floor[t].requests["GET"]
    /\ pc[t] = "process" \/ body[t].complete =>
         /\ \A m \in Methods : body[t].requests[m] >= floor[t].requests[m]
         /\ body[t].requests["GET"] > floor[t].requests["GET"]
    /\ pc[t] = "process" \/ body[t].complete =>
         (floor[t].complete => body[t].responses > floor[t].responses)

\* What each reader of /proc leaves behind it.
Roomy == process.limit >= Reserved + 2 * Cardinality(Threads) /\ ~process.spaced
AfterStat == {"btime", "btime_open", "fd", "fd_open", "limits", "limits_open", "collected"}
AfterBtime == AfterStat \ {"btime", "btime_open"}

ReadersHaveRead ==
  Roomy =>
    \A t \in Threads :
      /\ at[t] \in AfterStat \/ body[t].complete => fields[t].stat # Garbage
      /\ at[t] \in AfterBtime \/ body[t].complete => fields[t].btime # Garbage
      /\ at[t] = "collected" \/ body[t].complete => fields[t].max_open_files # Garbage

Inv ==
  /\ TypeOK
  /\ ReadersAreCalled
  /\ CompleteIsOver
  /\ DescriptorsAccounted
  /\ ResponsesWithinRequests
  /\ NothingIsAhead
  /\ OwnRequestShows
  /\ ReadersHaveRead

\* What thread t may do next.
Step(t) == \/ Accept(t) \/ HangUp(t)
           \/ \E r \in Requests : Request(t, r)
           \/ HandlerStep(t)

-----------------------------------------------------------------------------
(* Lemmas *)

\* A set of threads that gains or loses at most the thread t.
LEMMA CountAfter ==
  ASSUME NEW t \in Threads, NEW P \in SUBSET Threads, NEW Q \in SUBSET Threads,
         P \ {t} = Q \ {t}
  PROVE  /\ Cardinality(P) \in Nat /\ Cardinality(Q) \in Nat
         /\ t \in P => Cardinality(P) >= 1
         /\ Cardinality(Q) = Cardinality(P) + (IF t \in Q THEN 1 ELSE 0)
                                            - (IF t \in P THEN 1 ELSE 0)
<1> DEFINE R == P \ {t}
<1>1. IsFiniteSet(P) /\ IsFiniteSet(Q) /\ IsFiniteSet(R)
  BY MicrohttpdAssumption, FS_Subset
<1>2. /\ Cardinality(P) \in Nat /\ Cardinality(Q) \in Nat
      /\ Cardinality(R) \in Nat
  BY <1>1, FS_CardinalityType
<1>3. Cardinality(P) = Cardinality(R) + (IF t \in P THEN 1 ELSE 0)
  BY <1>1, <1>2, FS_RemoveElement
<1>4. Cardinality(Q) = Cardinality(R) + (IF t \in Q THEN 1 ELSE 0)
  BY <1>1, <1>2, FS_RemoveElement
<1> HIDE DEF R
<1> QED BY <1>2, <1>3, <1>4

\* Counting one more request adds one to the sum over the methods.
LEMMA TotalIncremented ==
  ASSUME NEW f \in [Methods -> Nat], NEW m \in Methods
  PROVE  /\ SumFunction(f) \in Int
         /\ SumFunction([f EXCEPT ![m] = @ + 1]) = SumFunction(f) + 1
<1> DEFINE e == [f EXCEPT ![m] = f[m] + 1]
<1>1. /\ f \in [Methods -> Int] /\ e \in [Methods -> Int] /\ f[m] \in Nat
      /\ e[m] = f[m] + 1 /\ \A x \in Methods \ {m} : e[x] = f[x]
      /\ IsFiniteSet(Methods)
  BY MicrohttpdAssumption
<1> HIDE DEF e
<1>2. SumFunction(f) \in Int
  BY <1>1, SumFunctionType
<1>3. SumFunction(e) = SumFunction(f) - f[m] + e[m]
  BY <1>1, SumFunctionUpdate
<1>4. SumFunction(e) = SumFunction(f) + 1
  BY <1>1, <1>2, <1>3
<1> QED BY <1>2, <1>4 DEF e

\* The greater of two numbers.
LEMMA MaxOfTwo ==
  \A a, b \in Nat :
    Max({a, b}) \in {a, b} /\ Max({a, b}) >= a /\ Max({a, b}) >= b
<1> SUFFICES ASSUME NEW a \in Nat, NEW b \in Nat
             PROVE  Max({a, b}) \in {a, b} /\ Max({a, b}) >= a /\ Max({a, b}) >= b
  OBVIOUS
<1>1. \E x \in {a, b} : \A y \in {a, b} : x >= y
  <2>1. CASE a >= b
    BY <2>1
  <2>2. CASE b >= a
    BY <2>2
  <2> QED BY <2>1, <2>2
<1>2. Max({a, b}) \in {a, b} /\ \A y \in {a, b} : Max({a, b}) >= y
  BY <1>1, Zenon DEF Max
<1> QED BY <1>2

\* One step of a reader of /proc: the file it opens or closes, and the members
\* it sets.
LEMMA ReaderStep ==
  ASSUME Inv, NEW t \in Threads, CollectProcess(t)
  PROVE  /\ pc[t] = "process" /\ process \in Processes
         /\ UNCHANGED <<process, alive, pc, req, ptr, upload, requests_total,
                        responses_total, body, left, made, answered, floor>>
         /\ \E next \in Stages \ {"idle"} : at' = [at EXCEPT ![t] = next]
         /\ fields' \in [Threads -> FieldsType]
         /\ \A u \in Threads : u # t => fields'[u] = fields[u]
         /\ open' = open + (IF at'[t] \in Holding THEN 1 ELSE 0)
                         - (IF at[t] \in Holding THEN 1 ELSE 0)
         /\ at'[t] \in Holding => open < process.limit
<1> USE ProcessExportsAssumption DEF Inv, TypeOK, CollectProcess, PEStep, Stages, Holding
<1>1. /\ process.limit \in Nat /\ open \in Nat
      /\ at \in [Threads -> Stages] /\ fields \in [Threads -> FieldsType]
  OBVIOUS
<1> DEFINE Reads == \/ ReadStat(t) \/ ReadBtime(t) \/ ReadBtimeThrows(t) \/ ReadFd(t)
                    \/ ReadFdFails(t) \/ ReadLimits(t) \/ ReadLimitsThrows(t)
<1>2. ASSUME NEW now \in {"stat", "btime", "fd", "limits"},
             NEW opened \in Holding, NEW otherwise \in {"btime", "fd", "threw", "collected"},
             OpenFile(t, now, opened, otherwise)
      PROVE  /\ \E next \in Stages \ {"idle"} : at' = [at EXCEPT ![t] = next]
             /\ fields' = fields
             /\ open' = open + (IF at'[t] \in Holding THEN 1 ELSE 0)
                             - (IF at[t] \in Holding THEN 1 ELSE 0)
             /\ at'[t] \in Holding => open < process.limit
  BY <1>1, <1>2 DEF OpenFile
<1>3. ASSUME NEW now \in Holding, NEW next \in {"btime", "fd", "limits", "threw", "collected"},
             CloseFile(t, now, next)
      PROVE  /\ next \in Stages \ {"idle"} /\ at' = [at EXCEPT ![t] = next]
             /\ open' = open + (IF at'[t] \in Holding THEN 1 ELSE 0)
                             - (IF at[t] \in Holding THEN 1 ELSE 0)
             /\ at'[t] \notin Holding
  BY <1>1, <1>3 DEF CloseFile
<1>4. ASSUME Reads
      PROVE  fields' \in [Threads -> FieldsType] /\ \A u \in Threads : u # t => fields'[u] = fields[u]
  <2> HIDE DEF Inv, TypeOK, CollectProcess, PEStep, Stages, Holding
  <2>1. CASE ReadStat(t) \/ ReadBtime(t)
    BY <1>1, <2>1 DEF ReadStat, ReadBtime, FieldsType
  <2>2. CASE ReadFd(t) \/ ReadLimits(t)
    BY <1>1, <2>2 DEF ReadFd, ReadLimits, FieldsType
  <2>3. CASE ReadBtimeThrows(t) \/ ReadFdFails(t) \/ ReadLimitsThrows(t)
    BY <1>1, <2>3 DEF ReadBtimeThrows, ReadFdFails, ReadLimitsThrows
  <2> QED BY <1>4, <2>1, <2>2, <2>3
<1> DEFINE Effect ==
             /\ \E next \in Stages \ {"idle"} : at' = [at EXCEPT ![t] = next]
             /\ fields' \in [Threads -> FieldsType]
             /\ \A u \in Threads : u # t => fields'[u] = fields[u]
             /\ open' = open + (IF at'[t] \in Holding THEN 1 ELSE 0)
                             - (IF at[t] \in Holding THEN 1 ELSE 0)
             /\ at'[t] \in Holding => open < process.limit
<1>5. ASSUME NEW now \in {"stat", "btime", "fd", "limits"},
             NEW opened \in Holding, NEW otherwise \in {"btime", "fd", "threw", "collected"},
             OpenFile(t, now, opened, otherwise)
      PROVE  Effect
  BY <1>1, <1>2, <1>5
<1>6. ASSUME NEW now \in Holding, NEW next \in {"btime", "fd", "limits", "threw", "collected"},
             CloseFile(t, now, next),
             Reads
      PROVE  Effect
  BY <1>3, <1>4, <1>6
<1>7. /\ pc[t] = "process" /\ process \in Processes
      /\ UNCHANGED <<process, alive, pc, req, ptr, upload, requests_total,
                     responses_total, body, left, made, answered, floor>>
  BY DEF counters, handler, history, scrape
<1> HIDE DEF Effect, Inv, TypeOK, CollectProcess
<1>8. ASSUME Reads
      PROVE  Effect
  <2>1. CASE ReadStat(t)
    <3>1. CloseFile(t, "stat_open", "btime")
      BY <2>1 DEF ReadStat
    <3> QED BY <1>6, <2>1, <3>1
  <2>2. CASE ReadBtime(t)
    <3>1. CloseFile(t, "btime_open", "fd")
      BY <2>2 DEF ReadBtime
    <3> QED BY <1>6, <2>2, <3>1
  <2>3. CASE ReadFd(t)
    <3>1. CloseFile(t, "fd_open", "limits")
      BY <2>3 DEF ReadFd
    <3> QED BY <1>6, <2>3, <3>1
  <2>4. CASE ReadFdFails(t)
    <3>1. CloseFile(t, "fd_open", "threw")
      BY <2>4 DEF ReadFdFails
    <3> QED BY <1>6, <2>4, <3>1
  <2>5. CASE ReadLimits(t)
    <3>1. CloseFile(t, "limits_open", "collected")
      BY <2>5 DEF ReadLimits
    <3> QED BY <1>6, <2>5, <3>1
  <2>6. CASE ReadBtimeThrows(t)
    <3>1. CloseFile(t, "btime_open", "threw")
      BY <2>6 DEF ReadBtimeThrows
    <3> QED BY <1>6, <2>6, <3>1
  <2>7. CASE ReadLimitsThrows(t)
    <3>1. CloseFile(t, "limits_open", "threw")
      BY <2>7 DEF ReadLimitsThrows
    <3> QED BY <1>6, <2>7, <3>1
  <2> QED BY <1>8, <2>1, <2>2, <2>3, <2>4, <2>5, <2>6, <2>7
<1>9. Effect
  <2>1. CASE OpenFile(t, "stat", "stat_open", "btime")
    BY <1>5, <2>1
  <2>2. CASE OpenFile(t, "btime", "btime_open", "fd")
    BY <1>5, <2>2
  <2>3. CASE OpenFile(t, "fd", "fd_open", "threw")
    BY <1>5, <2>3
  <2>4. CASE OpenFile(t, "limits", "limits_open", "collected")
    BY <1>5, <2>4
  <2> QED BY <1>8, <2>1, <2>2, <2>3, <2>4 DEF CollectProcess, PEStep
<1> QED BY <1>7, <1>9 DEF Effect

\* What every step of thread t leaves alone: the other threads' variables; and
\* the counters never go down.
LEMMA StepFrame ==
  ASSUME Inv, NEW t \in Threads, Step(t)
  PROVE  /\ process' = process
         /\ \A u \in Threads : u # t =>
              /\ pc'[u] = pc[u] /\ at'[u] = at[u] /\ fields'[u] = fields[u]
              /\ req'[u] = req[u] /\ body'[u] = body[u] /\ left'[u] = left[u]
              /\ floor'[u] = floor[u]
         /\ \A m \in Methods : requests_total'[m] >= requests_total[m]
         /\ responses_total' >= responses_total
<1> USE DEF Inv, TypeOK
<1>0. /\ \A m \in Methods : requests_total[m] >= requests_total[m]
      /\ responses_total >= responses_total
  OBVIOUS
<1>1. CASE \/ Accept(t) \/ HangUp(t) \/ Refuse(t) \/ AskForMore(t) \/ ServePage(t)
           \/ CollectThrows(t) \/ QueueResponse(t) \/ QueueFails(t)
  BY <1>0, <1>1 DEF Accept, HangUp, Refuse, AskForMore, ServePage, CollectThrows,
     QueueResponse, QueueFails, Go, counters, history, handler, scrape, peVars
<1>2. CASE \E r \in Requests : Request(t, r)
  BY <1>0, <1>2 DEF Request, Go, counters, peVars
<1>3. CASE RecordRequest(t)
  BY <1>3 DEF RecordRequest, Go, handler, scrape, peVars, history
<1>4. CASE CollectRequests(t) \/ CollectResponses(t) \/ CollectReturns(t)
  BY <1>0, <1>4 DEF CollectRequests, CollectResponses, CollectReturns, PECall, Go, counters,
     history, handler, peVars
<1>7. CASE \E m \in Methods : CollectSeries(t, m)
  BY <1>0, <1>7 DEF CollectSeries, counters, history, handler, peVars
<1>5. CASE CollectProcess(t)
  <2>1. \E next \in Stages \ {"idle"} : at' = [at EXCEPT ![t] = next]
    BY <1>5, ReaderStep
  <2> QED BY <1>0, <1>5, <2>1, ReaderStep
<1>6. CASE RecordResponse(t)
  BY <1>6 DEF RecordResponse, Go, counters, handler, scrape, peVars, history
<1> QED BY <1>1, <1>2, <1>3, <1>4, <1>5, <1>6, <1>7 DEF Step, HandlerStep

-----------------------------------------------------------------------------
(* Each part of the invariant is preserved. *)

\* Where the thread t goes, and what that does to the open descriptors.
LEMMA PlaceStep ==
  ASSUME Inv, NEW t \in Threads, Step(t)
  PROVE  /\ pc' \in [Threads -> Places] /\ at' \in [Threads -> Stages]
         /\ at'[t] # "idle" <=> pc'[t] = "process"
         /\ open' = open + (IF pc'[t] # "closed" THEN 1 ELSE 0)
                         - (IF pc[t] # "closed" THEN 1 ELSE 0)
                         + (IF at'[t] \in Holding THEN 1 ELSE 0)
                         - (IF at[t] \in Holding THEN 1 ELSE 0)
         /\ pc'[t] # "closed" /\ pc[t] = "closed" => open < process.limit
         /\ at'[t] \in Holding => open < process.limit /\ pc[t] # "closed"
<1> USE DEF Inv, TypeOK, ReadersAreCalled, Places
<1>0. /\ open \in Nat /\ process.limit \in Nat
      /\ pc[t] # "process" => at[t] \notin Holding
  BY ProcessExportsAssumption DEF Holding
<1>1. CASE \/ Accept(t) \/ HangUp(t) \/ Refuse(t) \/ AskForMore(t) \/ ServePage(t)
           \/ QueueResponse(t) \/ QueueFails(t)
  BY <1>0, <1>1 DEF Accept, HangUp, Refuse, AskForMore, ServePage,
     QueueResponse, QueueFails, Go, counters, history, handler, scrape, peVars
<1>2. CASE \/ \E r \in Requests : Request(t, r)
           \/ RecordRequest(t) \/ CollectRequests(t) \/ RecordResponse(t)
  BY <1>0, <1>2 DEF Request, RecordRequest, CollectRequests, RecordResponse, Go, peVars
<1>7. CASE \E m \in Methods : CollectSeries(t, m)
  BY <1>0, <1>7 DEF CollectSeries, peVars
<1>3. CASE CollectResponses(t)
  BY <1>0, <1>3 DEF CollectResponses, PECall, Go, Holding, Stages
<1>4. CASE CollectReturns(t)
  BY <1>0, <1>4 DEF CollectReturns, Go, Holding, Stages
<1>5. CASE CollectProcess(t)
  <2>1. PICK next \in Stages \ {"idle"} : at' = [at EXCEPT ![t] = next]
    BY <1>5, ReaderStep
  <2>2. /\ pc[t] = "process" /\ pc' = pc
        /\ open' = open + (IF at'[t] \in Holding THEN 1 ELSE 0)
                        - (IF at[t] \in Holding THEN 1 ELSE 0)
        /\ at'[t] \in Holding => open < process.limit
    BY <1>5, ReaderStep
  <2> QED BY <1>0, <2>1, <2>2
<1>6. CASE CollectThrows(t)
  BY <1>0, <1>6 DEF CollectThrows, peVars, Holding
<1> QED BY <1>1, <1>2, <1>3, <1>4, <1>5, <1>6, <1>7 DEF Step, HandlerStep

\* A descriptor for each connection and for each file that is being read.
LEMMA DescriptorsStep ==
  ASSUME Inv, NEW t \in Threads, Step(t)
  PROVE  DescriptorsAccounted' /\ open' \in Nat
<1> DEFINE C == {u \in Threads : pc[u] # "closed"}
           D == {u \in Threads : pc'[u] # "closed"}
           F == {u \in Threads : at[u] \in Holding}
           G == {u \in Threads : at'[u] \in Holding}
<1>1. C \ {t} = D \ {t} /\ F \ {t} = G \ {t} /\ process' = process
  BY StepFrame
<1>2. /\ Cardinality(C) \in Nat /\ Cardinality(D) \in Nat
      /\ Cardinality(D) = Cardinality(C) + (IF pc'[t] # "closed" THEN 1 ELSE 0)
                                         - (IF pc[t] # "closed" THEN 1 ELSE 0)
  BY <1>1, CountAfter
<1>3. /\ Cardinality(F) \in Nat /\ Cardinality(G) \in Nat
      /\ Cardinality(G) = Cardinality(F) + (IF at'[t] \in Holding THEN 1 ELSE 0)
                                         - (IF at[t] \in Holding THEN 1 ELSE 0)
  BY <1>1, CountAfter
<1>4. /\ open = Reserved + Cardinality(C) + Cardinality(F)
      /\ open <= process.limit /\ open \in Nat
      /\ Reserved \in Nat /\ process.limit \in Nat
  BY ProcessExportsAssumption DEF Inv, TypeOK, DescriptorsAccounted
<1> HIDE DEF C, D, F, G
<1>5. open' = Reserved + Cardinality(D) + Cardinality(G) /\ open' \in Nat
  BY <1>2, <1>3, <1>4, PlaceStep
<1>6. open' <= process'.limit
  BY <1>1, <1>4, PlaceStep
<1> QED BY <1>5, <1>6 DEF DescriptorsAccounted, D, G

\* The types of what the handler of t reads and writes.
LEMMA TypeStep ==
  ASSUME Inv, NEW t \in Threads, Step(t)
  PROVE  TypeOK'
<1> USE DEF Inv, TypeOK
<1>0. pc' \in [Threads -> Places] /\ at' \in [Threads -> Stages] /\ open' \in Nat
  BY PlaceStep, DescriptorsStep
<1>1. CASE Accept(t) \/ HangUp(t) \/ Refuse(t) \/ CollectThrows(t) \/ QueueFails(t)
  BY <1>0, <1>1 DEF Accept, HangUp, Refuse, CollectThrows, QueueFails, counters,
     history, handler, scrape, peVars
<1>8. CASE AskForMore(t) \/ ServePage(t)
  <2>1. req[t].upload \in BOOLEAN
    BY MicrohttpdAssumption
  <2> QED BY <1>0, <1>8, <2>1 DEF AskForMore, ServePage, counters, history, scrape, peVars
<1>2. ASSUME NEW r \in Requests, Request(t, r)
      PROVE  TypeOK'
  <2>1. None \in BodyType
    BY DEF None, BodyType
  <2>2. made' \in 0..MaxRequests
    BY <1>2, MicrohttpdAssumption DEF Request
  <2> QED BY <1>0, <1>2, <2>1, <2>2 DEF Request, counters, peVars
<1>3. CASE RecordRequest(t)
  <2>1. req[t].method \in Methods
    BY MicrohttpdAssumption
  <2> QED BY <1>0, <1>3, <2>1 DEF RecordRequest, handler, scrape, history, peVars
<1>4. CASE RecordResponse(t)
  BY <1>0, <1>4 DEF RecordResponse, handler, scrape, history, peVars
<1>5. CASE CollectRequests(t) \/ CollectResponses(t) \/ CollectReturns(t)
  <2>1. body' \in [Threads -> BodyType]
    <3>1. \E b \in BodyType : body' = [body EXCEPT ![t] = b]
      <4>1. body[t] \in BodyType
        OBVIOUS
      <4>2. CASE CollectRequests(t)
        <5>1. body' = [body EXCEPT ![t] = body[t]]
          BY <4>2 DEF CollectRequests
        <5> QED BY <4>1, <5>1
      <4>3. CASE CollectResponses(t)
        <5> DEFINE b == [body[t] EXCEPT !.responses = responses_total]
        <5>1. b \in BodyType
          BY <4>1 DEF BodyType
        <5> QED BY <4>3, <5>1 DEF CollectResponses
      <4>4. CASE CollectReturns(t)
        <5> DEFINE b == [body[t] EXCEPT !.complete = TRUE]
        <5>1. b \in BodyType
          BY <4>1 DEF BodyType
        <5> QED BY <4>4, <5>1 DEF CollectReturns
      <4> QED BY <1>5, <4>2, <4>3, <4>4
    <3> QED BY <3>1
  <2>2. Uninitialised \in FieldsType
    BY DEF Uninitialised, FieldsType
  <2>3. fields' \in [Threads -> FieldsType]
    BY <1>5, <2>2 DEF CollectRequests, CollectResponses, CollectReturns, PECall, peVars
  <2>4. left' \in [Threads -> SUBSET Methods]
    BY <1>5 DEF CollectRequests, CollectResponses, CollectReturns
  <2> QED BY <1>0, <1>5, <2>1, <2>3, <2>4 DEF CollectRequests, CollectResponses, CollectReturns,
             PECall, counters, history, handler, peVars
<1>9. ASSUME NEW m \in Methods, CollectSeries(t, m)
      PROVE  TypeOK'
  <2> DEFINE b == [body[t] EXCEPT !.requests[m] = requests_total[m]]
  <2>1. body[t] \in BodyType /\ b \in BodyType
    BY DEF BodyType
  <2>2. body' = [body EXCEPT ![t] = b]
    BY <1>9 DEF CollectSeries
  <2> HIDE DEF b
  <2>3. body' \in [Threads -> BodyType]
    BY <2>1, <2>2
  <2>4. left' \in [Threads -> SUBSET Methods]
    BY <1>9 DEF CollectSeries
  <2> QED BY <1>0, <1>9, <2>3, <2>4 DEF CollectSeries, counters, history, handler, peVars
<1>6. CASE CollectProcess(t)
  BY <1>0, <1>6, ReaderStep
<1>7. CASE QueueResponse(t)
  <2>1. Greatest(body[t], answered) \in BodyType
    <3>1. body[t] \in BodyType /\ answered \in BodyType
      OBVIOUS
    <3>2. ASSUME NEW m \in Methods
          PROVE  Max({body[t].requests[m], answered.requests[m]}) \in Nat
      <4>1. body[t].requests[m] \in Nat /\ answered.requests[m] \in Nat
        BY <3>1 DEF BodyType
      <4> QED BY <4>1, MaxOfTwo
    <3>3. Max({body[t].responses, answered.responses}) \in Nat
      <4>1. body[t].responses \in Nat /\ answered.responses \in Nat
        BY <3>1 DEF BodyType
      <4> QED BY <4>1, MaxOfTwo
    <3> QED BY <3>2, <3>3 DEF Greatest, BodyType
  <2> QED BY <1>0, <1>7, <2>1 DEF QueueResponse, counters, handler, scrape, peVars
<1> QED BY <1>1, <1>2, <1>3, <1>4, <1>5, <1>6, <1>7, <1>8, <1>9 DEF Step, HandlerStep

\* The other threads stay where they are, in this respect too.
LEMMA PhasesStep ==
  ASSUME Inv, NEW t \in Threads, Step(t)
  PROVE  ReadersAreCalled' /\ CompleteIsOver'
<1> USE DEF Inv, TypeOK
<1>1. ReadersAreCalled'
  BY StepFrame, PlaceStep DEF ReadersAreCalled
<1>2. body[t].complete => pc[t] \in {"response", "recorded", "idle", "closed"}
  BY DEF CompleteIsOver
<1>3. body'[t].complete => pc'[t] \in {"response", "recorded", "idle", "closed"}
  <2>1. CASE \/ Accept(t) \/ HangUp(t) \/ Refuse(t) \/ AskForMore(t) \/ ServePage(t)
             \/ CollectThrows(t) \/ QueueResponse(t) \/ QueueFails(t)
             \/ RecordRequest(t) \/ RecordResponse(t)
    BY <1>2, <2>1 DEF Accept, HangUp, Refuse, AskForMore, ServePage, CollectThrows,
       QueueResponse, QueueFails, RecordRequest, RecordResponse, Go, scrape
  <2>2. CASE \E r \in Requests : Request(t, r)
    BY <2>2 DEF Request, None
  <2>3. CASE CollectRequests(t) \/ CollectResponses(t)
    <3>1. body'[t].complete = body[t].complete
      BY <2>3 DEF CollectRequests, CollectResponses, BodyType
    <3> QED BY <1>2, <2>3, <3>1 DEF CollectRequests, CollectResponses, Go
  <2>4. CASE CollectReturns(t)
    BY <2>4 DEF CollectReturns, Go
  <2>5. CASE CollectProcess(t)
    BY <1>2, <2>5, ReaderStep
  <2>6. CASE \E m \in Methods : CollectSeries(t, m)
    <3>1. body'[t].complete = body[t].complete
      BY <2>6 DEF CollectSeries, BodyType
    <3> QED BY <1>2, <2>6, <3>1 DEF CollectSeries
  <2> QED BY <2>1, <2>2, <2>3, <2>4, <2>5, <2>6 DEF Step, HandlerStep
<1>4. CompleteIsOver'
  BY <1>3, StepFrame DEF CompleteIsOver
<1> QED BY <1>1, <1>4

\* A response is recorded by a thread whose request has been.
LEMMA ResponsesStep ==
  ASSUME Inv, NEW t \in Threads, Step(t)
  PROVE  ResponsesWithinRequests'
<1> USE DEF Inv, TypeOK
<1> DEFINE Counted == {"counted", "requests", "process", "response"}
           C == {u \in Threads : pc[u] \in Counted}
           D == {u \in Threads : pc'[u] \in Counted}
<1>1. C \ {t} = D \ {t}
  BY StepFrame
<1>2. /\ Cardinality(C) \in Nat /\ Cardinality(D) \in Nat
      /\ Cardinality(D) = Cardinality(C) + (IF pc'[t] \in Counted THEN 1 ELSE 0)
                                         - (IF pc[t] \in Counted THEN 1 ELSE 0)
  BY <1>1, CountAfter
<1>3. responses_total + Cardinality(C) <= SumFunction(requests_total)
  BY DEF ResponsesWithinRequests
<1>4. responses_total \in Nat /\ requests_total \in [Methods -> Nat]
  OBVIOUS
<1>5. SumFunction(requests_total) \in Int
  BY <1>4, TotalIncremented, MicrohttpdAssumption
<1> HIDE DEF C, D
<1>6. responses_total' + Cardinality(D) <= SumFunction(requests_total')
  <2>1. CASE RecordRequest(t)
    <3>1. req[t].method \in Methods
      BY MicrohttpdAssumption
    <3>2. SumFunction(requests_total') = SumFunction(requests_total) + 1
      BY <1>4, <2>1, <3>1, TotalIncremented DEF RecordRequest
    <3> QED BY <1>2, <1>3, <1>4, <1>5, <2>1, <3>2 DEF RecordRequest, Go
  <2>2. CASE RecordResponse(t)
    BY <1>2, <1>3, <1>4, <1>5, <2>2 DEF RecordResponse, Go
  <2>3. ASSUME UNCHANGED <<requests_total, responses_total>>,
               pc'[t] \in Counted => pc[t] \in Counted
        PROVE  responses_total' + Cardinality(D) <= SumFunction(requests_total')
    BY <1>2, <1>3, <1>4, <1>5, <2>3
  <2>4. CASE \/ Accept(t) \/ HangUp(t) \/ Refuse(t) \/ AskForMore(t) \/ ServePage(t)
             \/ CollectThrows(t) \/ QueueResponse(t) \/ QueueFails(t)
             \/ CollectRequests(t) \/ CollectResponses(t) \/ CollectReturns(t)
             \/ \E r \in Requests : Request(t, r)
             \/ \E m \in Methods : CollectSeries(t, m)
    <3>1. /\ UNCHANGED <<requests_total, responses_total>>
          /\ pc'[t] \in Counted => pc[t] \in Counted
      BY <2>4 DEF Accept, HangUp, Refuse, AskForMore, ServePage, CollectThrows,
         QueueResponse, QueueFails, CollectRequests, CollectSeries, CollectResponses,
         CollectReturns, Request, Go, counters
    <3> QED BY <2>3, <3>1
  <2>5. CASE CollectProcess(t)
    BY <2>3, <2>5, ReaderStep
  <2> QED BY <2>1, <2>2, <2>4, <2>5 DEF Step, HandlerStep
<1> QED BY <1>6 DEF ResponsesWithinRequests, D

\* Counters that have grown are not behind what they were not behind.
LEMMA StaysBehind ==
  ASSUME \A m \in Methods : requests_total[m] \in Nat /\ requests_total'[m] \in Nat
                            /\ requests_total'[m] >= requests_total[m],
         responses_total \in Nat, responses_total' \in Nat,
         responses_total' >= responses_total,
         NEW x \in BodyType
  PROVE  /\ NotAhead(x) => /\ \A m \in Methods : x.requests[m] <= requests_total'[m]
                           /\ x.responses <= responses_total'
         /\ Behind(x) => /\ \A m \in Methods : x.requests[m] <= requests_total'[m]
                         /\ x.complete => x.responses < responses_total'
                         /\ ~x.complete => x.responses = 0
<1>1. x.responses \in Nat /\ \A m \in Methods : x.requests[m] \in Nat
  BY DEF BodyType
<1> QED BY <1>1 DEF NotAhead, Behind

\* The counters as numbers, before and after a step.
LEMMA CountersGrow ==
  ASSUME Inv, NEW t \in Threads, Step(t)
  PROVE  /\ \A m \in Methods : requests_total[m] \in Nat /\ requests_total'[m] \in Nat
                               /\ requests_total'[m] >= requests_total[m]
         /\ responses_total \in Nat /\ responses_total' \in Nat
         /\ responses_total' >= responses_total
BY StepFrame, TypeStep DEF Inv, TypeOK

\* What has been answered is behind the counters.
LEMMA AnsweredStep ==
  ASSUME Inv, NEW t \in Threads, Step(t)
  PROVE  Behind(answered)'
<1> USE DEF Inv, TypeOK
<1>1. Behind(answered) /\ answered \in BodyType
  BY DEF NothingIsAhead
<1>2. ASSUME UNCHANGED answered
      PROVE  Behind(answered)'
  BY <1>1, <1>2, CountersGrow, StaysBehind DEF Behind
<1>3. ASSUME QueueResponse(t), body[t].complete
      PROVE  Behind(answered)'
  <2>1. /\ answered' = Greatest(body[t], answered)
        /\ UNCHANGED <<requests_total, responses_total>>
    BY <1>3 DEF QueueResponse, counters
  <2>2. NotAhead(body[t]) /\ body[t].responses < responses_total /\ body[t] \in BodyType
    BY <1>3 DEF NothingIsAhead, QueueResponse, Go
  <2>3. /\ \A m \in Methods : body[t].requests[m] \in Nat /\ answered.requests[m] \in Nat
                              /\ requests_total[m] \in Nat
        /\ body[t].responses \in Nat /\ answered.responses \in Nat /\ responses_total \in Nat
        /\ answered.complete \in BOOLEAN
    BY <1>1, <2>2 DEF BodyType
  <2>4. ASSUME NEW m \in Methods
        PROVE  answered'.requests[m] <= requests_total[m]
    <3>1. /\ body[t].requests[m] <= requests_total[m]
          /\ answered.requests[m] <= requests_total[m]
      BY <1>1, <2>2 DEF NotAhead, Behind
    <3>2. Max({body[t].requests[m], answered.requests[m]})
            \in {body[t].requests[m], answered.requests[m]}
      BY <2>3, MaxOfTwo
    <3>3. answered'.requests[m] = Max({body[t].requests[m], answered.requests[m]})
      BY <2>1 DEF Greatest
    <3> QED BY <3>1, <3>2, <3>3
  <2>5. answered'.responses < responses_total
    <3>1. answered.responses < responses_total
      BY <1>1, <2>2, <2>3 DEF Behind
    <3>2. Max({body[t].responses, answered.responses})
            \in {body[t].responses, answered.responses}
      BY <2>3, MaxOfTwo
    <3>3. answered'.responses = Max({body[t].responses, answered.responses})
      BY <2>1 DEF Greatest
    <3> QED BY <2>2, <3>1, <3>2, <3>3
  <2>6. answered'.complete
    BY <2>1 DEF Greatest
  <2> QED BY <2>1, <2>4, <2>5, <2>6 DEF Behind
<1>4. CASE QueueResponse(t)
  BY <1>2, <1>3, <1>4 DEF QueueResponse
<1>5. CASE \/ Accept(t) \/ HangUp(t) \/ Refuse(t) \/ AskForMore(t) \/ ServePage(t)
           \/ CollectThrows(t) \/ QueueFails(t) \/ RecordRequest(t) \/ RecordResponse(t)
           \/ CollectRequests(t) \/ CollectResponses(t) \/ CollectReturns(t)
           \/ \E r \in Requests : Request(t, r)
           \/ \E m \in Methods : CollectSeries(t, m)
  <2>1. UNCHANGED answered
    BY <1>5 DEF Accept, HangUp, Refuse, AskForMore, ServePage, CollectThrows, QueueFails,
       RecordRequest, RecordResponse, CollectRequests, CollectSeries, CollectResponses,
       CollectReturns, Request, history
  <2> QED BY <1>2, <2>1
<1>6. CASE CollectProcess(t)
  BY <1>2, <1>6, ReaderStep
<1> QED BY <1>4, <1>5, <1>6 DEF Step, HandlerStep

\* No exposition is ahead of the counters.
LEMMA AheadStep ==
  ASSUME Inv, NEW t \in Threads, Step(t)
  PROVE  NothingIsAhead'
<1> USE DEF Inv, TypeOK
<1>1. \A u \in Threads : /\ NotAhead(body[u]) /\ Behind(floor[u])
                         /\ body[u] \in BodyType /\ floor[u] \in BodyType
                         /\ pc[u] = "recorded" /\ body[u].complete =>
                              body[u].responses < responses_total
  BY DEF NothingIsAhead
<1>2. \A u \in Threads :
        /\ body'[u] = body[u] => NotAhead(body[u])'
        /\ floor'[u] = floor[u] => Behind(floor[u])'
        /\ pc'[u] = pc[u] /\ body'[u] = body[u] =>
             (pc[u] = "recorded" /\ body[u].complete => body[u].responses < responses_total)'
  <2> SUFFICES ASSUME NEW u \in Threads
               PROVE  /\ body'[u] = body[u] => NotAhead(body[u])'
                      /\ floor'[u] = floor[u] => Behind(floor[u])'
                      /\ pc'[u] = pc[u] /\ body'[u] = body[u] =>
                           (pc[u] = "recorded" /\ body[u].complete =>
                              body[u].responses < responses_total)'
    OBVIOUS
  <2>1. body[u].responses \in Nat
    BY <1>1 DEF BodyType
  <2>2. body'[u] = body[u] => NotAhead(body[u])'
    BY <1>1, CountersGrow, StaysBehind DEF NotAhead
  <2>3. floor'[u] = floor[u] => Behind(floor[u])'
    BY <1>1, CountersGrow, StaysBehind DEF Behind
  <2>4. pc'[u] = pc[u] /\ body'[u] = body[u] =>
          (pc[u] = "recorded" /\ body[u].complete => body[u].responses < responses_total)'
    <3> SUFFICES ASSUME pc'[u] = pc[u], body'[u] = body[u],
                        pc[u] = "recorded", body[u].complete
                 PROVE  body[u].responses < responses_total'
      OBVIOUS
    <3>1. body[u].responses < responses_total
      BY <1>1
    <3>2. responses_total \in Nat /\ responses_total' \in Nat
          /\ responses_total' >= responses_total
      BY CountersGrow
    <3> QED BY <2>1, <3>1, <3>2
  <2> QED BY <2>2, <2>3, <2>4
<1> DEFINE Here == /\ NotAhead(body[t])' /\ Behind(floor[t])'
                   /\ (pc[t] = "recorded" /\ body[t].complete =>
                         body[t].responses < responses_total)'
<1>3. ASSUME body'[t] = body[t], floor'[t] = floor[t],
             pc'[t] = "recorded" => pc[t] = "recorded"
      PROVE  Here
  <2>1. body[t].responses \in Nat
    BY <1>1 DEF BodyType
  <2>2. (pc[t] = "recorded" /\ body[t].complete => body[t].responses < responses_total)'
    BY <1>1, <1>3, <2>1, CountersGrow
  <2> QED BY <1>2, <1>3, <2>2
<1>4. Here
  <2>1. CASE \/ Accept(t) \/ HangUp(t) \/ Refuse(t) \/ AskForMore(t) \/ ServePage(t)
             \/ CollectThrows(t) \/ QueueFails(t) \/ RecordRequest(t) \/ QueueResponse(t)
    <3>1. /\ body'[t] = body[t] /\ floor'[t] = floor[t]
          /\ pc'[t] = "recorded" => pc[t] = "recorded"
      BY <2>1 DEF Accept, HangUp, Refuse, AskForMore, ServePage, CollectThrows, QueueFails,
         RecordRequest, QueueResponse, Go, history, scrape
    <3> HIDE DEF Here
    <3> QED BY <1>3, <3>1
  <2>2. CASE CollectProcess(t)
    <3>1. body' = body /\ floor' = floor /\ pc' = pc
      BY <2>2, ReaderStep
    <3> HIDE DEF Here
    <3> QED BY <1>3, <3>1
  <2>3. CASE \E r \in Requests : Request(t, r)
    <3>1. /\ body'[t] = None /\ floor'[t] = answered /\ pc'[t] = "called"
          /\ UNCHANGED <<requests_total, responses_total, answered>>
      BY <2>3 DEF Request, Go, counters
    <3>2. Behind(floor[t])'
      BY <3>1 DEF NothingIsAhead, Behind
    <3>3. NotAhead(body[t])'
      BY <3>1 DEF None, NotAhead
    <3> QED BY <3>1, <3>2, <3>3
  <2>4. CASE RecordResponse(t)
    <3>1. /\ body'[t] = body[t] /\ floor'[t] = floor[t]
          /\ responses_total' = responses_total + 1
      BY <2>4 DEF RecordResponse, history, scrape
    <3>2. body[t].responses \in Nat /\ body[t].responses <= responses_total
      BY <1>1 DEF BodyType, NotAhead
    <3> QED BY <1>2, <3>1, <3>2
  <2>5. CASE CollectRequests(t) \/ CollectResponses(t) \/ CollectReturns(t)
    <3>1. /\ floor' = floor /\ pc'[t] # "recorded"
          /\ UNCHANGED <<requests_total, responses_total>>
      BY <2>5 DEF CollectRequests, CollectResponses, CollectReturns, Go, counters, history
    <3>2. /\ body'[t].requests \in {body[t].requests, requests_total}
          /\ body'[t].responses \in {body[t].responses, responses_total}
      BY <2>5 DEF CollectRequests, CollectResponses, CollectReturns, BodyType
    <3>3. NotAhead(body[t])'
      BY <1>1, <3>1, <3>2 DEF NotAhead
    <3> QED BY <1>2, <3>1, <3>3
  <2>6. ASSUME NEW m \in Methods, CollectSeries(t, m)
        PROVE  Here
    <3>1. /\ floor' = floor /\ pc'[t] # "recorded"
          /\ UNCHANGED <<requests_total, responses_total>>
      BY <2>6 DEF CollectSeries, counters, history
    <3>2. /\ body'[t].responses = body[t].responses
          /\ \A n \in Methods :
               body'[t].requests[n] \in {body[t].requests[n], requests_total[n]}
      BY <1>1, <2>6 DEF CollectSeries, BodyType
    <3>3. \A n \in Methods : requests_total[n] \in Nat
      OBVIOUS
    <3>4. NotAhead(body[t])'
      BY <1>1, <3>1, <3>2, <3>3 DEF NotAhead
    <3> QED BY <1>2, <3>1, <3>4
  <2> QED BY <2>1, <2>2, <2>3, <2>4, <2>5, <2>6 DEF Step, HandlerStep
<1>5. \A u \in Threads :
        /\ NotAhead(body[u])' /\ Behind(floor[u])'
        /\ (pc[u] = "recorded" /\ body[u].complete => body[u].responses < responses_total)'
  BY <1>2, <1>4, StepFrame
<1> QED BY <1>5, AnsweredStep DEF NothingIsAhead

\* A scrape is counted before it collects, and collects both counters after the
\* reply that it has to show was counted.
LEMMA OwnStep ==
  ASSUME Inv, NEW t \in Threads, Step(t)
  PROVE  OwnRequestShows'
<1> USE DEF Inv, TypeOK
<1> DEFINE Own(u) == 
      /\ pc[u] = "counted" => floor[u].requests[req[u].method] < requests_total[req[u].method]
      /\ pc[u] = "requests" =>
           /\ floor[u].requests["GET"] < requests_total["GET"]
           /\ \A m \in Methods \ left[u] : body[u].requests[m] >= floor[u].requests[m]
           /\ "GET" \notin left[u] => body[u].requests["GET"] > floor[u].requests["GET"]
      /\ pc[u] = "process" \/ body[u].complete =>
           /\ \A m \in Methods : body[u].requests[m] >= floor[u].requests[m]
           /\ body[u].requests["GET"] > floor[u].requests["GET"]
      /\ pc[u] = "process" \/ body[u].complete =>
           (floor[u].complete => body[u].responses > floor[u].responses)
<1>1. \A u \in Threads :
        /\ Own(u) /\ Behind(floor[u]) /\ req[u].method \in Methods
        /\ \A m \in Methods : body[u].requests[m] \in Nat /\ floor[u].requests[m] \in Nat
        /\ body[u].responses \in Nat /\ floor[u].responses \in Nat
  BY MicrohttpdAssumption DEF OwnRequestShows, NothingIsAhead, BodyType
<1>2. ASSUME NEW u \in Threads, body'[u] = body[u], left'[u] = left[u], floor'[u] = floor[u],
             pc'[u] = "counted" => pc[u] = "counted" /\ req'[u] = req[u],
             pc'[u] \in {"requests", "process"} => pc'[u] = pc[u]
      PROVE  Own(u)'
  <2>1. pc'[u] = "counted" =>
          floor'[u].requests[req'[u].method] < requests_total'[req'[u].method]
    <3> SUFFICES ASSUME pc'[u] = "counted"
                 PROVE  floor[u].requests[req[u].method] < requests_total'[req[u].method]
      BY <1>2
    <3>1. floor[u].requests[req[u].method] < requests_total[req[u].method]
      BY <1>1, <1>2
    <3> QED BY <1>1, <3>1, CountersGrow
  <2>2. pc'[u] = "requests" => floor'[u].requests["GET"] < requests_total'["GET"]
    <3> SUFFICES ASSUME pc'[u] = "requests"
                 PROVE  floor[u].requests["GET"] < requests_total'["GET"]
      BY <1>2
    <3>1. floor[u].requests["GET"] < requests_total["GET"] /\ "GET" \in Methods
      BY <1>1, <1>2, MicrohttpdAssumption
    <3> QED BY <1>1, <3>1, CountersGrow
  <2> QED BY <1>1, <1>2, <2>1, <2>2
<1>3. \A u \in Threads \ {t} : Own(u)'
  <2> HIDE DEF Own
  <2> QED BY <1>2, StepFrame
<1>4. Own(t)'
  <2>1. CASE \/ Accept(t) \/ HangUp(t) \/ Refuse(t) \/ AskForMore(t) \/ ServePage(t)
             \/ CollectThrows(t) \/ QueueFails(t) \/ RecordResponse(t) \/ QueueResponse(t)
    <3>1. /\ body'[t] = body[t] /\ left'[t] = left[t] /\ floor'[t] = floor[t]
          /\ pc'[t] = "counted" => pc[t] = "counted" /\ req'[t] = req[t]
          /\ pc'[t] \in {"requests", "process"} => pc'[t] = pc[t]
      BY <2>1 DEF Accept, HangUp, Refuse, AskForMore, ServePage, CollectThrows, QueueFails,
         RecordResponse, QueueResponse, Go, history, handler, scrape
    <3> HIDE DEF Own
    <3> QED BY <1>2, <3>1
  <2>2. CASE CollectProcess(t)
    <3>1. body' = body /\ left' = left /\ floor' = floor /\ pc' = pc /\ req' = req
      BY <2>2, ReaderStep
    <3> HIDE DEF Own
    <3> QED BY <1>2, <3>1
  <2>3. CASE \E r \in Requests : Request(t, r)
    <3>1. pc'[t] = "called" /\ ~body'[t].complete
      BY <2>3 DEF Request, Go, None
    <3> QED BY <3>1
  <2>4. CASE RecordRequest(t)
    <3>1. /\ pc'[t] = "counted" /\ UNCHANGED <<body, floor, req>>
          /\ requests_total'[req[t].method] = requests_total[req[t].method] + 1
          /\ ~body[t].complete
      BY <1>1, <2>4 DEF RecordRequest, Go, handler, history, scrape, CompleteIsOver
    <3>2. /\ floor[t].requests[req[t].method] <= requests_total[req[t].method]
          /\ requests_total[req[t].method] \in Nat
      BY <1>1 DEF Behind
    <3> QED BY <1>1, <3>1, <3>2
  <2>5. CASE CollectRequests(t)
    <3>1. /\ pc[t] = "counted" /\ req[t].method = "GET" /\ floor' = floor
          /\ pc'[t] = "requests" /\ ~body'[t].complete /\ left'[t] = Methods
          /\ requests_total' = requests_total
      BY <2>5 DEF CollectRequests, Go, Scrape, Wanted, counters, history, CompleteIsOver
    <3>2. floor[t].requests["GET"] < requests_total["GET"] /\ "GET" \in Methods
      BY <1>1, <3>1
    <3> QED BY <1>1, <3>1, <3>2
  <2>8. ASSUME NEW m \in Methods, CollectSeries(t, m)
        PROVE  Own(t)'
    <3>1. /\ pc[t] = "requests" /\ pc' = pc /\ floor' = floor
          /\ left'[t] = left[t] \ {m} /\ requests_total' = requests_total
      BY <2>8 DEF CollectSeries, counters, history
    <3>2. /\ ~body'[t].complete /\ body'[t].requests[m] = requests_total[m]
          /\ \A n \in Methods \ {m} : body'[t].requests[n] = body[t].requests[n]
      BY <1>1, <2>8, <3>1 DEF CollectSeries, BodyType, CompleteIsOver
    <3>3. /\ floor[t].requests["GET"] < requests_total["GET"]
          /\ \A n \in Methods \ left[t] : body[t].requests[n] >= floor[t].requests[n]
          /\ "GET" \notin left[t] => body[t].requests["GET"] > floor[t].requests["GET"]
      BY <1>1, <3>1
    <3>4. floor[t].requests[m] <= requests_total[m] /\ requests_total[m] \in Nat
      BY <1>1 DEF Behind
    <3>5. ASSUME NEW n \in Methods \ left'[t]
          PROVE  body'[t].requests[n] >= floor[t].requests[n]
      BY <1>1, <3>1, <3>2, <3>3, <3>4
    <3>6. "GET" \notin left'[t] => body'[t].requests["GET"] > floor[t].requests["GET"]
      <4>1. "GET" \in Methods /\ requests_total["GET"] \in Nat
        BY MicrohttpdAssumption
      <4> QED BY <1>1, <3>1, <3>2, <3>3, <4>1
    <3> QED BY <3>1, <3>2, <3>3, <3>5, <3>6
  <2>6. CASE CollectResponses(t)
    <3>1. /\ pc[t] = "requests" /\ left[t] = {} /\ floor' = floor /\ pc'[t] = "process"
          /\ body'[t].requests = body[t].requests /\ body'[t].responses = responses_total
      BY <2>6 DEF CollectResponses, Go, history, BodyType
    <3>2. floor[t].complete => floor[t].responses < responses_total
      BY <1>1 DEF Behind
    <3> QED BY <1>1, <3>1, <3>2
  <2>7. CASE CollectReturns(t)
    <3>1. /\ pc[t] = "process" /\ floor' = floor /\ pc'[t] = "response"
          /\ body'[t].requests = body[t].requests /\ body'[t].responses = body[t].responses
      BY <2>7 DEF CollectReturns, Go, history, BodyType
    <3> QED BY <1>1, <3>1
  <2> QED BY <2>1, <2>2, <2>3, <2>4, <2>5, <2>6, <2>7, <2>8 DEF Step, HandlerStep
<1>5. \A u \in Threads : Own(u)'
  <2> HIDE DEF Own
  <2> QED BY <1>3, <1>4
<1> QED BY <1>5 DEF OwnRequestShows

\* A thread that is about to open a file finds a descriptor for it, when there
\* are two for every connection.
LEMMA RoomToOpen ==
  ASSUME Inv, NEW t \in Threads, pc[t] = "process", at[t] \notin Holding, Roomy
  PROVE  open < process.limit
<1> USE DEF Inv, TypeOK
<1> DEFINE C == {u \in Threads : pc[u] # "closed"}
           F == {u \in Threads : at[u] \in Holding}
<1>1. IsFiniteSet(Threads) /\ C \subseteq Threads /\ F \subseteq Threads \ {t}
  BY MicrohttpdAssumption
<1>2. /\ Cardinality(Threads) \in Nat /\ Cardinality(C) \in Nat
      /\ Cardinality(C) <= Cardinality(Threads)
  BY <1>1, FS_Subset, FS_CardinalityType
<1>3. /\ Cardinality(F) \in Nat /\ Cardinality(F) <= Cardinality(Threads \ {t})
      /\ Cardinality(Threads \ {t}) = Cardinality(Threads) - 1
  BY <1>1, FS_Subset, FS_RemoveElement, FS_CardinalityType
<1>4. /\ open = Reserved + Cardinality(C) + Cardinality(F) /\ Reserved \in Nat
      /\ process.limit >= Reserved + 2 * Cardinality(Threads) /\ process.limit \in Nat
  BY ProcessExportsAssumption DEF DescriptorsAccounted, Roomy
<1> HIDE DEF C, F
<1> QED BY <1>2, <1>3, <1>4

\* What the readers of /proc leave behind them, for the thread that calls them.
LEMMA ReadStep ==
  ASSUME Inv, NEW t \in Threads, CollectProcess(t)
  PROVE  Roomy =>
           /\ at'[t] \in AfterStat => fields'[t].stat # Garbage
           /\ at'[t] \in AfterBtime => fields'[t].btime # Garbage
           /\ at'[t] = "collected" => fields'[t].max_open_files # Garbage
<1> USE DEF Inv, TypeOK, AfterStat, AfterBtime, Stages, Holding
<1>1. /\ at \in [Threads -> Stages] /\ fields[t] \in FieldsType
      /\ fields \in [Threads -> FieldsType] /\ pc[t] = "process"
      /\ Garbage \notin Nat /\ Garbage # "read"
      /\ process.limit \in Nat
  BY ProcessExportsAssumption DEF CollectProcess
<1>2. Roomy =>
        /\ at[t] \in AfterStat => fields[t].stat # Garbage
        /\ at[t] \in AfterBtime => fields[t].btime # Garbage
        /\ at[t] = "collected" => fields[t].max_open_files # Garbage
  BY DEF ReadersHaveRead
<1>3. at[t] \notin Holding /\ Roomy => open < process.limit
  BY <1>1, RoomToOpen
<1> HIDE DEF Inv, TypeOK
<1>5. ASSUME NEW now \in {"stat", "btime", "fd", "limits"}, NEW opened, NEW otherwise,
             OpenFile(t, now, opened, otherwise)
      PROVE  /\ fields' = fields /\ at[t] = now
             /\ at'[t] = opened \/ (at'[t] = otherwise /\ ~Roomy)
  BY <1>1, <1>3, <1>5 DEF OpenFile
<1>6. CASE OpenFile(t, "stat", "stat_open", "btime")
  <2>1. /\ fields' = fields /\ at[t] = "stat"
        /\ at'[t] = "stat_open" \/ (at'[t] = "btime" /\ ~Roomy)
    BY <1>5, <1>6
  <2> QED BY <1>2, <2>1
<1>7. CASE OpenFile(t, "btime", "btime_open", "fd")
  <2>1. /\ fields' = fields /\ at[t] = "btime"
        /\ at'[t] = "btime_open" \/ (at'[t] = "fd" /\ ~Roomy)
    BY <1>5, <1>7
  <2> QED BY <1>2, <2>1
<1>8. CASE OpenFile(t, "fd", "fd_open", "threw")
  <2>1. /\ fields' = fields /\ at[t] = "fd"
        /\ at'[t] = "fd_open" \/ (at'[t] = "threw" /\ ~Roomy)
    BY <1>5, <1>8
  <2> QED BY <1>2, <2>1
<1>9. CASE OpenFile(t, "limits", "limits_open", "collected")
  <2>1. /\ fields' = fields /\ at[t] = "limits"
        /\ at'[t] = "limits_open" \/ (at'[t] = "collected" /\ ~Roomy)
    BY <1>5, <1>9
  <2> QED BY <1>2, <2>1
<1>10. CASE ReadStat(t)
  <2>1. at'[t] = "btime" /\ (Roomy => fields'[t].stat = "read")
    BY <1>1, <1>10 DEF ReadStat, CloseFile, FieldsType, Roomy
  <2> QED BY <1>1, <2>1
<1>11. CASE ReadBtime(t)
  <2>1. /\ at[t] = "btime_open" /\ at'[t] = "fd" /\ fields'[t].btime = "read"
        /\ fields'[t].stat = fields[t].stat
    BY <1>1, <1>11 DEF ReadBtime, CloseFile, FieldsType
  <2> QED BY <1>1, <1>2, <2>1
<1>12. CASE ReadFd(t)
  <2>1. /\ at[t] = "fd_open" /\ at'[t] = "limits"
        /\ fields'[t].stat = fields[t].stat /\ fields'[t].btime = fields[t].btime
    BY <1>1, <1>12 DEF ReadFd, CloseFile, FieldsType
  <2> QED BY <1>1, <1>2, <2>1
<1>13. CASE ReadFdFails(t) \/ ReadBtimeThrows(t) \/ ReadLimitsThrows(t)
  BY <1>1, <1>13 DEF ReadFdFails, ReadBtimeThrows, ReadLimitsThrows, CloseFile
<1>14. CASE ReadLimits(t)
  <2>1. /\ at[t] = "limits_open" /\ at'[t] = "collected"
        /\ fields'[t].max_open_files = process.limit
        /\ fields'[t].stat = fields[t].stat /\ fields'[t].btime = fields[t].btime
    BY <1>1, <1>14 DEF ReadLimits, CloseFile, FieldsType
  <2> QED BY <1>1, <1>2, <2>1
<1> QED BY <1>6, <1>7, <1>8, <1>9, <1>10, <1>11, <1>12, <1>13, <1>14 DEF CollectProcess, PEStep

\* A complete exposition keeps what was read for it, for as long as it is there.
LEMMA ReadersStep ==
  ASSUME Inv, NEW t \in Threads, Step(t)
  PROVE  ReadersHaveRead'
<1> USE DEF Inv, TypeOK
<1> DEFINE Read(u) ==
      Roomy =>
        /\ at[u] \in AfterStat \/ body[u].complete => fields[u].stat # Garbage
        /\ at[u] \in AfterBtime \/ body[u].complete => fields[u].btime # Garbage
        /\ at[u] = "collected" \/ body[u].complete => fields[u].max_open_files # Garbage
<1>1. (\A u \in Threads : Read(u)) /\ process' = process /\ (Roomy' <=> Roomy)
  BY StepFrame DEF ReadersHaveRead, Roomy
<1>2. ASSUME NEW u \in Threads, fields'[u] = fields[u],
             at'[u] \in {at[u], "idle"}, body'[u].complete => body[u].complete
      PROVE  Read(u)'
  BY <1>1, <1>2 DEF AfterStat, AfterBtime
<1>3. \A u \in Threads \ {t} : Read(u)'
  <2> HIDE DEF Read
  <2> QED BY <1>2, StepFrame
<1>4. Read(t)'
  <2>1. CASE \/ Accept(t) \/ HangUp(t) \/ Refuse(t) \/ AskForMore(t) \/ ServePage(t)
             \/ CollectThrows(t) \/ QueueFails(t) \/ RecordRequest(t) \/ RecordResponse(t)
             \/ QueueResponse(t) \/ CollectRequests(t) \/ \E r \in Requests : Request(t, r)
             \/ \E m \in Methods : CollectSeries(t, m)
    <3>1. fields' = fields /\ at' = at
      BY <2>1 DEF Accept, HangUp, Refuse, AskForMore, ServePage, CollectThrows, QueueFails,
         RecordRequest, RecordResponse, QueueResponse, CollectRequests, CollectSeries,
         Request, peVars
    <3>2. body'[t].complete => body[t].complete
      <4>1. CASE \E m \in Methods : CollectSeries(t, m)
        BY <4>1 DEF CollectSeries, BodyType
      <4>2. CASE \E r \in Requests : Request(t, r)
        BY <4>2 DEF Request, None
      <4>3. CASE ~(\E m \in Methods : CollectSeries(t, m)) /\ ~\E r \in Requests : Request(t, r)
        BY <2>1, <4>3 DEF Accept, HangUp, Refuse, AskForMore, ServePage, CollectThrows,
           QueueFails, RecordRequest, RecordResponse, QueueResponse, CollectRequests, scrape
      <4> QED BY <4>1, <4>2, <4>3
    <3> HIDE DEF Read
    <3> QED BY <1>2, <3>1, <3>2
  <2>2. CASE CollectProcess(t)
    <3>1. body' = body /\ pc[t] = "process"
      BY <2>2, ReaderStep
    <3>2. ~body[t].complete
      BY <3>1 DEF CompleteIsOver
    <3> QED BY <1>1, <2>2, <3>1, <3>2, ReadStep
  <2>3. CASE CollectResponses(t)
    <3>1. at'[t] = "stat" /\ body'[t].complete = body[t].complete /\ pc[t] = "requests"
      BY <2>3 DEF CollectResponses, PECall, Go, BodyType
    <3>2. ~body[t].complete
      BY <3>1 DEF CompleteIsOver
    <3> QED BY <3>1, <3>2 DEF AfterStat, AfterBtime
  <2>4. CASE CollectReturns(t)
    <3>1. at[t] = "collected" /\ at'[t] = "idle" /\ fields' = fields
      BY <2>4 DEF CollectReturns
    <3> QED BY <1>1, <3>1 DEF AfterStat, AfterBtime
  <2> QED BY <2>1, <2>2, <2>3, <2>4 DEF Step, HandlerStep
<1>5. \A u \in Threads : Read(u)'
  <2> HIDE DEF Read
  <2> QED BY <1>3, <1>4
<1> QED BY <1>5 DEF ReadersHaveRead

-----------------------------------------------------------------------------
(* The inductive invariant *)

LEMMA InvInit ==
  Init => Inv
<1> SUFFICES ASSUME Init PROVE Inv
  OBVIOUS
<1> USE DEF Init, PEInit
<1>1. None \in BodyType /\ Uninitialised \in FieldsType
  BY DEF None, BodyType, Uninitialised, FieldsType
<1>2. /\ process \in Processes /\ process.limit \in Nat /\ process.limit >= Reserved
      /\ Reserved \in Nat
  BY ProcessExportsAssumption
<1>3. TypeOK
  BY <1>1, <1>2, MicrohttpdAssumption DEF TypeOK, Stages, Places
<1>4. ReadersAreCalled /\ CompleteIsOver /\ OwnRequestShows /\ ReadersHaveRead
  <2>1. \A t \in Threads : pc[t] = "closed" /\ at[t] = "idle" /\ ~body[t].complete
    BY DEF None
  <2>2. ReadersAreCalled /\ CompleteIsOver
    BY <2>1 DEF ReadersAreCalled, CompleteIsOver
  <2>3. OwnRequestShows
    BY <2>1 DEF OwnRequestShows
  <2>4. ReadersHaveRead
    BY <2>1 DEF ReadersHaveRead, AfterStat, AfterBtime
  <2> QED BY <2>2, <2>3, <2>4
<1>5. DescriptorsAccounted
  <2>1. /\ {t \in Threads : pc[t] # "closed"} = {}
        /\ {t \in Threads : at[t] \in Holding} = {}
    BY DEF Holding
  <2>2. Cardinality({}) = 0
    BY FS_EmptySet
  <2>3. open = Reserved /\ open <= process.limit
    BY <1>2
  <2>4. Reserved = Reserved + 0 + 0
    BY <1>2
  <2> QED BY <2>1, <2>2, <2>3, <2>4, Zenon DEF DescriptorsAccounted
<1>6. ResponsesWithinRequests
  <2>1. {t \in Threads : pc[t] \in {"counted", "requests", "process", "response"}} = {}
    OBVIOUS
  <2>2. SumFunction(requests_total) = 0
    <3>1. /\ requests_total \in [Methods -> Int] /\ \A m \in Methods : requests_total[m] = 0
          /\ IsFiniteSet(Methods)
      BY MicrohttpdAssumption
    <3> QED BY <3>1, SumFunctionZero
  <2> QED BY <2>1, <2>2, FS_EmptySet DEF ResponsesWithinRequests
<1>7. NothingIsAhead
  BY DEF NothingIsAhead, NotAhead, Behind, None
<1> QED BY <1>3, <1>4, <1>5, <1>6, <1>7 DEF Inv

LEMMA InvStep ==
  Inv /\ [Next]_vars => Inv'
<1> SUFFICES ASSUME Inv, [Next]_vars PROVE Inv'
  OBVIOUS
<1>1. ASSUME NEW t \in Threads, Step(t)
      PROVE  Inv'
  BY <1>1, TypeStep, PhasesStep, DescriptorsStep, ResponsesStep, AheadStep, OwnStep,
     ReadersStep DEF Inv
<1>2. CASE UNCHANGED vars
  BY <1>2 DEF vars, peVars, Inv, TypeOK, ReadersAreCalled, CompleteIsOver,
     DescriptorsAccounted, ResponsesWithinRequests, NothingIsAhead, NotAhead, Behind,
     OwnRequestShows, ReadersHaveRead, Roomy
<1> QED BY <1>1, <1>2 DEF Next, Step

LEMMA InvHolds ==
  Spec => []Inv
BY InvInit, InvStep, PTL DEF Spec

-----------------------------------------------------------------------------
(* Theorems *)

\* Every variable keeps its type.
THEOREM TypeCorrect ==
  Spec => []TypeOK
<1>1. Inv => TypeOK
  BY DEF Inv
<1> QED BY <1>1, InvHolds, PTL

\* However many connections there are and however their handlers end, every
\* open descriptor is accounted for, and none is opened over the limit.
THEOREM DescriptorsAreAccounted ==
  Spec => []DescriptorsAccounted
<1>1. Inv => DescriptorsAccounted
  BY DEF Inv
<1> QED BY <1>1, InvHolds, PTL

\* A response is never counted before a request of its own.
THEOREM ResponsesNeverOutnumber ==
  Spec => []ResponsesWithinRequests
<1>1. Inv => ResponsesWithinRequests
  BY DEF Inv
<1> QED BY <1>1, InvHolds, PTL

\* A complete exposition counts its own request and all that was shown before
\* its request came.
THEOREM ScrapesAreMonotonic ==
  Spec => []ScrapesSeeEarlierOnes
<1>1. Inv => ScrapesSeeEarlierOnes
  BY DEF Inv, OwnRequestShows, ScrapesSeeEarlierOnes
<1> QED BY <1>1, InvHolds, PTL

\* The gauges of a complete exposition were all read, if there are two
\* descriptors for every connection and no space in the program's name.
THEOREM GaugesAreRead ==
  Spec => []GaugesAreReal
<1>1. Inv => GaugesAreReal
  BY DEF Inv, ReadersHaveRead, GaugesAreReal, Roomy
<1> QED BY <1>1, InvHolds, PTL
=============================================================================
