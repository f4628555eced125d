----------------------------- MODULE Microhttpd -----------------------------
(***************************************************************************)
(* A server that exposes its metrics (src/integrations/gnu_libmicrohttpd): *)
(* the access handler of example.c, called by libmicrohttpd in a thread    *)
(* per connection, the counters that prometheus_microhttpd.cc keeps around *)
(* it, and the scrape it answers /metrics with.  global_registry holds     *)
(* global_collector, which collects requests_total before responses_total, *)
(* and then the process collector.  No collector registers while the       *)
(* server runs, so the registry's lock stops nobody (module Registry).  A  *)
(* labels().inc() is one step (modules LabeledMetric, ScalarValue); it may *)
(* fall between two series that a scrape reads, as the map's mutex covers  *)
(* labels() only: a few more interleavings than the mutex lets through.    *)
(***************************************************************************)
EXTENDS ProcessExports, FiniteSets, FiniteSetsExt, Functions

CONSTANTS
  Methods,        \* the values of the label `method`, "GET" among them
  Requests,       \* [method, url, upload] of the requests that clients send
  MaxRequests     \* bound on the number of requests

ASSUME MicrohttpdAssumption ==
  /\ IsFiniteSet(Threads) /\ IsFiniteSet(Methods)
  /\ "GET" \in Methods /\ MaxRequests \in Nat
  /\ Requests \subseteq [method : Methods, url : {"/metrics", "/"}, upload : BOOLEAN]

VARIABLES
  alive,            \* FALSE after std::terminate
  pc,               \* pc[t]: where the connection of t is
  req,              \* req[t]: its request
  ptr,              \* ptr[t]: *ptr = &dummy, the headers have been seen
  upload,           \* upload[t]: *upload_data_size # 0 in the call under way
  requests_total,   \* by method
  responses_total,  \* all have the status 200
  body,             \* body[t]: the exposition t collects
  left,             \* left[t]: the series of requests_total it has yet to read
  made,             \* number of requests so far
  answered,         \* the greatest exposition that has been sent (history)
  floor             \* floor[t]: `answered` when t's request arrived (history)

vars == <<peVars, alive, pc, req, ptr, upload, requests_total, responses_total,
          body, left, made, answered, floor>>

None == [requests |-> [m \in Methods |-> 0], responses |-> 0, complete |-> FALSE]

Init ==
  /\ PEInit
  /\ alive = TRUE
  /\ pc = [t \in Threads |-> "closed"]
  /\ req \in [Threads -> {r \in Requests : r = CHOOSE q \in Requests : TRUE}]
  /\ ptr = [t \in Threads |-> FALSE]
  /\ upload = [t \in Threads |-> FALSE]
  /\ requests_total = [m \in Methods |-> 0]
  /\ responses_total = 0
  /\ body = [t \in Threads |-> None]
  /\ left = [t \in Threads |-> {}]
  /\ made = 0
  /\ answered = None
  /\ floor = [t \in Threads |-> None]

Go(t, from, to) == alive /\ pc[t] = from /\ pc' = [pc EXCEPT ![t] = to]

counters == <<requests_total, responses_total>>
scrape == <<body, left>>
history == <<made, answered, floor>>
handler == <<req, ptr, upload>>

-----------------------------------------------------------------------------
(* libmicrohttpd *)

Accept(t) ==
  /\ Go(t, "closed", "idle")
  /\ open < process.limit
  /\ open' = open + 1
  /\ UNCHANGED <<process, at, fields, alive, handler, counters, scrape, history>>

HangUp(t) ==
  /\ Go(t, "idle", "closed")
  /\ open' = open - 1
  /\ UNCHANGED <<process, at, fields, alive, handler, counters, scrape, history>>

\* The first call of the access handler has the headers only.
Request(t, r) ==
  /\ made < MaxRequests
  /\ Go(t, "idle", "called")
  /\ req' = [req EXCEPT ![t] = r]
  /\ ptr' = [ptr EXCEPT ![t] = FALSE]
  /\ upload' = [upload EXCEPT ![t] = FALSE]
  /\ body' = [body EXCEPT ![t] = None]
  /\ made' = made + 1
  /\ floor' = [floor EXCEPT ![t] = answered]
  /\ UNCHANGED <<peVars, alive, counters, left, answered>>

-----------------------------------------------------------------------------
(* ahc_echo *)

\* record_stats_before_access_handler
RecordRequest_PagesOnly(t) ==                   \* mutant: scrapes not counted
  /\ Go(t, "called", "counted")
  /\ requests_total' = IF req[t].url = "/metrics" THEN requests_total
                       ELSE [requests_total EXCEPT ![req[t].method] = @ + 1]
  /\ UNCHANGED <<peVars, alive, handler, responses_total, scrape, history>>

RecordRequest(t) ==
  /\ Go(t, "called", "counted")
  /\ requests_total' = [requests_total EXCEPT ![req[t].method] = @ + 1]
  /\ UNCHANGED <<peVars, alive, handler, responses_total, scrape, history>>

Wanted(t) == req[t].method = "GET"
Scrape(t) == Wanted(t) /\ req[t].url = "/metrics"
Page(t) == Wanted(t) /\ req[t].url # "/metrics"

\* MHD_NO: libmicrohttpd closes the connection.
Refuse(t) ==
  /\ Go(t, "counted", "closed")
  /\ Wanted(t) => Page(t) /\ ptr[t] /\ upload[t]
  /\ open' = open - 1
  /\ UNCHANGED <<process, at, fields, alive, handler, counters, scrape, history>>

\* MHD_YES to the headers: libmicrohttpd calls again, with the body if any.
AskForMore(t) ==
  /\ Go(t, "counted", "called")
  /\ Page(t) /\ ~ptr[t]
  /\ ptr' = [ptr EXCEPT ![t] = TRUE]
  /\ upload' = [upload EXCEPT ![t] = req[t].upload]
  /\ UNCHANGED <<peVars, alive, req, counters, scrape, history>>

ServePage(t) ==
  /\ Go(t, "counted", "response")
  /\ Page(t) /\ ptr[t] /\ ~upload[t]
  /\ ptr' = [ptr EXCEPT ![t] = FALSE]
  /\ UNCHANGED <<peVars, alive, req, upload, counters, scrape, history>>

\* handle_metrics: global_registry.collect(), collector by collector.
CollectRequests(t) ==
  /\ Go(t, "counted", "requests")
  /\ Scrape(t)
  /\ left' = [left EXCEPT ![t] = Methods]
  /\ UNCHANGED <<peVars, alive, handler, counters, body, history>>

\* LabeledMetric::collect, series by series, in the order of the map.
CollectSeries(t, m) ==
  /\ alive /\ pc[t] = "requests" /\ m \in left[t]
  /\ left' = [left EXCEPT ![t] = @ \ {m}]
  /\ body' = [body EXCEPT ![t].requests[m] = requests_total[m]]
  /\ UNCHANGED <<peVars, alive, pc, handler, counters, history>>

CollectResponses(t) ==
  /\ left[t] = {}
  /\ Go(t, "requests", "process")
  /\ PECall(t)
  /\ body' = [body EXCEPT ![t].responses = responses_total]
  /\ UNCHANGED <<process, open, alive, handler, counters, left, history>>

CollectProcess(t) ==
  /\ alive /\ pc[t] = "process"
  /\ PEStep(t)
  /\ UNCHANGED <<alive, pc, handler, counters, scrape, history>>

CollectReturns(t) ==
  /\ at[t] = "collected"
  /\ Go(t, "process", "response")
  /\ at' = [at EXCEPT ![t] = "idle"]
  /\ body' = [body EXCEPT ![t].complete = TRUE]
  /\ UNCHANGED <<process, open, fields, alive, handler, counters, left, history>>

\* Neither OpenDirException nor what std::stoi throws is a CollectionException:
\* it leaves collect() and handle_metrics, and no caller, libmicrohttpd
\* included, catches it.
CollectThrows(t) ==
  /\ alive /\ pc[t] = "process" /\ at[t] = "threw"
  /\ alive' = FALSE
  /\ UNCHANGED <<peVars, pc, handler, counters, scrape, history>>

\* record_stats_before_queue_response
RecordResponse_PagesOnly(t) ==                  \* mutant: scrapes not counted
  /\ Go(t, "response", "recorded")
  /\ responses_total' = responses_total + IF Scrape(t) THEN 0 ELSE 1
  /\ UNCHANGED <<peVars, alive, handler, requests_total, scrape, history>>

RecordResponse(t) ==
  /\ Go(t, "response", "recorded")
  /\ responses_total' = responses_total + 1
  /\ UNCHANGED <<peVars, alive, handler, requests_total, scrape, history>>

Greatest(x, y) ==
  [requests |-> [m \in Methods |-> Max({x.requests[m], y.requests[m]})],
   responses |-> Max({x.responses, y.responses}), complete |-> TRUE]

QueueResponse(t) ==
  /\ Go(t, "recorded", "idle")
  /\ answered' = IF body[t].complete THEN Greatest(body[t], answered) ELSE answered
  /\ UNCHANGED <<peVars, alive, handler, counters, scrape, made, floor>>

\* No memory for the response, or MHD_queue_response fails: MHD_NO.
QueueFails(t) ==
  /\ Go(t, "recorded", "closed")
  /\ open' = open - 1
  /\ UNCHANGED <<process, at, fields, alive, handler, counters, scrape, history>>

HandlerStep(t) ==
  \/ RecordRequest(t) \/ Refuse(t) \/ AskForMore(t) \/ ServePage(t)
  \/ CollectRequests(t) \/ \E m \in Methods : CollectSeries(t, m)
  \/ CollectResponses(t) \/ CollectProcess(t)
  \/ CollectReturns(t) \/ CollectThrows(t)
  \/ RecordResponse(t) \/ QueueResponse(t) \/ QueueFails(t)

Next == \E t \in Threads :
  \/ Accept(t) \/ HangUp(t)
  \/ \E r \in Requests : Request(t, r)
  \/ HandlerStep(t)

Spec == Init /\ [][Next]_vars

\* Every thread of libmicrohttpd goes on running its handler.
FairSpec == Spec /\ \A t \in Threads : WF_vars(HandlerStep(t))

-----------------------------------------------------------------------------
(* Properties *)

BodyType == [requests : [Methods -> Nat], responses : Nat, complete : BOOLEAN]
Places == {"closed", "idle", "called", "counted", "requests", "process",
           "response", "recorded"}

\* Every variable keeps its type.
TypeOK ==
  /\ process \in Processes /\ open \in Nat
  /\ at \in [Threads -> Stages] /\ fields \in [Threads -> FieldsType]
  /\ alive \in BOOLEAN /\ pc \in [Threads -> Places]
  /\ req \in [Threads -> Requests]
  /\ ptr \in [Threads -> BOOLEAN] /\ upload \in [Threads -> BOOLEAN]
  /\ requests_total \in [Methods -> Nat] /\ responses_total \in Nat
  /\ body \in [Threads -> BodyType] /\ floor \in [Threads -> BodyType]
  /\ left \in [Threads -> SUBSET Methods]
  /\ answered \in BodyType /\ made \in 0..MaxRequests

\* No path through the handler or the four readers of /proc, the exceptions and
\* the refused requests included, loses a descriptor or closes one twice.
DescriptorsAccounted ==
  /\ open = Reserved + Cardinality({t \in Threads : pc[t] # "closed"})
                     + Cardinality({t \in Threads : at[t] \in Holding})
  /\ open <= process.limit

\* Responses never outnumber requests, and the difference is at least the
\* number of handler calls that are under way (example.c:26, 47).
ResponsesWithinRequests ==
  responses_total + Cardinality({t \in Threads :
        pc[t] \in {"counted", "requests", "process", "response"}})
    <= SumFunction(requests_total)

\* A scrape counts its own request and everything that an earlier scrape, whose
\* reply had been sent when this one arrived, has shown, that reply included:
\* both counters have grown (prometheus_microhttpd.cc:67, 76; registry.cc:42).
ScrapesSeeEarlierOnes ==
  \A t \in Threads : body[t].complete =>
    /\ \A m \in Methods : body[t].requests[m] >= floor[t].requests[m]
    /\ body[t].requests["GET"] > floor[t].requests["GET"]
    /\ floor[t].complete => body[t].responses > floor[t].responses

\* With two descriptors for every connection, its own and one for a scrape on
\* it, no gauge is read from a member that was never set, whatever the other
\* connections open and close between the four readers, unless the program's
\* name has a space (standard_exports.cc:18-92).
GaugesAreReal ==
  process.limit >= Reserved + 2 * Cardinality(Threads) /\ ~process.spaced =>
    \A t \in Threads : body[t].complete =>
      Garbage \notin {fields[t].stat, fields[t].btime, fields[t].max_open_files}

\* Every request ends with a reply, a closed connection, or the process.
RequestsEnd ==
  \A t \in Threads : pc[t] = "called" ~> pc[t] \in {"idle", "closed"} \/ ~alive
=============================================================================
