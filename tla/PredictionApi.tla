---------------------------- MODULE PredictionApi ----------------------------
(***************************************************************************)
(* The FastAPI serving process (api/app.py, api/service.py, api/safety.py, *)
(* monitoring/telemetry.py) reading the JSON snapshot that other processes *)
(* rewrite (SnapshotFile).                                                 *)
(*                                                                         *)
(* One event loop serves every request.  Requests interleave at the awaits *)
(* of the two middlewares; the endpoint functions contain no await, so one *)
(* runs from its first line to its return before another starts (busy),    *)
(* while other processes move between any two of its file accesses.  A     *)
(* step of an endpoint is therefore one file access and the code up to the *)
(* next one.                                                               *)
(***************************************************************************)
EXTENDS SnapshotFile, Sequences

CONSTANTS
  Requests,      \* requests clients may send, each at most once
  Nobody,        \* busy: no endpoint function is under way
  FreshAges,     \* the ages within max_feature_freshness_seconds
  RejectStale,   \* FEATURE_STORE_REJECT_STALE_FEATURES
  KeyRequired,   \* an API key is configured
  MaxLives       \* bound: how often the process is started

ASSUME ApiAssumption ==
  /\ Nobody \notin Requests
  /\ FreshAges \subseteq Ages
  /\ RejectStale \in BOOLEAN
  /\ KeyRequired \in BOOLEAN
  /\ MaxLives \in Nat
  /\ IsFiniteSet(Requests)

VARIABLES
  up,       \* the process runs
  life,     \* how often it was started
  context,  \* what load_serving_context found at start-up
  metrics,  \* ApiMetrics: request_count, prediction_count, error_count
  counter,  \* PredictionTelemetryLogger.request_counter
  log,      \* prediction_logs.jsonl
  req,      \* the requests
  busy      \* the request whose endpoint function is under way

apiVars == <<up, life, context, metrics, counter, log, req, busy>>
vars == <<snapshot, apiVars>>

Kinds == {"predict", "features", "health", "model", "metrics"}

(* The error_type of a telemetry row, "none" for status "success". *)
Outcomes ==
  {"none", "not_ready", "unknown_zone", "feature_error", "serving_error", "stale_feature"}

(* Mutant of StatusOf: a status /predict does not document. *)
StatusOfWithGatewayError ==
  [o \in Outcomes |-> IF o = "serving_error" THEN 502 ELSE 200]

(* The response each logged outcome of /predict is turned into. *)
StatusOf ==
  [o \in Outcomes |->
     CASE o = "none" -> 200
       [] o \in {"not_ready", "serving_error"} -> 503
       [] o = "unknown_zone" -> 404
       [] o = "stale_feature" -> 409
       [] o = "feature_error" -> 500]

(* "sent" has passed both middlewares' first halves; "reading", "health" and
   "logging" are inside an endpoint function; "handled" has a response or an
   exception on its way out through metrics_middleware. *)
Phases == {"new", "sent", "reading", "health", "logging", "handled", "done", "rejected", "lost"}

Statuses == {0, 200, 400, 401, 403, 404, 409, 413, 422, 500, 503}

(* outcome "raised": the endpoint function ended with an exception other than
   HTTPException; seen: the readiness /health reported as status and ready;
   served: the row a prediction was computed from. *)
RequestState ==
  [phase : Phases, kind : Kinds, zone : Zones, life : Nat, id : Nat,
   outcome : Outcomes \cup {"pending", "raised"}, status : Statuses,
   seen : Seq(BOOLEAN), served : Ages \cup {NoRow}]

NewRequest(kind, zone) ==
  [phase |-> "new", kind |-> kind, zone |-> zone, life |-> 0, id |-> 0,
   outcome |-> "pending", status |-> 0, seen |-> << >>, served |-> NoRow]

LogRow == [id : Nat, zone : Zones, outcome : Outcomes, life : Nat, by : Requests]

ZeroMetrics == [requests |-> 0, predictions |-> 0, errors |-> 0]

ApiTypeOK ==
  /\ up \in BOOLEAN
  /\ life \in Nat
  /\ context \in [model : BOOLEAN, store : BOOLEAN, errors : BOOLEAN]
  /\ metrics \in [requests : Nat, predictions : Nat, errors : Nat]
  /\ counter \in Nat
  /\ log \in Seq(LogRow)
  /\ req \in [Requests -> RequestState]
  /\ busy \in Requests \cup {Nobody}

ApiInit ==
  /\ up = FALSE
  /\ life = 0
  /\ context = [model |-> FALSE, store |-> FALSE, errors |-> TRUE]
  /\ metrics = ZeroMetrics
  /\ counter = 0
  /\ log = << >>
  /\ req \in [Requests -> {NewRequest(k, z) : k \in Kinds, z \in Zones}]
  /\ busy = Nobody

-----------------------------------------------------------------------------
(* Start-up and crash *)

(* load_serving_context: model and manifests are files of other commands and
   may be missing or unusable; the store is kept only when its snapshot
   parses.  Counters and the logger's request_counter start from zero, the
   log file is the one already there. *)
Start ==
  /\ ~up
  /\ life < MaxLives
  /\ \E model, contract \in BOOLEAN :
       context' = [model |-> model, store |-> Readable,
                   errors |-> ~(model /\ contract /\ Readable)]
  /\ up' = TRUE
  /\ life' = life + 1
  /\ metrics' = ZeroMetrics
  /\ counter' = 0
  /\ UNCHANGED <<snapshot, log, req, busy>>

InFlight(r) == req[r].phase \in {"sent", "reading", "health", "logging", "handled"}

(* The process dies: every request under way loses its connection. *)
Crash ==
  /\ up
  /\ up' = FALSE
  /\ req' = [r \in Requests |-> IF InFlight(r) THEN [req[r] EXCEPT !.phase = "lost"] ELSE req[r]]
  /\ busy' = Nobody
  /\ UNCHANGED <<snapshot, life, context, metrics, counter, log>>

-----------------------------------------------------------------------------
(* Middlewares *)

(* safety_middleware is registered last, hence outermost: what it refuses
   never reaches metrics_middleware.  Only /predict has a body, /health is
   exempt from the key. *)
Refusals(kind) ==
  (IF kind = "predict" THEN {400, 413} ELSE {})
    \cup (IF KeyRequired /\ kind # "health" THEN {401, 403} ELSE {})

Reject(r) ==
  /\ up
  /\ req[r].phase = "new"
  /\ \E status \in Refusals(req[r].kind) :
       req' = [req EXCEPT ![r].phase = "rejected", ![r].status = status, ![r].life = life]
  /\ UNCHANGED <<snapshot, up, life, context, metrics, counter, log, busy>>

(* metrics_middleware before call_next. *)
Accept(r) ==
  /\ up
  /\ req[r].phase = "new"
  /\ req' = [req EXCEPT ![r].phase = "sent", ![r].life = life]
  /\ metrics' = [metrics EXCEPT !.requests = @ + 1]
  /\ UNCHANGED <<snapshot, up, life, context, counter, log, busy>>

IsError(r) == req[r].outcome = "raised" \/ req[r].status >= 400

(* Mutant of Respond: only exceptions count as errors. *)
RespondCountsExceptions(r) ==
  /\ up
  /\ req[r].phase = "handled"
  /\ req' = [req EXCEPT ![r].phase = "done"]
  /\ metrics' = IF req[r].outcome = "raised" THEN [metrics EXCEPT !.errors = @ + 1] ELSE metrics
  /\ UNCHANGED <<snapshot, up, life, context, counter, log, busy>>

(* metrics_middleware after call_next: a response of 400 or more, or an
   exception, is an error. *)
Respond(r) ==
  /\ up
  /\ req[r].phase = "handled"
  /\ req' = [req EXCEPT ![r].phase = "done"]
  /\ metrics' = IF IsError(r)
                THEN [metrics EXCEPT !.errors = @ + 1]
                ELSE metrics
  /\ UNCHANGED <<snapshot, up, life, context, counter, log, busy>>

-----------------------------------------------------------------------------
(* Endpoint functions *)

(* Fields every endpoint function sets when it ends. *)
Return(r, status) == [req[r] EXCEPT !.phase = "handled", !.status = status]
Raise(r) == [req[r] EXCEPT !.phase = "handled", !.status = 500, !.outcome = "raised"]

(* Mutant of Dispatch: an endpoint function with an await in it. *)
DispatchAnyTime(r, kind) ==
  /\ up
  /\ req[r].phase = "sent"
  /\ req[r].kind = kind

(* The event loop picks the request's endpoint function. *)
Dispatch(r, kind) ==
  /\ up
  /\ busy = Nobody
  /\ req[r].phase = "sent"
  /\ req[r].kind = kind

(* Mutant of ReadRaises: all_rows takes an unreadable file for an empty one. *)
TornReadsAsEmpty == FALSE

(* all_rows: json.loads of a torn file raises ValueError, an absent file reads
   as no rows. *)
ReadRaises == snapshot = Torn

RowOf(zone) == IF Readable THEN snapshot[zone] ELSE NoRow

(* Whether predict goes on to the model with this row. *)
Acceptable(row) == row # NoRow /\ (RejectStale => row \in FreshAges)

(* ServingContext.is_ready reads the file only when everything loaded at
   start-up is there. *)
Loaded == context.model /\ context.store /\ ~context.errors
IsReady == Loaded /\ Readable
IsReadyRaises == Loaded /\ ReadRaises

(* FastAPI's validation of the body answers 422 before predict runs. *)
Invalid(r) ==
  /\ Dispatch(r, "predict")
  /\ req' = [req EXCEPT ![r] = Return(r, 422)]
  /\ UNCHANGED <<snapshot, up, life, context, metrics, counter, log, busy>>

(* Mutant of Predict: a request that finds the service not ready is answered
   without a telemetry row. *)
PredictNotReadyUnlogged(r) ==
  /\ Dispatch(r, "predict")
  /\ counter' = counter + 1
  /\ req' = [req EXCEPT ![r] =
               IF IsReady THEN [@ EXCEPT !.id = counter + 1, !.phase = "reading"]
               ELSE [Return(r, 503) EXCEPT !.id = counter + 1]]
  /\ busy' = IF IsReady THEN r ELSE Nobody
  /\ UNCHANGED <<snapshot, up, life, context, metrics, log>>

(* predict up to the readiness check: a request id is taken, then is_ready
   reads the snapshot, outside any try block. *)
Predict(r) ==
  /\ Dispatch(r, "predict")
  /\ counter' = counter + 1
  /\ LET started == [req[r] EXCEPT !.id = counter + 1]
     IN  IF IsReadyRaises
         THEN /\ req' = [req EXCEPT ![r] = [started EXCEPT !.phase = "handled", !.status = 500,
                                                           !.outcome = "raised"]]
              /\ busy' = Nobody
         ELSE /\ req' = [req EXCEPT ![r] =
                           IF IsReady THEN [started EXCEPT !.phase = "reading"]
                           ELSE [started EXCEPT !.phase = "logging", !.outcome = "not_ready"]]
              /\ busy' = r
  /\ UNCHANGED <<snapshot, up, life, context, metrics, log>>

(* get_feature_row reads the snapshot a second time; what follows up to the
   telemetry append is in memory.  model.predict may raise
   ValueError or RuntimeError.  A prediction is counted before its row is
   logged. *)
ReadFeatures(r) ==
  LET row == RowOf(req[r].zone)
      Fail(outcome) ==
        /\ req' = [req EXCEPT ![r].phase = "logging", ![r].outcome = outcome]
        /\ UNCHANGED metrics
  IN
  /\ req[r].phase = "reading"
  /\ \/ ReadRaises /\ Fail("feature_error")
     \/ ~ReadRaises /\ row = NoRow /\ Fail("unknown_zone")
     \/ row # NoRow /\ ~Acceptable(row) /\ Fail("stale_feature")
     \/ /\ Acceptable(row)
        /\ \/ Fail("feature_error")
           \/ Fail("serving_error")
           \/ /\ req' = [req EXCEPT ![r].phase = "logging", ![r].outcome = "none", ![r].served = row]
              /\ metrics' = [metrics EXCEPT !.predictions = @ + 1]
  /\ UNCHANGED <<snapshot, up, life, context, counter, log, busy>>

(* An exception no except clause of predict names leaves it between the two
   reads and the append: an unreadable file system, a malformed timestamp, a
   model that raises something else.  The request id stays taken. *)
PredictRaises(r) ==
  /\ req[r].phase = "reading"
  /\ req' = [req EXCEPT ![r] = Raise(r)]
  /\ busy' = Nobody
  /\ UNCHANGED <<snapshot, up, life, context, metrics, counter, log>>

(* Mutant of LogRequest: the endpoint function never gives the loop back. *)
LogRequestKeepsBusy(r) ==
  /\ req[r].phase = "logging"
  /\ req' = [req EXCEPT ![r] = Return(r, StatusOf[req[r].outcome])]
  /\ UNCHANGED <<snapshot, up, life, context, metrics, counter, log, busy>>

(* log_success or log_error, then the response or the HTTPException. *)
LogRequest(r) ==
  /\ req[r].phase = "logging"
  /\ log' = Append(log, [id |-> req[r].id, zone |-> req[r].zone, outcome |-> req[r].outcome,
                         life |-> life, by |-> r])
  /\ req' = [req EXCEPT ![r] = Return(r, StatusOf[req[r].outcome])]
  /\ busy' = Nobody
  /\ UNCHANGED <<snapshot, up, life, context, metrics, counter>>

(* The append fails (no space, no permission): OSError leaves predict. *)
LogFails(r) ==
  /\ req[r].phase = "logging"
  /\ req' = [req EXCEPT ![r] = Raise(r)]
  /\ busy' = Nobody
  /\ UNCHANGED <<snapshot, up, life, context, metrics, counter, log>>

(* features: 503 without a store, 500 on an unreadable file, 404 without a
   row. *)
Features(r) ==
  /\ Dispatch(r, "features")
  /\ LET status == IF ~context.store THEN 503
                   ELSE IF ReadRaises THEN 500
                   ELSE IF RowOf(req[r].zone) = NoRow THEN 404
                   ELSE 200
     IN  req' = [req EXCEPT ![r] = Return(r, status)]
  /\ UNCHANGED <<snapshot, up, life, context, metrics, counter, log, busy>>

(* health evaluates is_ready twice, for status and for ready. *)
ReadinessRead(r) ==
  IF IsReadyRaises THEN Raise(r)
  ELSE LET seen == Append(req[r].seen, IsReady)
       IN  IF Len(seen) = 2
           THEN [Return(r, 200) EXCEPT !.seen = seen]
           ELSE [req[r] EXCEPT !.phase = "health", !.seen = seen]

Health(r) ==
  /\ \/ Dispatch(r, "health")
     \/ req[r].phase = "health"
  /\ req' = [req EXCEPT ![r] = ReadinessRead(r)]
  /\ busy' = IF req'[r].phase = "health" THEN r ELSE Nobody
  /\ UNCHANGED <<snapshot, up, life, context, metrics, counter, log>>

(* model: 503 when no model was loaded. *)
Model(r) ==
  /\ Dispatch(r, "model")
  /\ req' = [req EXCEPT ![r] = Return(r, IF context.model THEN 200 ELSE 503)]
  /\ UNCHANGED <<snapshot, up, life, context, metrics, counter, log, busy>>

(* metrics: the counters as they stand. *)
MetricsEndpoint(r) ==
  /\ Dispatch(r, "metrics")
  /\ req' = [req EXCEPT ![r] = Return(r, 200)]
  /\ UNCHANGED <<snapshot, up, life, context, metrics, counter, log, busy>>

-----------------------------------------------------------------------------
Endpoint(r) ==
  \/ Invalid(r)
  \/ Predict(r)
  \/ ReadFeatures(r)
  \/ LogRequest(r)
  \/ LogFails(r)
  \/ PredictRaises(r)
  \/ Features(r)
  \/ Health(r)
  \/ Model(r)
  \/ MetricsEndpoint(r)

ApiNext ==
  \/ Start
  \/ Crash
  \/ \E r \in Requests : Reject(r) \/ Accept(r) \/ Respond(r) \/ Endpoint(r)

Init == FileInit /\ ApiInit
Next == ApiNext \/ (FileNext /\ UNCHANGED apiVars)

(* The event loop runs whatever is ready: an accepted request's endpoint
   function and the second half of its middleware. *)
Fairness == \A r \in Requests : WF_vars(Endpoint(r)) /\ WF_vars(Respond(r))

Spec == Init /\ [][Next]_vars /\ Fairness

-----------------------------------------------------------------------------
(* Properties *)

Accepted(r) == req[r].life = life /\ req[r].phase \notin {"new", "rejected"}

(* The three counters of GET /metrics, read at any moment, account for every
   request this process let through its safety middleware: all of them, the
   failed ones whose answer has left, and the ones the model was run for.
   Refused requests (400, 401, 403, 413) are in none of them; a prediction
   whose telemetry row could not be written is in all three. *)
MetricsAddUp ==
  up =>
    /\ metrics.requests = Cardinality({r \in Requests : Accepted(r)})
    /\ metrics.errors =
         Cardinality({r \in Requests : Accepted(r) /\ req[r].phase = "done" /\ IsError(r)})
    /\ metrics.predictions =
         Cardinality({r \in Requests : Accepted(r) /\ req[r].served # NoRow})

RowsOf(r) == {i \in 1..Len(log) : log[i].by = r}

(* A /predict answered through predict's own code (200, or an HTTPException)
   has exactly one telemetry row, which tells the same story as the answer;
   one that ended in an unhandled exception, or was refused or invalid, has
   none.  A request lost in a crash may or may not have left its row. *)
AnsweredIsLogged ==
  \A r \in Requests :
    /\ req[r].phase \in {"handled", "done"} /\ req[r].kind = "predict" =>
         IF req[r].outcome = "raised" \/ req[r].status = 422
         THEN RowsOf(r) = {}
         ELSE \E i \in RowsOf(r) :
                /\ RowsOf(r) = {i}
                /\ log[i].id = req[r].id
                /\ log[i].life = req[r].life
                /\ StatusOf[log[i].outcome] = req[r].status
    /\ req[r].phase \in {"sent", "reading", "health", "logging", "rejected"} => RowsOf(r) = {}
    /\ Cardinality(RowsOf(r)) <= 1

(* Within one run of the process the ids in the log strictly increase: no
   two requests share one, and rows stand in the order the ids were taken.
   Ids repeat across runs, since every process counts from zero. *)
IdsIncrease ==
  \A i, j \in 1..Len(log) :
    i < j /\ log[i].life = log[j].life => log[i].id < log[j].id

(* A zone that every materialisation holds is never answered 404, whatever
   commands are rewriting the snapshot meanwhile: a file caught half-written
   fails loudly (500) and is never mistaken for one without the zone. *)
KnownZoneNeverUnknown ==
  \A r \in Requests :
    (\A rows \in Materialisable : rows[req[r].zone] # NoRow) => req[r].status # 404

(* A process that loaded everything at start-up never answers not_ready and
   never reports itself degraded, in neither of the two readings of one
   /health answer: the store cannot find fewer rows later than at start-up,
   and an unreadable file raises. *)
ReadyNeverLapses ==
  \A r \in Requests :
    up /\ req[r].life = life /\ Loaded =>
      /\ req[r].outcome # "not_ready"
      /\ \A i \in 1..Len(req[r].seen) : req[r].seen[i]

(* Every accepted request is answered, unless the process dies first. *)
RequestsAnswered ==
  \A r \in Requests : InFlight(r) ~> req[r].phase \in {"done", "lost"}
=============================================================================
