---------------------------- MODULE MCMonitoring ----------------------------
(* Monitoring with two kinds of inputs: logs of up to 21 requests of four
   kinds with plain windows, and windows of up to two rows, each plain or with
   one defect, with logs long enough to be trusted. *)
EXTENDS Monitoring, SequencesExt

CONSTANTS z1, z2, Lengths

Times(n, row) == [k \in 1..n |-> row]

Quick == [success |-> TRUE, latency |-> 20, stale |-> FALSE]
Slow == [Quick EXCEPT !.latency = 251]
Stuck == [Quick EXCEPT !.latency = 1001]
Late == [Quick EXCEPT !.latency = 250, !.stale = TRUE]
Refusal == [Quick EXCEPT !.success = FALSE]

Plain == [zone_id |-> z1, timestamp |-> 1, lag |-> 1, hour |-> 8, event_id |-> 1]
Defects ==
  {[Plain EXCEPT !.zone_id = Missing], [Plain EXCEPT !.timestamp = Missing],
   [Plain EXCEPT !.timestamp = Text], [Plain EXCEPT !.lag = -1], [Plain EXCEPT !.lag = Text],
   [Plain EXCEPT !.lag = Missing], [Plain EXCEPT !.hour = Text], [Plain EXCEPT !.hour = Missing]}
Sound ==
  {[Plain EXCEPT !.zone_id = z, !.timestamp = t, !.event_id = e] :
     z \in {z1, z2}, t \in {1, 2}, e \in {1, 2}}

All == [columns |-> Columns, rows |-> <<Plain>>]
References ==
  {All, [All EXCEPT !.rows = << >>], [All EXCEPT !.rows = <<Plain, [Plain EXCEPT !.zone_id = z2]>>],
   [All EXCEPT !.rows = <<[Plain EXCEPT !.hour = Text]>>]}
Currents ==
  {[columns |-> Columns \ gone, rows |-> rows] :
     gone \in {{}} \cup {{c} : c \in Columns}, rows \in BoundedSeq(Sound \cup Defects, 2)}

Logs ==
  {Times(p[2], Refusal) \o Times(p[3], p[4]) \o Times(p[1] - p[2] - p[3], Quick) :
     p \in {q \in Lengths \X {0, 1, 2, 3, 5, 10, 11} \X (0..2) \X {Slow, Stuck, Late} :
              2 * q[2] <= q[1] + 1 /\ q[2] + q[3] <= q[1]}}

MCInputs ==
  {[reference |-> All, current |-> All, requests |-> <<rows, <<Slow>>>>] : rows \in Logs}
    \cup {[reference |-> r, current |-> c, requests |-> <<<<Quick>>>>] :
            r \in References, c \in Currents}
=============================================================================
