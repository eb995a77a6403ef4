------------------------------- MODULE TraceV2 -------------------------------
(***************************************************************************)
(* Trace files (sim/workload/tracev2.go, and the loaders of replay.go): the *)
(* CSV with its optional columns, written by name and read back by          *)
(* position; simulated requests as trace records; trace records as requests *)
(* and as the inputs of the saturation detectors.                           *)
(*                                                                          *)
(* Every cell is an integer: a text is a number, 0 the empty one, and an    *)
(* optional number that is not set is Nil, written as an empty cell.        *)
(***************************************************************************)
EXTENDS Integers, Sequences, FiniteSets, SequencesExt

CONSTANT Base   \* traceV2Columns: the columns every trace has

ASSUME BaseAssumption ==
    {"slo_class", "deadline_us", "arrival_time_us", "send_time_us",
     "first_chunk_time_us", "last_chunk_time_us", "status"} \subseteq ToSet(Base)

Nil == -1

Ok == 1
Failed == 2      \* "error"
TimedOut == 3    \* "timeout"
Incomplete == 4  \* "incomplete"

Optional == <<"vllm_priority", "slo_target_us", "x_request_id", "adapter",
              "think_time_us", "input_tokens_reset">>

IndexOf(seq, x) == CHOOSE i \in DOMAIN seq : seq[i] = x

\* Positions of the columns after which an optional column is inserted.
AfterClass == IndexOf(Base, "slo_class")
AfterDeadline == IndexOf(Base, "deadline_us")

\* Which optional columns ExportTraceV2 writes.
Includes(recs, mode, col) ==
    LET some(P(_)) == \E i \in DOMAIN recs : P(recs[i])
    IN CASE col = "vllm_priority" ->
                some(LAMBDA r : r.vllm_priority # 0 \/ (r.slo_class # 0 /\ mode = "real"))
         [] col = "slo_target_us" -> some(LAMBDA r : r.slo_target_us > 0)
         [] col = "x_request_id" -> mode = "real" /\ some(LAMBDA r : r.x_request_id # 0)
         [] col = "adapter" -> some(LAMBDA r : r.adapter # 0)
         [] col = "think_time_us" -> some(LAMBDA r : r.think_time_us # Nil)
         [] col = "input_tokens_reset" -> some(LAMBDA r : r.input_tokens_reset # Nil)

Columns(recs, mode) ==
    LET opt(col) == IF Includes(recs, mode, col) THEN <<col>> ELSE <<>>
    IN SubSeq(Base, 1, AfterClass) \o opt("vllm_priority")
         \o SubSeq(Base, AfterClass + 1, AfterDeadline) \o opt("slo_target_us")
         \o SubSeq(Base, AfterDeadline + 1, Len(Base))
         \o opt("x_request_id") \o opt("adapter")
         \o opt("think_time_us") \o opt("input_tokens_reset")

ExportTraceV2(recs, mode) ==
    LET cols == Columns(recs, mode)
    IN [header |-> cols,
        rows |-> [i \in DOMAIN recs |-> [k \in DOMAIN cols |-> recs[i][cols[k]]]]]

Has(header, col) == \E k \in DOMAIN header : header[k] = col

\* The trailing optional columns are found by their place in the header row.
Trailing(row, header, col, absent) ==
    IF Has(header, col) THEN row[IndexOf(header, col)] ELSE absent

\* Mutant: the columns after deadline_us are read without the shift of slo_target_us.
parseTraceRecordNoShift(row, header) ==
    LET offset == IF Has(header, "vllm_priority") THEN 1 ELSE 0
        place(k) == IF k <= AfterClass THEN k ELSE k + offset
    IN [c \in ToSet(Base) \cup ToSet(Optional) |->
          CASE c = "vllm_priority" -> IF offset = 1 THEN row[AfterClass + 1] ELSE 0
            [] c = "slo_target_us" ->
                  IF Has(header, c) THEN row[AfterDeadline + 1 + offset] ELSE 0
            [] c = "x_request_id" -> Trailing(row, header, c, 0)
            [] c = "adapter" -> Trailing(row, header, c, 0)
            [] c = "think_time_us" -> Trailing(row, header, c, Nil)
            [] c = "input_tokens_reset" -> Trailing(row, header, c, Nil)
            [] OTHER -> row[place(IndexOf(Base, c))]]

\* parseTraceRecord: positions of the base columns, shifted by the optional
\* columns that precede them.
parseTraceRecord(row, header) ==
    LET offset == IF Has(header, "vllm_priority") THEN 1 ELSE 0
        offset2 == offset + (IF Has(header, "slo_target_us") THEN 1 ELSE 0)
        place(k) == IF k <= AfterClass THEN k
                    ELSE IF k <= AfterDeadline THEN k + offset ELSE k + offset2
    IN [c \in ToSet(Base) \cup ToSet(Optional) |->
          CASE c = "vllm_priority" -> IF offset = 1 THEN row[AfterClass + 1] ELSE 0
            [] c = "slo_target_us" -> IF offset2 > offset THEN row[AfterDeadline + 1 + offset] ELSE 0
            [] c = "x_request_id" -> Trailing(row, header, c, 0)
            [] c = "adapter" -> Trailing(row, header, c, 0)
            [] c = "think_time_us" -> Trailing(row, header, c, Nil)
            [] c = "input_tokens_reset" -> Trailing(row, header, c, Nil)
            [] OTHER -> row[place(IndexOf(Base, c))]]

\* The values parseTraceRecord refuses. Send and chunk times are not checked.
NonNegative == {"vllm_priority", "prefix_length", "input_tokens", "output_tokens",
                "text_tokens", "image_tokens", "audio_tokens", "video_tokens",
                "reason_ratio", "deadline_us", "slo_target_us", "server_input_tokens",
                "arrival_time_us", "num_chunks"}

Refused(rec) ==
    \/ \E c \in NonNegative : rec[c] < 0
    \/ rec.deadline_us > 0 /\ rec.arrival_time_us > 0 /\ rec.deadline_us < rec.arrival_time_us

LoadTraceV2(file) ==
    [i \in DOMAIN file.rows |-> parseTraceRecord(file.rows[i], file.header)]

\* injectionTime, injectionOriginShift: a replay injects at the recorded send
\* times, moved so that the earliest falls on the earliest recorded arrival.
injectionTime(rec) == IF rec.send_time_us > 0 THEN rec.send_time_us ELSE rec.arrival_time_us

Least(S) == CHOOSE x \in S : \A y \in S : x <= y
Greatest(S) == CHOOSE x \in S : \A y \in S : x >= y

injectionOriginShift(recs) ==
    Least({injectionTime(recs[i]) : i \in DOMAIN recs})
      - Least({recs[i].arrival_time_us : i \in DOMAIN recs})

\* MaxNormalizedInjectionTimeUs: follow-up rounds are not injected at the start.
MaxNormalizedInjectionTime(recs) ==
    LET first == {i \in DOMAIN recs : recs[i].session_id = 0 \/ recs[i].round_index = 0}
    IN Greatest({0} \cup {injectionTime(recs[i]) - injectionOriginShift(recs) : i \in first})

\* The prompt length: the server's count replaces the client's, except under a
\* shared prefix, whose tokens the server's count already includes.
effectiveInputTokenCount(rec) ==
    IF rec.server_input_tokens > 0 /\ rec.prefix_group = 0
    THEN rec.server_input_tokens ELSE rec.input_tokens

\* The prefix of a group has the length its first record gives it.
PrefixTokens(recs, g) ==
    LET members == {i \in DOMAIN recs : recs[i].prefix_group = g /\ recs[i].prefix_length > 0}
    IN IF g = 0 \/ members = {} THEN 0 ELSE recs[Least(members)].prefix_length

\* LoadTraceV2Requests. Of the tokens only their number is kept.
LoadTraceV2Requests(recs) ==
    [i \in DOMAIN recs |->
        [id |-> recs[i].request_id,
         arrival |-> injectionTime(recs[i]) - injectionOriginShift(recs),
         in |-> PrefixTokens(recs, recs[i].prefix_group) + effectiveInputTokenCount(recs[i]),
         out |-> recs[i].output_tokens,
         rec |-> recs[i]]]   \* what is copied field by field: class, model, deadline, ...

\* Columns that RequestsToTraceRecords copies from the request.
Copied == {"client_id", "tenant_id", "slo_class", "session_id", "round_index",
           "prefix_group", "streaming", "text_tokens", "image_tokens", "audio_tokens",
           "video_tokens", "reason_ratio", "model", "deadline_us", "slo_target_us", "adapter"}

LastChunkTime(r, l) == r.arrival + l.ttft + l.itl

\* RequestsToTraceRecords: reqs[i] as it stands at the end, live[i] with its
\* state, first token time (relative) and inter-token times.
RequestsToTraceRecords(reqs, live) ==
    [i \in DOMAIN reqs |->
        LET r == reqs[i]
            fits == r.in >= r.rec.prefix_length
        IN [c \in ToSet(Base) \cup ToSet(Optional) |->
              CASE c \in Copied -> r.rec[c]
                [] c = "request_id" -> i - 1
                [] c = "prefix_length" -> IF fits THEN r.rec.prefix_length ELSE 0
                [] c = "input_tokens" -> IF fits THEN r.in - r.rec.prefix_length ELSE r.in
                [] c = "output_tokens" -> r.out
                [] c \in {"arrival_time_us", "send_time_us"} -> r.arrival
                [] c = "first_chunk_time_us" -> IF live[i].first THEN r.arrival + live[i].ttft ELSE 0
                [] c = "last_chunk_time_us" -> IF live[i].first THEN LastChunkTime(r, live[i]) ELSE 0
                [] c = "status" -> CASE live[i].state = "completed" -> Ok
                                     [] live[i].state = "timed out" -> TimedOut
                                     [] OTHER -> Incomplete
                [] c \in {"think_time_us", "input_tokens_reset"} -> Nil
                [] OTHER -> 0]]

\* TraceRecordsToRequestMetrics: the detectors' inputs from a trace. The index
\* is part of the identity, so equal requests stay apart.
TraceRecordsToRequestMetrics(recs) ==
    {[id |-> recs[i].request_id, at |-> recs[i].arrival_time_us,
      e2e |-> recs[i].last_chunk_time_us - recs[i].send_time_us] :
        i \in {j \in DOMAIN recs :
                 /\ recs[j].status = Ok
                 /\ recs[j].last_chunk_time_us > recs[j].send_time_us}}
=============================================================================
