---------------------------- MODULE LogRedaction ----------------------------
(***************************************************************************)
(* What happens to a log event between the call and the JSON line          *)
(* (shared/logging_setup.py): the processors of configure_logging that     *)
(* change fields, in their order.                                          *)
(*                                                                         *)
(* A value is <<"text", id, length>>, <<"bytes", length>>, <<"dict", f>>   *)
(* or <<"list", s>>.  A key is told apart by the markers it contains: the  *)
(* names below stand for all keys of their class.                          *)
(***************************************************************************)
EXTENDS Naturals, Sequences, FiniteSetsExt

CONSTANTS
    MaxDepth,   \* 4
    MaxItems,   \* 32
    MaxChars    \* _MAX_VALUE_CHARS

ASSUME LimitsAssumption == {MaxDepth, MaxItems, MaxChars} \subseteq Nat

SecretKeys == {"token", "gps_token"}
GpsKeys    == {"gps", "gps_token"}

Redacted  == <<"redacted">>
Truncated == <<"truncated">>

RECURSIVE ScrubValue(_, _)

(* _scrub_value                                                            *)
ScrubValue(value, depth) ==
    IF depth > MaxDepth THEN Truncated
    ELSE CASE value[1] = "dict" ->
                <<"dict", [k \in DOMAIN value[2] \ GpsKeys |->
                             IF k \in SecretKeys THEN Redacted
                             ELSE ScrubValue(value[2][k], depth + 1)]>>
           [] value[1] = "list" ->
                LET kept == SubSeq(value[2], 1, Min({Len(value[2]), MaxItems}))
                IN  <<"list", [i \in DOMAIN kept |-> ScrubValue(kept[i], depth + 1)]>>
           [] value[1] = "bytes" -> <<"size", value[2]>>
           [] value[1] = "text" /\ value[3] > MaxChars -> <<"text", value[2], MaxChars, "cut">>
           [] OTHER -> value

(* _redaction_processor: the top level, where only "event" may not go.     *)
RedactionProcessor(event_dict) ==
    [k \in {x \in DOMAIN event_dict : x \notin GpsKeys \/ x = "event"} |->
        IF k \in SecretKeys THEN Redacted ELSE ScrubValue(event_dict[k], 0)]

(* dict.setdefault, of _service_processor and _trace_processor.            *)
SetDefault(event_dict, key, value) ==
    [k \in DOMAIN event_dict \cup {key} |-> IF k \in DOMAIN event_dict THEN event_dict[k] ELSE value]

ServiceProcessor(event_dict) == SetDefault(event_dict, "service", <<"text", "service", 1>>)

(* The ids of the active span, if there is one.                            *)
TraceProcessor(event_dict, active) ==
    IF active THEN SetDefault(SetDefault(event_dict, "trace_id", <<"text", "trace", 1>>),
                              "span_id", <<"text", "span", 1>>)
              ELSE event_dict

(* _rename_message: whatever stood under "message" gives way to the event. *)
RenameMessage(event_dict) ==
    [k \in DOMAIN event_dict \cup {"message"} |->
        IF k = "message" THEN event_dict["event"] ELSE event_dict[k]]

(* Mutant: the copy is made before the redaction.                          *)
MutantRenameFirst(event_dict, context, active) ==
    LET merged == [k \in DOMAIN event_dict \cup DOMAIN context |->
                     IF k \in DOMAIN event_dict THEN event_dict[k] ELSE context[k]]
        named  == TraceProcessor(ServiceProcessor(merged), active)
        first  == RedactionProcessor(named)
    IN  [k \in DOMAIN first \cup {"message"} |->
            IF k = "message" THEN event_dict["event"] ELSE first[k]]

(* One event through the chain, with the fields bound by bind_job_context. *)
LogLine(event_dict, context, active) ==
    LET merged == [k \in DOMAIN event_dict \cup DOMAIN context |->
                     IF k \in DOMAIN event_dict THEN event_dict[k] ELSE context[k]]
    IN  RenameMessage(RedactionProcessor(TraceProcessor(ServiceProcessor(merged), active)))
=============================================================================
