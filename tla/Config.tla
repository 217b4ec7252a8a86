------------------------------- MODULE Config -------------------------------
(***************************************************************************)
(* load_config (shared/config.py): the environment variables of a process  *)
(* turned into its configuration, or into a ConfigError.                   *)
(*                                                                         *)
(* A variable is unset or a string, and strings are told apart as far as   *)
(* the code does: blank, a number, a word that is no number, a known level *)
(* or flag, a comma-separated list of such tokens.  A parser returns the   *)
(* set of its result: {x} for x, {} for ConfigError.                       *)
(***************************************************************************)
EXTENDS Sequences, SequencesExt, PyBuiltins

CONSTANT MAX_THUMBNAIL_EDGE

(* The default sizes are within the bound (it is 8192).                    *)
ASSUME EdgeAssumption == MAX_THUMBNAIL_EDGE \in Nat /\ MAX_THUMBNAIL_EDGE >= 800

Unset     == <<"unset">>
Blank     == <<"blank">>
Word      == <<"word">>
Num(n)    == <<"num", n>>
Level(l)  == <<"level", l>>
Flag(b)   == <<"flag", b>>
List(ts)  == <<"list", ts>>

REQUIRED_VARS == {"AWS_REGION", "S3_BUCKET", "SQS_QUEUE_URL", "DYNAMODB_TABLE"}

(* The order in which load_config evaluates the variables that can be      *)
(* malformed: the first one decides the error.                             *)
ParseOrder == <<"LOG_LEVEL", "SHUTDOWN_GRACE_SECONDS", "MAX_UPLOAD_BYTES",
                "THUMBNAIL_SIZES", "ENABLE_CHAOS_ENDPOINT">>

(* _get: a string of blanks is as good as none.                            *)
Get(raw) == IF raw = Blank THEN Unset ELSE raw

LogLevel(raw) ==
    IF Get(raw) = Unset THEN {"INFO"} ELSE IF raw = Word THEN {} ELSE {raw[2]}

IntVar(raw, default, minimum) ==
    IF Get(raw) = Unset THEN {default}
    ELSE IF raw = Word THEN {} ELSE {n \in {raw[2]} : n >= minimum}

(* _bool does not go through _get: blank is one of the words for false.    *)
BoolVar(raw, default) ==
    IF raw = Unset THEN {default}
    ELSE IF raw = Blank THEN {FALSE}
    ELSE IF raw = Word THEN {} ELSE {raw[2]}

(* Mutant: the sizes as they are listed, repeated and unsorted.            *)
MutantSizesKeepOrder(raw) ==
    LET tokens == SelectSeq(IF Get(raw) = Unset THEN <<Num(150), Num(400), Num(800)>> ELSE raw[2],
                            LAMBDA t : t # Blank)
        sound  == \A i \in DOMAIN tokens :
                      tokens[i] # Word /\ tokens[i][2] > 0 /\ tokens[i][2] <= MAX_THUMBNAIL_EDGE
    IN  IF sound /\ tokens # <<>> THEN {[i \in DOMAIN tokens |-> tokens[i][2]]} ELSE {}

(* _thumbnail_sizes: blank tokens are skipped, anything that is no number  *)
(* or is out of range is an error, and so is a list without a size.        *)
ThumbnailSizes(raw) ==
    LET listed == IF Get(raw) = Unset THEN {Num(150), Num(400), Num(800)} ELSE ToSet(raw[2])
        tokens == listed \ {Blank}
        sound  == \A t \in tokens : t # Word /\ t[2] > 0 /\ t[2] <= MAX_THUMBNAIL_EDGE
    IN  IF sound /\ tokens # {} THEN {Sorted({t[2] : t \in tokens})} ELSE {}

TenMiB == 10485760

Parse(v, raw) ==
    CASE v = "LOG_LEVEL"              -> LogLevel(raw)
      [] v = "SHUTDOWN_GRACE_SECONDS" -> IntVar(raw, 30, 0)
      [] v = "MAX_UPLOAD_BYTES"       -> IntVar(raw, TenMiB, 1)
      [] v = "THUMBNAIL_SIZES"        -> ThumbnailSizes(raw)
      [] v = "ENABLE_CHAOS_ENDPOINT"  -> BoolVar(raw, FALSE)

ConfigError(names) == [ok |-> FALSE, names |-> names]

LoadConfig(env) ==
    LET missing == {v \in REQUIRED_VARS : Get(env[v]) = Unset}
        bad     == {i \in DOMAIN ParseOrder : Parse(ParseOrder[i], env[ParseOrder[i]]) = {}}
    IN  IF missing # {} THEN ConfigError(missing)
        ELSE IF bad # {} THEN ConfigError({ParseOrder[Min(bad)]})
        ELSE [ok |-> TRUE,
              values |-> [v \in ToSet(ParseOrder) |-> CHOOSE x \in Parse(v, env[v]) : TRUE]]
=============================================================================
