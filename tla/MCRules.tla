------------------------------- MODULE MCRules -------------------------------
(***************************************************************************)
(* The rules on every input of a bounded set, and with them the redaction  *)
(* of log events, whose recursion keeps it out of Rules.                   *)
(***************************************************************************)
EXTENDS Rules, LogRedaction

-----------------------------------------------------------------------------
(* Environments: every combination of missing variables, every combination *)
(* of well-formed and malformed optional ones, and every list of up to     *)
(* three tokens around the bounds.                                         *)
MCTokens  == {Blank, Word, Num(0), Num(150), Num(Edge), Num(Edge + 1)}
SizeLists == {List(ts) : ts \in UNION {[1..n -> MCTokens] : n \in 1..3}} \ {List(<<Blank>>)}

Env(required, level, grace, bytes, sizes, chaos) ==
    [v \in REQUIRED_VARS |-> required[v]] @@
    [LOG_LEVEL |-> level, SHUTDOWN_GRACE_SECONDS |-> grace, MAX_UPLOAD_BYTES |-> bytes,
     THUMBNAIL_SIZES |-> sizes, ENABLE_CHAOS_ENDPOINT |-> chaos]

AllSet == [v \in REQUIRED_VARS |-> Word]

MCEnvironments ==
    {Env(r, l, Unset, Unset, Unset, Unset) :
        r \in [REQUIRED_VARS -> {Unset, Blank, Word}], l \in {Unset, Word}}
    \cup {Env(AllSet, l, g, b, s, c) :
        l \in {Unset, Blank, Word, Level("DEBUG")},
        g \in {Unset, Blank, Word, Num(-1), Num(0), Num(45)},
        b \in {Unset, Blank, Word, Num(0), Num(1)},
        s \in {Unset, Blank, List(<<Word>>), List(<<Num(150)>>)},
        c \in {Unset, Blank, Word, Flag(TRUE), Flag(FALSE)}}
    \cup {Env(AllSet, Unset, Unset, Unset, s, Unset) : s \in SizeLists}

(* Images: two directories with tags of every class.                       *)
MCTagValues == {<<"str", 0>>, <<"str", MaxExifChars + 1>>, <<"ratio", 4, 2>>,
                <<"ratio", 99, 100>>, <<"ratio", 29, 30>>, <<"ratio", 1, 0>>, <<"nan">>,
                <<"tuple", <<<<"bytes">>, <<"int", 1>>, <<"float", 4>>, <<"nan">>>>>>,
                <<"tuple", <<<<"int", 1>>, <<"nan">>>>>>,
                <<"tuple", <<<<"str", 0>>>>>>}

(* A tag that may be kept has any of them, a tag that is dropped unread a  *)
(* usable value or one that is not.                                        *)
Directories(dropped) ==
    {d @@ e : d \in UNION {[ts -> MCTagValues] : ts \in SUBSET {"Make"}},
              e \in UNION {[ts -> {<<"int", 1>>, <<"bytes">>}] : ts \in SUBSET dropped}}

MCImages == [raw : Directories({"GPSInfo", "MakerNote"}),
             exif_ifd : Directories({"GPSLatitude"})]

MCSamples == [p : {50, 90, 95, 99}, n : 1..60]

(* Events: one marked value, nested in up to five dicts and lists with     *)
(* harmless neighbours, under a top-level key of every class.              *)
Steps   == {"plain", "token", "gps", "gps_token", "first", "last"}
Payload == {<<"text", "mark", 1>>, <<"text", "mark", MaxChars + 1>>, <<"bytes", 7>>}
Filler  == <<"text", "filler", 1>>

RECURSIVE Nest(_, _)
Nest(path, leaf) ==
    IF path = <<>> THEN leaf
    ELSE LET inner == Nest(Tail(path), leaf)
         IN  CASE Head(path) = "first" -> <<"list", <<inner>> \o [i \in 1..MaxItems |-> Filler]>>
               [] Head(path) = "last"  -> <<"list", [i \in 1..MaxItems |-> Filler] \o <<inner>>>>
               [] OTHER -> <<"dict", (Head(path) :> inner) @@ ("other" :> Filler)>>

Paths  == UNION {[1..n -> Steps] : n \in 0..3}
          \cup UNION {[1..n -> {"plain", "first", "token"}] : n \in 4..5}
Events == [top : {"plain", "event", "message", "service", "token", "gps", "gps_token"},
           path : Paths, leaf : Payload, active : BOOLEAN]

EventDict(e) ==
    IF e.top = "event" THEN "event" :> Nest(e.path, e.leaf)
    ELSE ("event" :> <<"text", "event", 1>>) @@ (e.top :> Nest(e.path, e.leaf))

Context == "job_id" :> <<"text", "job", 1>>

-----------------------------------------------------------------------------
ApplyLog == Apply("log", LogLine(EventDict(input), Context, input.active))

MCInit ==
    \/ RuleInit
    \/ applied = FALSE /\ result = "none" /\ rule = "log" /\ input \in Events

MCNext == RuleNext \/ ApplyLog

MCSpec == MCInit /\ [][MCNext]_ruleVars

-----------------------------------------------------------------------------
(* The texts and sizes that a line shows.                                  *)
RECURSIVE Shown(_)
Shown(value) ==
    CASE value[1] = "dict" -> UNION {Shown(value[2][k]) : k \in DOMAIN value[2]}
      [] value[1] = "list" -> UNION {Shown(value[2][i]) : i \in DOMAIN value[2]}
      [] OTHER -> {value}

ShownIn(line) == UNION {Shown(line[k]) : k \in DOMAIN line}

(* The redaction rules as a reader would put them (logging_setup.py        *)
(* 97-124): a value appears if and only if no key above it is secret or a  *)
(* location, no list is cut before it and it is not nested too deep; it is *)
(* never longer than the limit, bytes appear as their number, a field      *)
(* named message gives way to the event (149-158), and a line has the ids  *)
(* of a span exactly if one is active (136-146).                           *)
RedactionIsExact ==
    Done("log") =>
        LET harmless == {"plain", "first"}
            visible  == /\ input.top \in {"plain", "event", "service"}
                        /\ \A i \in DOMAIN input.path : input.path[i] \in harmless
                        /\ Len(input.path) <= MaxDepth
            shown    == ShownIn(result)
            form     == CASE input.leaf[1] = "bytes" -> <<"size", 7>>
                          [] input.leaf[3] > MaxChars -> <<"text", "mark", MaxChars, "cut">>
                          [] OTHER -> input.leaf
        IN  /\ form \in shown <=> visible
            /\ input.leaf # form => input.leaf \notin shown
            /\ result["message"] = result["event"]
            /\ {"job_id", "service"} \subseteq DOMAIN result
            /\ {"trace_id", "span_id"} \cap DOMAIN result =
                 IF input.active THEN {"trace_id", "span_id"} ELSE {}
=============================================================================
