------------------------------- MODULE Rules -------------------------------
(***************************************************************************)
(* The pure rules of the code applied to inputs, and what they are meant   *)
(* to compute.  A behaviour picks a rule and an input, and then applies    *)
(* the rule once.                                                          *)
(***************************************************************************)
EXTENDS Config, ImageMetadata, LoadReport

CONSTANTS
    Environments,   \* of load_config
    Images,         \* directories of extract_exif
    Samples         \* percentiles and sizes of series

VARIABLES
    rule,     \* the rule that is applied
    input,    \* to this input
    applied,  \* has it been?
    result    \* what came out

ruleVars == <<rule, input, applied, result>>

-----------------------------------------------------------------------------
(* The inputs: what an environment variable may hold, what Pillow may find *)
(* in a directory of tags, which series can be reported.                   *)
Edge    == MAX_THUMBNAIL_EDGE
Numbers == {"num"} \X Int
Tokens  == {Blank, Word} \cup Numbers

RawValues(v) ==
    CASE v = "LOG_LEVEL"             -> {Unset, Blank, Word} \cup ({"level"} \X STRING)
      [] v = "THUMBNAIL_SIZES"       -> {Unset, Blank} \cup ({"list"} \X Seq(Tokens))
      [] v = "ENABLE_CHAOS_ENDPOINT" -> {Unset, Blank, Word} \cup ({"flag"} \X BOOLEAN)
      [] OTHER                       -> {Unset, Blank, Word} \cup Numbers

Scalars ==
    {<<"bytes">>, <<"nan">>, <<"other">>} \cup ({"str"} \X Nat) \cup ({"int"} \X Int)
    \cup ({"float"} \X Int) \cup ({"ratio"} \X Int \X Nat)

TagValues == Scalars \cup ({"tuple"} \X Seq(Scalars))

ASSUME InputsAssumption ==
    /\ \A env \in Environments :
         \A v \in REQUIRED_VARS \cup ToSet(ParseOrder) : env[v] \in RawValues(v)
    /\ \A img \in Images :
         /\ \A t \in DOMAIN img.raw : img.raw[t] \in TagValues
         /\ \A t \in DOMAIN img.exif_ifd : img.exif_ifd[t] \in TagValues
    /\ \A s \in Samples : s.p \in 0..100 /\ s.n \in Nat \ {0}

-----------------------------------------------------------------------------
RuleInit ==
    /\ applied = FALSE /\ result = "none"
    /\ \/ rule = "config" /\ input \in Environments
       \/ rule = "exif" /\ input \in Images
       \/ rule = "percentile" /\ input \in Samples

Apply(r, value) ==
    /\ rule = r /\ ~applied
    /\ applied' = TRUE
    /\ result' = value
    /\ UNCHANGED <<rule, input>>

ApplyConfig     == Apply("config", LoadConfig(input))
ApplyExif       == Apply("exif", ExtractExif(input.raw, input.exif_ifd))
ApplyPercentile == Apply("percentile", PercentileIndex(input.p, input.n))

RuleNext == ApplyConfig \/ ApplyExif \/ ApplyPercentile

RuleSpec == RuleInit /\ [][RuleNext]_ruleVars

Done(r) == rule = r /\ applied

-----------------------------------------------------------------------------
(* An accepted configuration is one the rest of the system can live with,  *)
(* the assumptions of the other modules among it: sizes ascending, without *)
(* repetition, exactly the listed ones and within bounds, a positive       *)
(* upload limit, a grace period that is not negative; and blank means      *)
(* unset (config.py 132-140, 160-202).                                     *)
AcceptedIsSound(env, values) ==
    LET sizes == values["THUMBNAIL_SIZES"]
        raw   == env["THUMBNAIL_SIZES"]
    IN  /\ \A v \in REQUIRED_VARS : env[v] \notin {Unset, Blank}
        /\ \A i, k \in DOMAIN sizes : i < k => sizes[i] < sizes[k]
        /\ ToSet(sizes) # {} /\ ToSet(sizes) \subseteq 1..Edge
        /\ raw[1] = "list" => ToSet(sizes) = {t[2] : t \in ToSet(raw[2]) \ {Blank}}
        /\ raw[1] # "list" => ToSet(sizes) = {150, 400, 800}
        /\ values["MAX_UPLOAD_BYTES"] \in Nat \ {0}
        /\ values["SHUTDOWN_GRACE_SECONDS"] \in Nat
        /\ values["ENABLE_CHAOS_ENDPOINT"] => env["ENABLE_CHAOS_ENDPOINT"] = Flag(TRUE)

(* "All missing required variables are reported together" (config.py       *)
(* 108-110), before anything is parsed; and a complete environment is      *)
(* refused for a value that is malformed, never for one at its bound.      *)
NoSize(t) == t = Word \/ (t[1] = "num" /\ t[2] \notin 1..Edge)

Malformed(v, raw) ==
    \/ raw = Word
    \/ v = "SHUTDOWN_GRACE_SECONDS" /\ raw[1] = "num" /\ raw[2] < 0
    \/ v = "MAX_UPLOAD_BYTES" /\ raw[1] = "num" /\ raw[2] < 1
    \/ /\ v = "THUMBNAIL_SIZES" /\ raw[1] = "list"
       /\ (\E t \in ToSet(raw[2]) : NoSize(t)) \/ ToSet(raw[2]) \subseteq {Blank}

RefusalHasItsReason(env, names) ==
    LET absent == {v \in REQUIRED_VARS : env[v] \in {Unset, Blank}}
    IN  IF absent # {} THEN names = absent
        ELSE \E v \in ToSet(ParseOrder) : names = {v} /\ Malformed(v, env[v])

(* load_config, as an operator relies on it: what it accepts is sound, and *)
(* what it refuses it refuses for a reason it names.                       *)
ConfigIsExact ==
    Done("config") =>
        IF result.ok THEN AcceptedIsSound(input, result.values)
                     ELSE RefusalHasItsReason(input, result.names)

-----------------------------------------------------------------------------
(* Which values of a tag can be kept at all.                               *)
UsableItem(v) ==
    \/ v[1] = "str" /\ v[2] > 0
    \/ v[1] \in {"int", "float", "nan"}
    \/ v[1] = "ratio" /\ v[3] # 0

UsableItems(s) == {i \in DOMAIN s : i <= MaxExifItems /\ UsableItem(s[i])}

Usable(v) == IF v[1] = "tuple" THEN UsableItems(v[2]) # {} ELSE UsableItem(v)

(* What is read back is what was found: a text is cut, a float is off by   *)
(* half a unit of the sixth digit at most, a ratio by half the spacing of  *)
(* doubles more, and a number is read as an integer exactly if it is whole.*)
Near(a, b, margin) == a - b <= margin /\ b - a <= margin

IsNumber(w) == w[2] \in Int /\ (w[1] = "int" \/ (w[1] = "rounded" /\ w[2] % Scale # 0))

(* Of a number that is read, in units of the sixth digit.                  *)
Units(w) == IF w[1] = "int" THEN w[2] * Scale ELSE w[2]

SameItem(v, w) ==
    CASE v[1] = "str" -> w[1] = "str" /\ w[2] <= v[2] /\ w[2] \in 1..MaxExifChars
                         /\ (w[2] < v[2] => w[2] = MaxExifChars)
      [] v[1] = "int" -> w = v
      [] v[1] = "float" -> IsNumber(w) /\ Near(2 * Units(w) * Fine, 2 * v[2] * Scale, Fine)
      [] v[1] = "ratio" ->
           IsNumber(w) /\ Near(2 * Units(w) * Fine * v[3], 2 * v[2] * Scale * Fine,
                               v[3] * (Fine + Scale))
      [] OTHER -> FALSE

(* The items that can be kept, and no others, in their order.              *)
Same(v, w) ==
    IF v[1] # "tuple" THEN SameItem(v, w)
    ELSE LET kept == UsableItems(v[2])
         IN  /\ w[1] = "list" /\ DOMAIN w[2] = 1..Cardinality(kept)
             /\ \A i \in kept : SameItem(v[2][i], w[2][Cardinality({k \in kept : k <= i})])

(* "location data never enters the system at all" (images.py 206-208), and *)
(* nothing else is lost or changed on the way from the tags of an upload   *)
(* to the item that is read back (images.py 172-244, aws.py 124-148): the  *)
(* tags that survive are those that are no location, no pointer and no     *)
(* blob and have a usable value, the sub-directory's own where it has one. *)
(* What is refused as a whole is refused for a float that is no number.    *)
Offered(d) == {t \in DOMAIN d \ (Pointers \cup GpsTags \cup BlockTags) : Usable(d[t])}

HasNaN(v) ==
    v[1] = "nan" \/ (v[1] = "tuple" /\ \E i \in UsableItems(v[2]) : v[2][i][1] = "nan")

ExifIsExact ==
    Done("exif") =>
        LET sub  == IF DOMAIN input.raw = {} THEN {} ELSE Offered(input.exif_ifd)
            main == Offered(input.raw)
            tag(t) == IF t \in sub THEN input.exif_ifd[t] ELSE input.raw[t]
        IN  /\ DOMAIN result = sub \cup main
            /\ SaveExif(result) = {} => \E t \in DOMAIN result : HasNaN(tag(t))
            /\ \A saved \in SaveExif(result) :
                 DOMAIN saved = DOMAIN result /\ \A t \in DOMAIN saved : Same(tag(t), saved[t])

(* The reported sample is the one whose rank is nearest to p percent of n, *)
(* and it exists even for a single sample (generate.py 87-97).             *)
PercentileIsNearest ==
    Done("percentile") => IsNearestRank(result + 1, input.p, input.n)

-----------------------------------------------------------------------------
(* Statements of the repository that the code does not keep.               *)

(* "a JSON- and DynamoDB-safe primitive" (images.py 173): what is kept of  *)
(* the tags of an upload can be written to its record.                     *)
ExifIsSafe == Done("exif") => SaveExif(result) # {}
=============================================================================
