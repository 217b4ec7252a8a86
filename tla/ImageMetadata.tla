--------------------------- MODULE ImageMetadata ---------------------------
(***************************************************************************)
(* The EXIF tags of an upload on their way into the job's record:          *)
(* extract_exif and _normalise_exif_value (shared/images.py), and the      *)
(* conversions to and from DynamoDB (_to_dynamo, _from_dynamo of           *)
(* shared/aws.py).  What Pillow decodes is external; a tag stands for all  *)
(* tags the code treats alike.                                             *)
(*                                                                         *)
(* Values: <<"bytes">>, <<"str", length>>, <<"int", n>>, <<"float", n>>    *)
(* for the double n / Fine, <<"nan">> for one that DynamoDB has no number  *)
(* for (not finite, or of 10^126 and more), <<"ratio", n, d>> for an       *)
(* IFDRational (the sign is put into n, the quotient is the same),         *)
(* <<"other">>, and <<"tuple", s>> of these: the arrays of a TIFF          *)
(* directory are flat, so the recursion of the code ends after one level.  *)
(* A double that went through round() is <<"rounded", w>>, the one nearest *)
(* to w / Scale.                                                           *)
(*                                                                         *)
(* Doubles lie on a grid of 1 / Fine around the value in question, and all *)
(* that is needed of it is that it is finer than six digits, as it is up   *)
(* to 2^33, beyond the quotient of any two numbers of a TIFF directory.    *)
(* Floats from there to 10^126, which round() leaves alone, are left out.  *)
(*                                                                         *)
(* A conversion returns the set of its result, {} when the value is        *)
(* dropped.                                                                *)
(***************************************************************************)
EXTENDS Sequences, SequencesExt, PyBuiltins

CONSTANTS
    MaxExifChars,   \* _MAX_EXIF_VALUE_CHARS
    MaxExifItems,   \* 16
    Scale,          \* 10^6: numbers are rounded to six digits
    Fine            \* 1 / the spacing of doubles

ASSUME ExifAssumption ==
    /\ {MaxExifChars, MaxExifItems, Scale, Fine} \subseteq Nat \ {0}
    /\ Fine > Scale

Pointers  == {"GPSInfo", "ExifOffset"}    \* _GPS_IFD_TAG, _EXIF_IFD_TAG
GpsTags   == {"GPSLatitude"}
BlockTags == {"MakerNote"}                \* _EXIF_BLOCKLIST

(* float(n) / float(d): the double nearest to the quotient.                *)
Quotient(n, d) == RoundHalfEven(n * Fine, d)

(* round(n / Fine, 6), which looks at the exact value of its double.       *)
Rounded(n) == <<"rounded", RoundHalfEven(n * Scale, Fine)>>

(* _normalise_exif_value of anything but a tuple.                          *)
NormaliseScalar(value) ==
    CASE value[1] = "str" /\ value[2] > 0 ->
           {<<"str", IF value[2] > MaxExifChars THEN MaxExifChars ELSE value[2]>>}
      [] value[1] \in {"int", "nan"} -> {value}
      [] value[1] = "float" -> {Rounded(value[2])}
      [] value[1] = "ratio" /\ value[3] # 0 -> {Rounded(Quotient(value[2], value[3]))}
      [] OTHER -> {}

(* An item of a tuple may be dropped on its own, and a tuple of which      *)
(* nothing is left is dropped too.                                         *)
KeptItems(items) ==
    {i \in DOMAIN items : i <= MaxExifItems /\ NormaliseScalar(items[i]) # {}}

NormaliseExifValue(value) ==
    IF value[1] # "tuple" THEN NormaliseScalar(value)
    ELSE LET kept == Sorted(KeptItems(value[2]))
         IN  IF KeptItems(value[2]) = {} THEN {}
             ELSE {<<"list", [k \in DOMAIN kept |->
                        CHOOSE x \in NormaliseScalar(value[2][kept[k]]) : TRUE]>>}

(* Mutant: only the pointer to the location data is dropped.               *)
MutantKeptGps(source) ==
    {t \in DOMAIN source \ (Pointers \cup BlockTags) : NormaliseExifValue(source[t]) # {}}

(* The tags of one directory that absorb() keeps.                          *)
KeptTags(source) ==
    {t \in DOMAIN source \ (Pointers \cup BlockTags \cup GpsTags) :
        NormaliseExifValue(source[t]) # {}}

Absorb(result, source) ==
    [t \in DOMAIN result \cup KeptTags(source) |->
        IF t \in KeptTags(source)
          THEN CHOOSE x \in NormaliseExifValue(source[t]) : TRUE
          ELSE result[t]]

Nothing == [t \in {} |-> <<"other">>]

(* extract_exif: the main directory, then the EXIF sub-directory, unless   *)
(* the main one cannot be read or is empty.                                *)
ExtractExif(raw, exif_ifd) ==
    IF DOMAIN raw = {} THEN Nothing ELSE Absorb(Absorb(Nothing, raw), exif_ifd)

-----------------------------------------------------------------------------
(* _to_dynamo makes a float a Decimal of its shortest digits, w / Scale as *)
(* no other decimal of six digits is as near; _from_dynamo makes an int of *)
(* a Decimal that is whole, and the double of its digits of any other.     *)
ThroughDynamo(value) ==
    IF value[1] = "rounded" /\ value[2] % Scale = 0
      THEN <<"int", value[2] \div Scale>> ELSE value

Stored(value) ==
    IF value[1] = "list"
      THEN <<"list", [i \in DOMAIN value[2] |-> ThroughDynamo(value[2][i])]>>
      ELSE ThroughDynamo(value)

(* boto3 has a number for every Decimal but NaN and those out of range.    *)
Storable(value) ==
    IF value[1] = "list" THEN \A i \in DOMAIN value[2] : value[2][i][1] # "nan"
                         ELSE value[1] # "nan"

(* The tags in the item that mark_complete writes, as they are read back;  *)
(* for one value that boto3 refuses the write raises and stores none.      *)
SaveExif(exif) ==
    IF \A t \in DOMAIN exif : Storable(exif[t])
      THEN {[t \in DOMAIN exif |-> Stored(exif[t])]} ELSE {}
=============================================================================
