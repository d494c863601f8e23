------------------------------ MODULE Grammar ------------------------------
(***************************************************************************)
(* The text of a request and what it says: crates/core/src/grammar.rs, the *)
(* v2.1 sizes of v2.rs and the identifiers of ident.rs.                    *)
(*                                                                         *)
(* A path segment is a sequence of lexemes: words, punctuation, numerals   *)
(* and percent escapes, each a string of its own, no two numerals side by  *)
(* side.  A parser returns the set that holds the one reading of its       *)
(* argument, or the empty set when it is malformed: every ParseError is a  *)
(* 400 and every IdentifierError a 404, whichever component is named.      *)
(* Degrees and percentages are in hundredths.                              *)
(***************************************************************************)
EXTENDS Integers, SequencesExt

CONSTANTS IntegerOf,   (* what parse_u32 reads: numeral text -> number        *)
          DecimalOf,   (* what parse_f64 reads: numeral text -> hundredths    *)
          Written      (* what Display writes: hundredths -> numeral text     *)

(* The lexemes that are no numerals.                                       *)
Marks == {"full", "square", "max", "pct:", "!", "^", ",", "."}

(* Whatever was read can be written, also with its full turns taken off;   *)
(* nought is written 0.                                                    *)
ASSUME NumeralAssumption ==
  /\ IntegerOf \in [DOMAIN IntegerOf -> Nat] /\ DecimalOf \in [DOMAIN DecimalOf -> Nat]
  /\ \A t \in DOMAIN IntegerOf : t \in DOMAIN DecimalOf /\ DecimalOf[t] = 100 * IntegerOf[t]
  /\ \A n \in DOMAIN Written : Written[n] \in DOMAIN DecimalOf /\ DecimalOf[Written[n]] = n
  /\ 0 \in DOMAIN Written /\ Written[0] = "0"
  /\ \A t \in DOMAIN DecimalOf :
       t \in STRING /\ t \notin Marks /\ DecimalOf[t] % 36000 \in DOMAIN Written

(* A number with no fraction that is read back as it was written.          *)
Readable(n) == 100 * n \in DOMAIN Written /\ Written[100 * n] \in DOMAIN IntegerOf

Words(set, s) == {w \in set : s = <<w>>}

Begins(lexeme, s) == s # <<>> /\ s[1] = lexeme

Without(lexeme, s) == IF Begins(lexeme, s) THEN Tail(s) ELSE s

(* n numerals with commas in between, read one by one.                     *)
Numbers(table, n, s) ==
  IF /\ Len(s) = 2 * n - 1
     /\ \A i \in 1..(n - 1) : s[2 * i] = ","
     /\ \A i \in 1..n : s[2 * i - 1] \in DOMAIN table
  THEN {[i \in 1..n |-> table[s[2 * i - 1]]]}
  ELSE {}

Positive(n, s) == {f \in Numbers(IntegerOf, n, s) : \A i \in 1..n : f[i] # 0}

(* `w,` and `,h`: the numeral on one side of the comma, nothing beyond it. *)
Beside(i, s) == IF Len(s) = 2 /\ s[3 - i] = "," THEN Positive(1, <<s[i]>>) ELSE {}

Written2(a, b) == <<Written[100 * a], ",", Written[100 * b]>>

----------------------------------------------------------------------------
(* Region::parse.                                                          *)
ParseRegion(s) ==
  IF s = <<"full">> THEN {[kind |-> "full"]}
  ELSE IF s = <<"square">> THEN {[kind |-> "square"]}
  ELSE IF Begins("pct:", s)
  THEN {[kind |-> "percent", x |-> f[1], y |-> f[2], w |-> f[3], h |-> f[4]] :
          f \in {g \in Numbers(DecimalOf, 4, Tail(s)) :
                   g[3] > 0 /\ g[4] > 0 /\ g[1] < 10000 /\ g[2] < 10000}}
  ELSE {[kind |-> "pixels", x |-> f[1], y |-> f[2], w |-> f[3], h |-> f[4]] :
          f \in {g \in Numbers(IntegerOf, 4, s) : g[3] # 0 /\ g[4] # 0}}

(* Size::parse after the `^`.                                              *)
SizeKinds(up, s) ==
  IF s = <<"max">> THEN {[kind |-> "max", up |-> up]}
  ELSE IF Begins("pct:", s)
  THEN {[kind |-> "percent", up |-> up, pct |-> f[1]] :
          f \in {g \in Numbers(DecimalOf, 1, Tail(s)) : g[1] > 0 /\ (up \/ g[1] <= 10000)}}
  ELSE IF Begins("!", s)
  THEN {[kind |-> "confined", up |-> up, w |-> f[1], h |-> f[2]] : f \in Positive(2, Tail(s))}
  ELSE {[kind |-> "exact", up |-> up, w |-> f[1], h |-> f[2]] : f \in Positive(2, s)}
       \cup {[kind |-> "width", up |-> up, w |-> f[1]] : f \in Beside(1, s)}
       \cup {[kind |-> "height", up |-> up, h |-> f[1]] : f \in Beside(2, s)}

ParseSize(s) == SizeKinds(Begins("^", s), Without("^", s))

(* v2::parse_size: no `^`, full and max alike, and every numeric form may  *)
(* upscale.                                                                *)
ParseSizeV2(s) ==
  IF Begins("^", s) THEN {}
  ELSE IF s \in {<<"full">>, <<"max">>} THEN {[kind |-> "max", up |-> FALSE]}
  ELSE {[z EXCEPT !.up = TRUE] : z \in SizeKinds(Begins("pct:", s), s)}

ParseRotation(s) ==
  {[mirror |-> Begins("!", s), degrees |-> f[1]] :
     f \in {g \in Numbers(DecimalOf, 1, Without("!", s)) : g[1] <= 36000}}

Qualities == {"default", "color", "gray", "bitonal"}

Formats == {"jpg", "tif", "png", "gif", "jp2", "pdf", "webp"}

(* ImageRequest::parse and v2::parse_image_request, of the segments after  *)
(* the identifier.  The last one is cut at its last dot.                   *)
ParseRequest(version, segments) ==
  IF Len(segments) # 4 \/ ~Contains(segments[4], ".") THEN {}
  ELSE LET file == segments[4]
           dot == SelectLastInSeq(file, LAMBDA lexeme : lexeme = ".")
       IN  [region   : ParseRegion(segments[1]),
            size     : IF version = "v3" THEN ParseSize(segments[2]) ELSE ParseSizeV2(segments[2]),
            rotation : ParseRotation(segments[3]),
            quality  : Words(Qualities, SubSeq(file, 1, dot - 1)),
            format   : Words(Formats, SubSeq(file, dot + 1, Len(file)))]

----------------------------------------------------------------------------
(* Display of the request and of its parts.                                *)
RegionText(r) ==
  CASE r.kind \in {"full", "square"} -> <<r.kind>>
    [] r.kind = "pixels"  -> <<Written[100 * r.x], ",", Written[100 * r.y], ",",
                               Written[100 * r.w], ",", Written[100 * r.h]>>
    [] r.kind = "percent" -> <<"pct:", Written[r.x], ",", Written[r.y], ",",
                               Written[r.w], ",", Written[r.h]>>

SizeText(z) ==
  (IF z.up THEN <<"^">> ELSE <<>>) \o
  CASE z.kind = "max"      -> <<"max">>
    [] z.kind = "width"    -> <<Written[100 * z.w], ",">>
    [] z.kind = "height"   -> <<",", Written[100 * z.h]>>
    [] z.kind = "percent"  -> <<"pct:", Written[z.pct]>>
    [] z.kind = "exact"    -> Written2(z.w, z.h)
    [] z.kind = "confined" -> <<"!">> \o Written2(z.w, z.h)

(* The sizes of v2::canonical_path: no `^` in v2.                          *)
SizeTextV2(z) ==
  CASE z.kind = "max"   -> <<"full">>
    [] z.kind = "width" -> <<Written[100 * z.w], ",">>
    [] z.kind = "exact" -> Written2(z.w, z.h)

(* A bug: the mirror is lost when a rotation is printed.                   *)
RotationTextUnmirrored(o) == <<Written[o.degrees]>>

RotationText(o) == (IF o.mirror THEN <<"!">> ELSE <<>>) \o <<Written[o.degrees]>>

FileText(quality, format) == <<quality, ".", format>>

RequestText(q) ==
  <<RegionText(q.region), SizeText(q.size), RotationText(q.rotation),
    FileText(q.quality, q.format)>>

----------------------------------------------------------------------------
(* An escape is a percent sign and a pair of hex digits, two lexemes.  The *)
(* pairs that stand for a character; of "5C" and the rest no identifier is *)
(* made: a backslash, a control character, bytes that are no UTF-8.        *)
Unescaped ==
  [pair \in {"2F", "2f", "25", "20", "2E", "5C", "00", "FF"} |->
     CASE pair \in {"2F", "2f"} -> "/"
       [] pair = "25" -> "%"
       [] pair = "20" -> " "
       [] pair = "2E" -> "."
       [] pair = "5C" -> "\\"
       [] pair = "00" -> "NUL"
       [] pair = "FF" -> "not UTF-8"]

Refused == {"\\", "NUL", "not UTF-8"}

(* The characters encoded() escapes.                                       *)
Escaped == [c \in {"/", "%", " "} |-> IF c = "/" THEN "2F" ELSE IF c = "%" THEN "25" ELSE "20"]

(* A bug: encoded() does not escape the percent sign.                      *)
EscapeKeepsPercent(c) ==
  IF c \in DOMAIN Escaped \ {"%"} THEN <<"%", Escaped[c]>> ELSE <<c>>

Escape(c) == IF c \in DOMAIN Escaped THEN <<"%", Escaped[c]>> ELSE <<c>>

(* Identifier::encoded.                                                    *)
Encode(id) == FlattenSeq([i \in DOMAIN id |-> Escape(id[i])])

(* A segment of the decoded path is empty, `.` or `..`.                    *)
Traverses(id) ==
  LET path == <<"/">> \o id \o <<"/">>
      Ends(i) == path[i] = "/"
  IN  \E i \in 1..(Len(id) + 1) :
        Ends(i) /\ \/ Ends(i + 1)
                   \/ path[i + 1] = "." /\ (Ends(i + 2) \/ (path[i + 2] = "." /\ Ends(i + 3)))

BadEscape(raw) ==
  \E i \in DOMAIN raw : raw[i] = "%" /\ (i = Len(raw) \/ raw[i + 1] \notin DOMAIN Unescaped)

(* Identifier::decode, in one pass: what it yields is not decoded again.   *)
Decode(raw) ==
  LET read[n \in 0..Len(raw)] ==
        IF n = 0 THEN <<>>
        ELSE IF raw[n] = "%" THEN read[n - 1]
        ELSE Append(read[n - 1], IF n > 1 /\ raw[n - 1] = "%" THEN Unescaped[raw[n]] ELSE raw[n])
      id == read[Len(raw)]
  IN  IF raw = <<>> \/ BadEscape(raw) \/ ToSet(id) \cap Refused # {} \/ Traverses(id)
      THEN {}
      ELSE {id}
=============================================================================
