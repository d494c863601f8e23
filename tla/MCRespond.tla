------------------------------ MODULE MCRespond ----------------------------
(* One pyramid whose levels round up, one JPEG 2000 of another shape, a     *)
(* master that is refused, one that cannot be read; identifiers with a     *)
(* slash and a percent sign, spelled in several ways, and malformed ones.  *)
EXTENDS Respond

Whole == 0..16 \cup {25, 50, 90, 100, 150, 180, 270, 360, 361}

MCWritten == [n \in {100 * k : k \in Whole} \cup {1250} |->
                IF n = 1250 THEN "12.5" ELSE ToString(n \div 100)]

MCIntegerOf == [t \in {ToString(k) : k \in Whole} \cup {"010"} |->
                  IF t = "010" THEN 10 ELSE CHOOSE k \in Whole : ToString(k) = t]

MCDecimalOf == [t \in DOMAIN MCIntegerOf \cup {"12.5", "12.50"} |->
                  IF t \in DOMAIN MCIntegerOf THEN 100 * MCIntegerOf[t] ELSE 1250]

Pyramid5x9 == PyramidMaster([w |-> 2, h |-> 4], <<[w |-> 5, h |-> 9, factor |-> 1],
                                                  [w |-> 3, h |-> 5, factor |-> 2]>>)

Wavelet10x4 == WaveletMaster(10, 4, [w |-> 4, h |-> 4], 3)

A == <<"a">>
B == <<"b", "/", "%", "2F">>

MCMasters == A :> Wavelet10x4 @@ B :> Pyramid5x9
             @@ <<"huge">> :> [SimpleMaster(3, 3) EXCEPT !.opens = "limit"]
             @@ <<"odd">> :> [SimpleMaster(3, 3) EXCEPT !.opens = "unsupported"]

MCReplacements == {SimpleMaster(4, 6)}

MCLimits == [w |-> 12, h |-> 8, area |-> 60]

RawB == {<<"b", "%", "2F", "%", "25", "2F">>, <<"b", "%", "2f", "%", "25", "2F">>}

Raws == {A, <<"huge">>, <<"odd">>, <<"missing">>, <<>>, <<"a", "%">>, <<"%", "a", "b">>,
         <<"%", "FF">>, <<"a", "%", "00">>, <<"a", "\\">>, <<"a", "%", "5C">>, <<".", ".">>,
         <<"a", "%", "2F", "%", "2E", ".">>, <<"a", "%", "2F">>, <<"a", "%", "20", "b">>} \cup RawB

Comma(seq) == [i \in 1..(2 * Len(seq) - 1) |-> IF i % 2 = 1 THEN seq[(i + 1) \div 2] ELSE ","]

GoodRegions == {<<"full">>, <<"square">>, Comma(<<"0", "0", "10", "4">>), Comma(<<"1", "2", "010", "3">>),
                <<"pct:">> \o Comma(<<"12.50", "50", "50", "50">>)}

GoodSizes == {<<"max">>, <<"^", "max">>, <<"3", ",">>, <<",", "3">>, <<"pct:", "50">>, <<"2", ",", "2">>,
              <<"^", "12", ",", "5">>, <<"!", "4", ",", "4">>, <<"^", "pct:", "150">>, <<"11", ",">>}

BadRegions == {<<>>, <<"3", ",">>, Comma(<<"0", "0", "0", "1">>), Comma(<<"0", "0", "1", "1", "1">>),
               <<"pct:">> \o Comma(<<"100", "0", "1", "1">>), Comma(<<"20", "0", "1", "1">>)}

BadSizes == {<<>>, <<"^">>, <<",">>, <<"0", ",">>, <<"pct:", "150">>, <<"pct:", "0">>, <<"full">>,
             <<"!", "3", ",">>, <<"3">>, <<"^", "^", "max">>}

GoodRotations == {<<"0">>, <<"360">>, <<"!", "90">>}

BadRotations == {<<>>, <<"!">>, <<"361">>, <<"!", "!", "0">>}

GoodFiles == {FileText("default", "jpg"), FileText("gray", "png")}

BadFiles == {<<"default">>, FileText("grey", "png"), FileText("gray", "bmp"),
             <<"default", ".", "x", ".", "png">>, <<".", "png">>}

Target(prefix, path) == [prefix |-> prefix, path |-> path]

Plainest(raw) == <<raw, <<"full">>, <<"max">>, <<"0">>, FileText("default", "png")>>

Images ==
  {<<A, r, z, <<"0">>, FileText("default", "jpg")>> : <<r, z>> \in GoodRegions \X GoodSizes}
    \cup {<<A, <<"square">>, z, o, f>> :
            <<z, o, f>> \in {<<"^", "max">>, <<"2", ",", "2">>} \X GoodRotations \X GoodFiles}
    \cup {<<raw, r, z, <<"0">>, FileText("default", "jpg")>> :
            <<raw, r, z>> \in RawB \X GoodRegions \X {<<"max">>, <<",", "3">>, <<"!", "4", ",", "4">>}}
    \cup {Plainest(raw) : raw \in Raws}
    \cup UNION {{[Plainest(A) EXCEPT ![2] = s] : s \in BadRegions},
                {[Plainest(A) EXCEPT ![3] = s] : s \in BadSizes},
                {[Plainest(A) EXCEPT ![4] = s] : s \in BadRotations},
                {[Plainest(A) EXCEPT ![5] = s] : s \in BadFiles}}

Targets ==
  {Target(v, path) : v \in {"v2", "v3"}, path \in Images}
    \cup {Target(v, <<raw>>) : v \in {"v2", "v3"}, raw \in Raws}
    \cup {Target(v, <<raw, <<"info.json">>>>) : v \in {"v2", "v3"}, raw \in Raws}
    \cup {Target("v3", <<A, <<"full">>>>), Target("v2", Tail(Plainest(A))), Target("other", <<>>),
          Target("healthz", <<>>), Target("healthz", <<A>>), Target("metrics", <<>>)}

MCFirstRequests ==
  {Get(at, {}) : at \in Targets}
    \cup {Get(at, {AnyTag}) : at \in {Target("v3", Plainest(A)), Target("v2", <<A, <<"info.json">>>>)}}
    \cup [method : {"HEAD", "OPTIONS", "POST"}, noneMatch : {{}},
          at : {Target("v3", Plainest(A)), Target("v3", <<A>>), Target("v3", <<A, <<"info.json">>>>)}]

MCSpellings == GoodRegions \X {<<"max">>, <<"^", "max">>, <<"2", ",", "2">>, <<",", "3">>}
=============================================================================
