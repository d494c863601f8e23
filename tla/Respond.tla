------------------------------- MODULE Respond -----------------------------
(***************************************************************************)
(* What a client is told: App::handle_inner of crates/server/src/app.rs    *)
(* from the request line to the headers of the answer, over the grammar    *)
(* and the evaluation.  The handler keeps no state of its own, so a        *)
(* behaviour is a conversation: requests of one client, each answered in   *)
(* full, later ones made from what earlier answers said - a redirect, a    *)
(* canonical link, a tag, an advertised size.  In between, masters may be  *)
(* replaced.  What concurrent requests do to each other is in DecodePool   *)
(* and Revalidate.                                                         *)
(***************************************************************************)
EXTENDS Plan, Grammar

CONSTANTS Masters,        (* identifier -> master, as first published        *)
          Replacements,   (* the masters that may take their place           *)
          Limits,         (* the deployment's limits, a record [w, h, area]  *)
          MaxSide,        (* u16::MAX, the longest side a jpg can have       *)
          FirstRequests,  (* what a client may open a conversation with      *)
          Spellings,      (* segments <<region, size>> to ask again with     *)
          MaxExchanges,   (* bound: requests in a conversation               *)
          MaxVersion      (* bound: versions of a master                     *)

(* A length in pixels, any u32 but zero: up to there numbers are readable. *)
Side == {n \in Nat \ {0} : \A k \in 0..n : Readable(k)}

Level == [w : Side, h : Side, factor : Nat \ {0}]

(* No level is larger than the image: open() refuses it.  Tiles, where     *)
(* there are any, have pixels: the decoders refuse those that have none.   *)
Master ==
  {m \in [opens : {"yes", "unsupported", "corrupt", "limit"}, version : Nat \ {0},
          w : Side, h : Side, tile : [w : Nat, h : Nat], levels : Seq(Level)] :
     /\ \A i \in DOMAIN m.levels : m.levels[i].w <= m.w /\ m.levels[i].h <= m.h
     /\ m.tile.w = 0 <=> m.tile.h = 0}

Address == [prefix : STRING, path : Seq(Seq(STRING))]

(* A request line and the tags of its If-None-Match, see ETag.             *)
Request ==
  [method : STRING, at : Address,
   noneMatch : SUBSET [id : Seq(STRING), version : Nat, path : Seq(Seq(STRING))]]

ASSUME RespondAssumption ==
  /\ {Limits.w, Limits.h} \subseteq Side
  /\ {Limits.area, MaxSide, MaxExchanges, MaxVersion} \subseteq Nat \ {0}
  /\ Masters \in [DOMAIN Masters -> Master] /\ Replacements \subseteq Master
  /\ FirstRequests \subseteq Request
  /\ Spellings \subseteq Seq(STRING) \X Seq(STRING)

VARIABLES masters,  (* identifier -> master, in the root                      *)
          asked,    (* the request under way, or Nothing                      *)
          history   (* the exchanges so far: request, fault, answer, and the  *)
                    (* masters as they were then                              *)

vars == <<masters, asked, history>>

(* What may befall one request: the source fails, the admission has no     *)
(* place left, the blocking task panics, decoding or encoding fails.       *)
Faults == {"none", "io", "full", "panic", "pipeline"}

----------------------------------------------------------------------------
(* Route::of.                                                              *)
Route(prefix, path) ==
  CASE prefix = "healthz" /\ path = <<>> -> "health"
    [] prefix = "metrics" /\ path = <<>> -> "metrics"
    [] prefix \in {"v2", "v3"} /\ Len(path) = 1 /\ path[1] # <<>> -> "redirect"
    [] prefix \in {"v2", "v3"} /\ Len(path) = 2 /\ path[2] = <<"info.json">> -> "info"
    [] prefix \in {"v2", "v3"} /\ Len(path) = 5 -> "image"
    [] OTHER -> "none"

NoTag == [id |-> <<>>, version |-> 0, path |-> <<>>]

(* If-None-Match: *.                                                       *)
AnyTag == [NoTag EXCEPT !.id = <<"*">>]

NoBody == [kind |-> "none"]

Message == [kind |-> "message"]

Nowhere == [prefix |-> "none", path |-> <<>>]

(* An answer with no headers of its own: error() and its like.             *)
Bare(status) ==
  [status |-> status, body |-> Message, cors |-> FALSE, allow |-> FALSE, retryAfter |-> FALSE,
   vary |-> FALSE, location |-> Nowhere, canonical |-> Nowhere, tag |-> NoTag]

(* From here on, root stands for the masters as they are.                  *)
(* etag_for, of all that its hashers see except the binary's version.      *)
ETag(root, id, path) == [id |-> id, version |-> root[id].version, path |-> path]

(* if_none_match_hits: a lone `*`, or one of the tags listed, weak or not. *)
Hits(request, tag) == request.noneMatch = {AnyTag} \/ tag \in request.noneMatch

NotModified(tag) == [Bare(304) EXCEPT !.tag = tag, !.body = NoBody]

(* codec_error: a resource ceiling is 403, all else the operator's fault.  *)
CodecError(master) == Bare(IF master.opens = "limit" THEN 403 ELSE 500)

The(set) == CHOOSE x \in set : TRUE

----------------------------------------------------------------------------
CeilDiv(n, d) == (n + d - 1) \div d

(* Masters as the codecs describe them once opened: a pyramid by the levels *)
(* it holds, records [w, h, factor], a JPEG 2000 by its wavelet ladder, a  *)
(* JPEG or PNG by its one size and no tiles.                               *)
PyramidMaster(tile, levels) ==
  [opens |-> "yes", version |-> 1, w |-> levels[1].w, h |-> levels[1].h,
   tile |-> tile, levels |-> levels]

WaveletMaster(w, h, tile, count) ==
  PyramidMaster(tile, [i \in 1..count |-> [w |-> CeilDiv(w, 2^(i - 1)), h |-> CeilDiv(h, 2^(i - 1)),
                                           factor |-> 2^(i - 1)]])

NoTile == [w |-> 0, h |-> 0]

SimpleMaster(w, h) == PyramidMaster(NoTile, <<[w |-> w, h |-> h, factor |-> 1]>>)

(* A bug: width and height are swapped.                                    *)
SizesSwapped(master) == {[w |-> level.h, h |-> level.w] : level \in ToSet(master.levels)}

(* The sizes and scale factors of describe().                              *)
LevelSizes(master) == {[w |-> level.w, h |-> level.h] : level \in ToSet(master.levels)}

ScaleFactors(master) == {level.factor : level \in ToSet(master.levels)}

(* Info::new and v2::info_json.                                            *)
Document(root, version, id) ==
  [kind |-> "info", at |-> [prefix |-> version, path |-> <<Encode(id)>>],
   of |-> root[id].version, w |-> root[id].w, h |-> root[id].h,
   limits |-> Limits, sizes |-> LevelSizes(root[id]),
   tile |-> root[id].tile, factors |-> ScaleFactors(root[id])]

(* App::info_json.  A hit answers before the master is opened.             *)
InfoJson(root, version, raw, request, fault) ==
  IF Decode(raw) = {} THEN Bare(404)
  ELSE LET id == The(Decode(raw))
           tag == ETag(root, id, <<<<version>>, <<"info.json">>>>)
       IN  IF fault = "io" THEN Bare(500)
           ELSE IF id \notin DOMAIN root THEN Bare(404)
           ELSE IF Hits(request, tag) THEN NotModified(tag)
           ELSE IF fault = "panic" THEN Bare(500)
           ELSE IF root[id].opens # "yes" THEN CodecError(root[id])
           ELSE [Bare(200) EXCEPT !.body = Document(root, version, id), !.vary = TRUE, !.tag = tag]

----------------------------------------------------------------------------
(* evaluate() of the rotation: a full turn is none.                        *)
Upright(degrees) == degrees % 36000

(* The plan is bound, so that it is evaluated once.                        *)
PlanFor(q, master) ==
  The({IF ~plan.ok THEN plan
       ELSE [ok |-> TRUE, crop |-> plan.crop, w |-> plan.w, h |-> plan.h,
             upscales |-> plan.upscales, wasMax |-> plan.wasMax,
             mirror |-> q.rotation.mirror, degrees |-> Upright(q.rotation.degrees),
             quality |-> q.quality, format |-> q.format] :
       plan \in {Evaluate(q.region, q.size, master, Limits, {})}})

CanonicalPath(version, plan, q, master) ==
  <<RegionText(CanonicalRegion(plan, master)),
    IF version = "v3" THEN SizeText(CanonicalSize(plan))
                      ELSE SizeTextV2(CanonicalV2Size(plan, master, q.size)),
    RotationText(plan), FileText(plan.quality, plan.format)>>

(* EncodeError::DimensionsBeyondFormat, of an image turned by quarters.    *)
BeyondFormat(plan) ==
  plan.format \in {"jpg", "gif", "pdf"} /\ Max({plan.w, plan.h}) > MaxSide

(* What the blocking task answers once the plan is made.                   *)
Rendered(root, version, id, q, plan, request, fault) ==
  LET path == CanonicalPath(version, plan, q, root[id])
      tag == ETag(root, id, path)
  IN  IF ~plan.ok THEN Bare(400)
      ELSE IF Hits(request, tag) THEN NotModified(tag)
      ELSE IF fault = "pipeline" THEN Bare(500)
      ELSE IF BeyondFormat(plan) THEN Bare(400)
      ELSE [Bare(200) EXCEPT
              !.body = [kind |-> "image", id |-> id, of |-> root[id].version, plan |-> plan],
              !.canonical = [prefix |-> version, path |-> <<Encode(id)>> \o path],
              !.tag = tag]

(* The blocking task of App::image, from open_master to pipeline::execute. *)
Derive(root, version, id, q, request, fault) ==
  IF root[id].opens # "yes" THEN CodecError(root[id])
  ELSE Rendered(root, version, id, q, PlanFor(q, root[id]), request, fault)

(* App::image: the first thing that is wrong decides the status.           *)
Image(root, version, raw, segments, request, fault) ==
  LET readings == ParseRequest(version, segments)
  IN  IF Decode(raw) = {} THEN Bare(404)
      ELSE IF readings = {} THEN Bare(400)
      ELSE IF fault = "io" THEN Bare(500)
      ELSE IF The(Decode(raw)) \notin DOMAIN root THEN Bare(404)
      ELSE IF fault = "full" THEN [Bare(503) EXCEPT !.retryAfter = TRUE]
      ELSE IF fault = "panic" THEN Bare(500)
      ELSE Derive(root, version, The(Decode(raw)), The(readings), request, fault)

(* A bare identifier: 303 to its info.json, whether or not it exists.      *)
Redirect(version, raw) ==
  IF Decode(raw) = {} THEN Bare(404)
  ELSE [Bare(303) EXCEPT
          !.location = [prefix |-> version, path |-> <<Encode(The(Decode(raw))), <<"info.json">>>>],
          !.body = NoBody]

Routed(root, request, fault) ==
  LET version == request.at.prefix
      path == request.at.path
      route == Route(version, path)
  IN  CASE route = "redirect" -> Redirect(version, path[1])
        [] route = "info"     -> InfoJson(root, version, path[1], request, fault)
        [] route = "image"    -> Image(root, version, path[1], Tail(path), request, fault)
        [] route \in {"health", "metrics"} -> Bare(200)
        [] route = "none"     -> Bare(404)

(* App::handle_inner.  A 405 returns before the CORS headers are added.    *)
Handle(root, request, fault) ==
  IF request.method = "OPTIONS"
  THEN [Bare(204) EXCEPT !.cors = TRUE, !.allow = TRUE, !.body = NoBody]
  ELSE IF request.method \notin {"GET", "HEAD"} THEN Bare(405)
  ELSE LET answer == Routed(root, request, fault)
       IN  [answer EXCEPT !.cors = TRUE,
                          !.body = IF request.method = "HEAD" THEN NoBody ELSE @]

----------------------------------------------------------------------------
Get(at, noneMatch) == [method |-> "GET", at |-> at, noneMatch |-> noneMatch]

Nothing == [method |-> "none", at |-> Nowhere, noneMatch |-> {}]

Ask(request) == /\ asked = Nothing
                /\ Len(history) < MaxExchanges
                /\ asked' = request
                /\ UNCHANGED <<masters, history>>

(* The request is answered in full.                                        *)
Exchange ==
  /\ asked # Nothing
  /\ \E fault \in Faults :
       history' = Append(history, [request |-> asked, fault |-> fault, seen |-> masters,
                                   answer |-> Handle(masters, asked, fault)])
  /\ asked' = Nothing
  /\ UNCHANGED masters

Begin == history = <<>> /\ \E request \in FirstRequests : Ask(request)

Latest == Last(history)

Retry == history # <<>> /\ Ask(Latest.request)

(* The client follows a 303.                                               *)
FollowRedirect == /\ history # <<>> /\ Latest.answer.status = 303
                  /\ Ask(Get(Latest.answer.location, {}))

(* It asks for the canonical link, or checks its copy against it.          *)
FollowCanonical == /\ history # <<>> /\ Latest.answer.canonical # Nowhere
                   /\ \E tags \in {{}, {Latest.answer.tag}} :
                        Ask(Get(Latest.answer.canonical, tags))

(* It checks its copy against another spelling: of region and size, of the *)
(* rotation, of the file, in the other version of the API.                 *)
Respelled(at) ==
  {[at EXCEPT !.path = <<@[1]>> \o spelling \o <<@[4], @[5]>>] : spelling \in Spellings}
    \cup {[at EXCEPT !.path[4] = turned] : turned \in {<<"0">>, <<"360">>, <<"!", "0">>}}
    \cup {[at EXCEPT !.path[5] = FileText("color", "png")],
          [at EXCEPT !.prefix = IF @ = "v2" THEN "v3" ELSE "v2"]}

Respell == /\ history # <<>> /\ Latest.answer.body.kind = "image"
           /\ \E at \in Respelled(Latest.request.at) : Ask(Get(at, {Latest.answer.tag}))

(* What a viewer asks for after reading an info.json: a size it lists, or  *)
(* one of its tiles at one of its scale factors.                           *)
TileAt(doc, f, x, y) ==
  LET w == Min({doc.tile.w * f, doc.w - x})
      h == Min({doc.tile.h * f, doc.h - y})
  IN  <<RegionText([kind |-> "pixels", x |-> x, y |-> y, w |-> w, h |-> h]),
        Written2(CeilDiv(w, f), CeilDiv(h, f))>>

Starts(side, tile) == {p \in 0..(side - 1) : p % tile = 0}

TileRequests(doc) ==
  UNION {{TileAt(doc, f, x, y) :
            x \in Starts(doc.w, doc.tile.w * f), y \in Starts(doc.h, doc.tile.h * f)} :
         f \in doc.factors}

SizeRequests(doc) == {<<<<"full">>, Written2(z.w, z.h)>> : z \in doc.sizes}

Advertised(doc) ==
  {[doc.at EXCEPT !.path = @ \o wanted \o <<<<"0">>, FileText("default", "png")>>] :
     wanted \in SizeRequests(doc) \cup IF doc.tile = NoTile THEN {} ELSE TileRequests(doc)}

View == /\ history # <<>> /\ Latest.answer.body.kind = "info"
        /\ \E at \in Advertised(Latest.answer.body) : Ask(Get(at, {}))

(* Another master is published under the same identifier.                  *)
Replace == \E id \in DOMAIN masters, master \in Replacements :
             /\ masters[id].version < MaxVersion
             /\ masters' = [masters EXCEPT ![id] = [master EXCEPT !.version = masters[id].version + 1]]
             /\ history # <<>> /\ Len(history) < MaxExchanges
             /\ UNCHANGED <<asked, history>>

Init == /\ masters = Masters
        /\ asked = Nothing
        /\ history = <<>>

Next == \/ Begin \/ Retry \/ FollowRedirect \/ FollowCanonical \/ Respell \/ View
        \/ Exchange \/ Replace

Spec == Init /\ [][Next]_vars

----------------------------------------------------------------------------
(* Two exchanges, the later with nothing gone wrong and the root unchanged *)
(* since the earlier.                                                      *)
Later(i, j) ==
  /\ i < j
  /\ history[j].fault = "none"
  /\ history[i].seen = history[j].seen

(* A 303 leads to the info.json of the very identifier that was asked for, *)
(* in the same version of the API, however its characters were escaped:    *)
(* what encoded() writes, decode() reads back.                             *)
RedirectReachesInfo ==
  \A i, j \in DOMAIN history :
    /\ i < j
    /\ history[i].answer.status = 303
    /\ history[j].request.at = history[i].answer.location
    => LET from == history[i].request.at
           to == history[j].request.at
       IN  /\ Route(to.prefix, to.path) = "info"
           /\ to.prefix = from.prefix
           /\ Decode(to.path[1]) = Decode(from.path[1])

(* The canonical link of a v3 image leads to the same image, under the     *)
(* same tag and with itself as the canonical link; a client that sends the *)
(* tag along has its copy confirmed, one that sends another one has not.   *)
CanonicalLinkIsSame ==
  \A i, j \in DOMAIN history :
    LET first == history[i].answer
        again == history[j].answer
        wanted == history[j].request
    IN  /\ Later(i, j)
        /\ first.canonical # Nowhere /\ first.canonical.prefix = "v3"
        /\ first.body.kind = "image"
        /\ wanted.method = "GET" /\ wanted.at = first.canonical
        => /\ again.tag = first.tag
           /\ IF Hits(wanted, first.tag)
              THEN again.status = 304
              ELSE /\ again.status = 200
                   /\ again.body = first.body
                   /\ again.canonical = first.canonical

(* An answer brings the same copy as an earlier one.                       *)
SameCopy(first, again) == again.status = 200 /\ again.body = first.body

(* A copy is confirmed only where asking afresh would bring the same copy: *)
(* a 304 to a tag that came with a 200 stands for a 200 with that body.    *)
(* Tags of v2 images whose canonical size is `w,` are excepted, see        *)
(* CanonicalV2IsFixpoint.                                                  *)
NotModifiedStandsForOk ==
  \A i, j \in DOMAIN history :
    LET first == history[i].answer
    IN  /\ Later(i, j)
        /\ first.body.kind \in {"image", "info"}
        /\ history[j].request.noneMatch = {first.tag}
        /\ history[j].request.method = "GET"
        /\ history[j].answer.status = 304
        /\ ~(first.body.kind = "image" /\ Last(first.tag.path[2]) = ",")
        => SameCopy(first, Handle(history[j].seen, [history[j].request EXCEPT !.noneMatch = {}], "none"))

(* The sizes and tiles an info.json lists can be had: within the limits it *)
(* publishes, every one is answered by an image of exactly that size.      *)
AdvertisedIsServed ==
  \A i, j \in DOMAIN history :
    LET doc == history[i].answer.body
        wanted == history[j].request
    IN  /\ Later(i, j)
        /\ doc.kind = "info"
        /\ wanted.method = "GET" /\ wanted.noneMatch = {}
        /\ wanted.at \in Advertised(doc)
        => LET w == IntegerOf[wanted.at.path[3][1]]
               h == IntegerOf[wanted.at.path[3][3]]
           IN  w <= doc.limits.w /\ h <= doc.limits.h /\ w * h <= doc.limits.area =>
                 /\ history[j].answer.status = 200
                 /\ history[j].answer.body.plan.w = w
                 /\ history[j].answer.body.plan.h = h
=============================================================================
