# Verification of iiif-server

TLA+ models of `iiif-server`, a read-only IIIF Image API server in Rust
(`crates/core`, `crates/sources`, `crates/server`): what TLC checks on small
instances and what TLAPS proves for all of them. `PROJECT.json` maps every
definition to the lines it stands for and lists runs, hazards, findings and
theorems. Paths below are relative to the repository.

## 1. The system

| Component | State | Operations | Correct when |
|---|---|---|---|
| Decode pool (`server/src/app.rs`, `image`, `info_json`) | two tokio semaphores: `admission` (workers + queue) and `decode_permits` (workers); a handler future and a blocking task per request | try-acquire, queue, spawn, join, answer; being dropped at any await | no permit lost or doubled; 503 only when full; first come first served; nobody starves; `--workers` bounds decoding |
| Accept loop and shutdown (`server/src/main.rs`, `serve`, `main`) | listener, a task per connection, `watch` and `mpsc` channels, the runtime | accept, stop, notice, drain, time out, drop the runtime | a clean drain dropped nobody; shutdown ends, in bounded time |
| Evaluation (`core/src/eval.rs`, `v2.rs`) | none | `evaluate`, `canonical_path` | crop inside the image, limits kept, no upscale unasked, canonical URL stands for the same image |
| Conditional requests (`app.rs`, `sources/src/lib.rs`) | none of its own: files or objects, and caches downstream | resolve, ETag, 304 or 200 | one ETag, one document; 304 only for a current copy; no mixed versions |
| Pyramids (`core/src/codec.rs`, `codec/jp2.rs`, `image.rs`) | levels, `current_ifd`, the decoder's position, the raster | open, choose a level, map the crop, copy tiles | the pixels returned are those of the crop, from the right level |
| Sources (`sources/src/lib.rs`) | open handle and stat, or the fetched object | `resolve`, `source_version` | stays inside the root; version tells contents apart |
| Pipeline, rasters, encoders (`pipeline.rs`, `image.rs`, `encode.rs`) | none | resample, recolour, mirror, rotate, flatten, encode | every pixel where the geometry says; no colour out of nothing; opaque formats get no alpha |
| Baseline masters (`codec/simple.rs`) | the whole raster | decode once, copy crops | as pyramids, with one level |
| Grammar, identifiers, documents (`grammar.rs`, `ident.rs`, `info.rs`) | none | parse, decode, print | round trips; refuses what the spec refuses |
| Routing, CORS, statuses (`app.rs`) | none | `handle`, `Route::of` | every answer has its status and headers |
| Metrics (`metrics.rs`) | relaxed atomic counters; gauges made of the two semaphores | `observe`, `render` | counts never go back; each request counted once; the gauges tell who queues |
| Command line (`main.rs`: `check`, `healthcheck`) | none | one-shot | - |

How they interact. A connection task calls `App::handle`; the handler resolves
the source, passes the two semaphores and moves both permits into a
`spawn_blocking` closure, which opens the master, evaluates the request,
compares ETags, decodes through the pyramid, resamples and encodes. Handlers
share nothing but the semaphores and the metrics. hyper drops a handler when
its client goes; the closure it spawned runs on. Shutdown reaches connection
tasks through the `watch` channel, and their `mpsc` senders dropping tell
`serve` that the last one is over; the blocking tasks are in neither.

What is hard: a handler dropped at any await while permits are being handed
over (pool); a stop that races connections being accepted, half-sent requests
and running decodes (shutdown); masters edited while requests, caches and
restarts overlap (conditional requests); rounding at the edges of images,
limits and levels (evaluation, pyramids); one decoder moved between IFDs;
and spellings: escapes within escapes, and requests that mean the same image
written in several ways, by which tags, links and documents lead a client from
one answer to another request (grammar, routing).
`PROJECT.json` lists each as a hazard with the property that watches it, or
the reason why none does.

## 2. Modules

| Module | Models | Variables and the code they stand for |
|---|---|---|
| `BoundedPool` | the promise of the pool: W executing, Q more waiting, refused only when full | `waiting`, `executing`, `rejected`: sets of requests |
| `DecodePool` | `App::image` and `App::info_json` around the semaphores, and the gauges of `/metrics` | `pc`: the await a handler is at; `task`: its closure; `admission`, `decode`: available permits; `waiters`, `granted`: tokio's queue of `Acquire` futures and those handed a permit they have not seen; `parallel`: what `set_internal_parallelism` was told; `status`: the last answer |
| `Serve` | `serve()` and the end of `main()` | `server`: how far they are; `conn`, `req`, `work`: a connection task, its request, the request's blocking task; `cut`, `drained`: whom the drop of the runtime cut off, and how the drain ended |
| `Plan` | `evaluate`, `resolve_region`, `resolve_size`, both `canonical_path`s: operators only | - |
| `Eval` | one evaluation, for the questions about `Plan` | the inputs, `slip` (see below) and the `outcome` |
| `Grammar` | parsing and printing of segments, v2 sizes, `Identifier::decode` and `encoded`: operators only | - |
| `Respond` | `handle_inner` of every method and route, over `Plan` and `Grammar` | `masters`: the root; `asked`: the request under way; `history`: the conversation of one client so far, each exchange with what went wrong in it |
| `Revalidate` | ETag and 304 over one master | `files`, `path`: inodes or objects, and the one named; `pending`: handlers; `cache`: a client's; `answers`: all so far; `limits`, `binary`: this process; `overwritten`: history, versions of files since written over in place |
| `Pyramid` | TIFF pyramid, JP2 levels, masters held whole | `current`, `at`: where the program thinks the decoder is, and where it is; `level`, `region`, `tile`, `out`: the decode under way |
| `Raster` | `execute()` after the resampler, up to what each encoder is given | `image`: the flat buffer at hand; `stage`, `plan`; `resized`, `upright`, `turned`: that buffer at earlier stages, for the properties |
| `Metrics` | `App::handle`, `observe`, `render` | `counters`: the atomics; `handler`, `todo`, `latency`: what each handler does and has still to add; `start`, `seconds`, `rest`, `overlap`: the scrape under way; `shown`: the last one finished; `answers`: how many there were |
| `MC*` | finite constants and symmetry | - |
| `DecodePoolProofs`, `ServeProofs`, `RevalidateProofs`, `PyramidProofs`, `RasterProofs`, `MetricsProofs` | theorems of the module they are named for | - |
| `RequestProofs` | theorems of `Eval` and of `Respond`, whose proofs share the lemmas on `Plan` | - |
| `Extrema` | lemmas on quotients, least and greatest elements and sums over finite sets that the proofs share | - |

How they compose. `DecodePool` implements `BoundedPool`. `Eval` and `Respond`
both extend `Plan`: the first asks about one evaluation under every rounding,
the second puts it behind the parser and in front of tags, links and documents.
`Respond` takes one request at a time, because what concurrent handlers do to
each other passes only through the semaphores (`DecodePool`), the files
(`Revalidate`) and the counters (`Metrics`).

One action stands for the code between two points where others can act.
`DecodePool` splits a handler at its awaits and where a permit changes hands:
`FinishWork` and `FreePermit` are two steps because the closure's locals drop in
reverse order, `_admission` before `_permit`, on success, on `?` and on panic
alike (the profile unwinds; the join error becomes a 500). `DropQueued` and
`DropGranted` are the two ways a queued `Acquire` can be dropped. Both go to
`leave`, because the handler's `admission` local drops after the future. The
gauges are two loads of one handler; `GaugesTell` compares the first in one
state with the second in that state or the next, so that one step of another
handler may fall between them.

External, modelled from how the code uses it: tokio's FIFO semaphore, which
gives a released permit to its oldest waiter and takes a granted permit back
when that waiter is dropped; hyper's dropping of handlers and its graceful
shutdown, which closes idle and fresh connections at once and others after
their request; `spawn_blocking`, detached when its handle drops; the drop of a
runtime, which discards queued blocking tasks and waits for running ones; the
`tiff` crate's clipping of edge tiles; file systems and object stores; clients,
caches and viewers.

`Plan` computes with exact quotients. The code uses `f64`, which never moves a
non-tie to another integer at these sizes but may round an exact tie down, and
may floor an exact whole to one less (`15.0 / 22.0 * 22.0` floors to 14). `slip`
allows either in either dimension, and every property of `Eval` holds with it.

`Grammar` reads sequences of lexemes: a numeral is one lexeme, with what
`parse_u32` and `parse_f64` make of it given by tables, and so `10`, `010` and
`12.50` are spelled apart and read alike. A malformed segment has no reading.
Identifiers are kept character by character where escapes are, because
decoding once and encoding again is what they can go wrong in.

`Pyramid` does not carry samples: a pixel is the IFD and place it came from, so
that a seam, a shift and a tile of the wrong level all differ from what should
be there. Masters held whole are its third kind: `FitsResident` is the guard that
refuses large ones. A decode that fails (a bad tile, a short read) forgets its
raster and leaves the decoder where it stood, for the next decode to find. A tile is
asked for by its index over the whole level (`TileIndex`), and `Chunk` is what the
`tiff` crate makes of an index in the IFD where the decoder stands: that
`tiles_across` counts the clipped column too is what `StitchedExactly`'s mutant takes
away.

`Raster` starts with any raster the resampler may return and keeps the flat,
row-major buffers, because index arithmetic is what can go wrong in them; its
properties are stated over coordinates. Angles are those of Pythagorean triples, so
that arithmetic stays exact.

`Metrics` adds to the counters in the order of the code. A scrape's loads may each
take place at any time between its begin and its end, so `shown` keeps the least and
the most that each breakdown can have been; only the two loads of the latency sum,
which are of one atomic, are steps (`LoadSeconds`, `LoadRest`), and others, that of the
count among them, may follow them. Relaxed loads may in theory be older than the
scrape; that is left out. One scrape at a time is modelled.

## 3. Runs

Every passing run is complete: TLC exhausts its state space.

| Run | Instance | Question |
|---|---|---|
| `pool` | 4 slots, W=2, Q=1, fair | permits conserved, no ghost in the queue, nobody forgotten by it, no idle permit beside waiters, a full pool has a serial decode, no overtaking, implements `BoundedPool`, the gauges are off by no more than the permits on the move; admitted requests move on, every task is reaped |
| `pool_info_decodes` | 3 slots, W=1 | finding: info.json opens masters beyond `--workers` |
| `serve_shutdown` | 3 connections, fair | a clean drain cut nobody; a signalled server exits |
| `eval` | 9 images, 4 limit sets, 42 regions, 46 sizes, 4 slips, v2 and v3 | crop, upscale, box, max and canonical form |
| `eval_v2_canonical` | same, no slip | finding: a v2 canonical URL that stands for another image |
| `respond` | 4 masters and a replacement, 17 identifiers, 132 images asked for in both versions, every malformed segment, conversations of 2 requests | a 303 reaches the info.json of the same identifier; the canonical link is the same image under the same tag; a 304 stands for the 200 it saves; what an info.json lists is served |
| `revalidate` | 2 requests for an image, 3 contents (two of one length), the first master and two edits of it (by rename with any stamp, in place, or as an object), 2 seconds, 2 binaries, both roots, 3 answers | strong ETag and answers that show the version they resolved, wherever the version tells its master |
| `etag_relimit` | info.json and images of size max, two limit settings | finding: new limits under the old ETag |
| `pyramid` | six TIFFs reduced by 2, 3, 4 and by 8 to 5 to 4, one JP2, a multi-page and a striped TIFF, masters held whole; every crop and width | region inside its level, stitched exactly from tiles read by index, enough detail, advertised tiles native |
| `pyramid_thin` | a 5x9 master halved | finding: rows lost at the bottom |
| `raster` | gray and RGB up to 3x3 with distinct samples, all 2x2 of four greys; 3 qualities, mirror, 5 quarter turns, 4 tilts, 7 formats | every pixel where it belongs, canvas just large enough, sampling symmetric, no colour invented, corners white |
| `metrics` | 3 slots, 3 answers, symmetric | each answer counted once in each breakdown, scrapes balance up to what overlapped them, counters never go back, and the latency sum by less than a second |

Why the bounds are enough. The pool needs a slot in each role at once: two
executing, one of them with its client gone, one queued, one refused; four give
that for W=2, Q=1, and W=2 is the least where `pool_idle` can be stale. Two requests
queue for a permit, so that order matters, while a closure has dropped its admission
and not yet its permit. In `Serve` three connections hold the three cases the drain
meets (idle, in flight, abandoned with work running). The `eval` limits sit above every
image, bind by a side, bind by area, and are too small for thin images; the
regions and sizes put each branch on both sides of its condition.
A conversation of two is the least in which one answer leads to a request, and
`Retry`, `FollowCanonical` and `Respell` make of the second whatever the properties
compare with the first; the two masters that open have levels that round up, sizes
past `MaxSide` = 11 and past the limits 12x8 and 60 pixels.
`revalidate` needs two writes after the first and one restart between
overlapping requests: `MaxFiles` = 3 counts files and versions written over, and three
answers (`MaxAnswers`) are a 200, the 304 or 200 that should agree with it, and one of
another version in between. The pyramids have odd sizes halved both ways (the odd
pixel dropped or kept), tiles that do not divide them, two levels of one factor,
and a last level smaller than a tile. For `raster`, 3 is the least side
with a middle and two edges, 3x2 tells rows from columns, and `MaxSide` = 4 stands
for `u16::MAX` so that a tilt can pass it. `metrics` needs two requests to overlap
one scrape, and two scrapes to overlap one request. Slots, connections, requests,
`MaxClock`, `MaxFiles`, `MaxVersion`, `MaxExchanges`, `MaxResident`, `MaxSide` and
`MaxAnswers` are the only caps; slots and connections are reused, so that only the
histories of `metrics`, `respond` and `revalidate` are bounded.

What the passing runs leave out. `StrongETag` and `AnswerIsTheResolvedVersion` except
the tags whose source version does not tell its master (`Tells`): two local masters
stamped in one second with one length, or a file written in place under its readers.
The run makes such versions, since a rename may bring any stamp along and a file may be
written in place, and both properties fail in it without the exception. The code
accepts as much: the version of a local master is its `mtime` in whole seconds and its
length (`sources/src/lib.rs:86`), and `app.rs:86` calls a tag made of it "Cheap, correct,
no state". No document of the repository says how masters should be replaced. An
object store's own ETag tells contents apart without any exception. `revalidate` asks
for images that name their size, whose pixels no limit changes; `etag_relimit` is
what a change of limits does to the others. `pyramid` holds pyramids whose width ratio
rounds to the factor they were reduced by, or that do not halve but keep
`WidthHasDetail`; `pyramid_thin` is the other case. `NotModifiedStandsForOk` leaves out the tags that
`eval_v2_canonical` shows to stand for two images, and looks at tags that came with
a 200; what `If-None-Match: *` does is among the remarks of section 5.

Deadlock is checked for the pool. The other systems may really stop: the
process exits, the evaluation has answered, the raster is encoded, the master is
refused, the bounds on edits, exchanges and answers are reached.

### Fairness

`FairSpec` of `DecodePool`: weak fairness, per slot, of the handler's steps past
admission (a ready future is polled) and of the closure's steps (a blocking task
ends: decoding is bounded by the master). Nothing is assumed of clients, who need
neither come nor leave, nor of a source's answer (`Admit`, `OpenInfo`, `Shed` owe
nothing). `FairSpec` of `Serve`: the accept loop's `select!` takes branches in
random order and so does stop; the drain's timer fires; connection tasks are
polled; blocking work starts and ends. Clients and signals owe nothing: that is
why `ShutdownCompletes` needs `DRAIN_TIMEOUT`, and its mutant without it fails.
The other modules state no liveness: their steps owe nothing to anyone.

## 4. Proofs

All theorems are of the form `Spec => []Inv` or `Spec => [][A]_vars`, for every
value of the constants that the module's ASSUME allows.

**`DecodePoolProofs`**, for every finite set of slots, every `Workers >= 1`
(`parse_args` refuses 0) and every `QueueDepth` (`PoolAssumption`):
`TypeCorrect`, `PermitsAlwaysConserved`, `NeverGhostWaiters`, `WorkConserving`,
`NeverAllParallel`, `NobodyWaitsForNobody`, `ImageDecodesBounded`,
`NobodyOvertakes`, `GaugesAlwaysTell`, and `ImplementsBoundedPool`
(`Spec => PoolSpec`).
The inductive invariant is `IInv`: types; that a slot's task has its handler at
`join` or gone, and a handler at `join` its task (`TaskShape`); that queue and
grants name only handlers waiting there, once
(`NoGhostWaiters`); and conservation. None is inductive alone. Conservation counts
owners, so a release must know that the waiter it hands the permit to was not an
owner already, which is the queue's shape; the upper bounds in `TypeOK` follow
from conservation; and that a `Spawn` adds exactly one executing task needs
`TaskShape`. `GiveBack` is treated once, in lemmas that every releasing action
cites. Work conservation and `NeverAllParallel` are then invariants on top of
`IInv`. Work conservation has two parts that need each other: permits are out while
anyone queues, and whoever is suspended is in the queue or has been granted one. With
conservation they give `NobodyWaitsForNobody`: while a handler is suspended, some
handler or task has a permit and its own step is next, which is what is left of
`AdmittedMoveOn` when fairness is taken away. `ImageDecodesBounded` says that
opening for info.json is all that finding 4 is about. `NobodyOvertakes` goes by what a step does to the queue: leave it, lengthen
it behind, take out one, or take its head. `GaugesAlwaysTell` counts the owners kind
by kind (`CountPermits`) and that one step moves one decode permit at most. For the
refinement, the abstract guards are counted:
`Cardinality(Admitted) = Workers + QueueDepth` is `admission = 0` by conservation,
and `Cardinality(executing) < Workers` is the permit that `AcquireNow` found or
`Claim` was granted.

**`ServeProofs`**, for every set of connections: `SlotsConsistent`,
`CleanDrains`, `ExitLeavesNothing` and `ShutdownOnlyShrinks`. Nothing is cut while the runtime is up, it goes only after the drain
ended one way or the other, and a clean end means that no connection is left whose
answer could be cut. `ExitLeavesNothing`: whoever sees the process gone knows that it
was signalled, that the drain ended, and that work whose client had gone is over too.
`ShutdownOnlyShrinks` is an action property: after the stop a connection only goes
from open to closing to none, a closing one that is idle stays so, and no work
appears where no connection is. It is what is left of `ShutdownCompletes` without fairness.

**`RevalidateProofs`**: `ETagsAreStrong` and `AnswersAreResolved`, for any clients,
contents, clocks, binaries and any edits of the masters, under `LimitsStay`: requests
are for images that name their size, or the limits never change; without it
`etag_relimit` is the counterexample. Nothing is assumed of editors: stamps may repeat,
go back or be carried over, files may be written in place, and what a version then
fails to tell is excepted by `Tells` in the two properties, tag by tag. The invariant
says that every tag in a cache, a handler or an answer stands for one file as one
binary renders it under one setting of the limits, or its version is among those
written over (`Stands`). Edits only widen that (`FilesGoOn`: a file stays as it is, or
its old version is in `overwritten`), and `OneRendering` concludes where the version
tells. `TagsTellMasters` needs no hypothesis at all: whatever the limits do, two answers
under one tag that tells are of one content and one binary, so that finding 3 is about limits
alone. `ObjectVersionsTell` shows that behind an object store the exception is empty.
By `TypeCorrect`, however masters are edited, a handler past `resolve` holds a file that
exists and a cached tag names its kind, a version and a binary.

**`RequestProofs`**, of `Eval`: `CropsInside` and `SizesKept`, for images, limits and requests of
any size under `Parsed`: requests are what the grammar can yield, and images have
pixels. The invariant is that the outcome is `Evaluate` of the request. The work is
in lemmas on rounding: a nearest integer stays within a bound that the exact
quotient keeps, with or without a lost tie, so that the clamp at the end of
`resolve_size` never cuts what was named.

`MaxAsLargeAsAllowed` and `MaxRefusedOnlyIfThin` are about the same evaluation with
its three caps: the side limits are products, and the area limit is the integer root
of a quotient, whose lemmas (`RootExists`, `FitSideIs`, `FitSideBounds`) bound it from
both sides, a slip of `f64` included. The rest compares products of three naturals,
each named and ordered by `Times` and `Product` before the solver sees it. A refusal comes
from keeping the last pixel of the short side, never from rounding. For
`CanonicalLeadsBack` the plan's own size is asked for: its crop is that of the plan
(`CanonicalCrop`), and its size passes every check, because it passed them before
(`CanonicalExact`, `CanonicalMax`).

`CanonicalV2LeadsBackExactly` says in the place of the refuted `CanonicalV2IsFixpoint`
which v2 plans their canonical spelling leads back to: the whole image as `max`, and
plans whose height is the one `Round` makes of their width. Sizes that name a width
are always so; `,h`, `pct:`, `!w,h` and `max` of a region may not be. It is an
equivalence, so finding 2 is neither larger nor smaller than this.

**`RequestProofs`**, of `Respond`: `RedirectIsRight`, `CanonicalLinkIsRight`,
`NotModifiedIsRight` and `AdvertisedIsRight`, the four invariants of the run, for any
masters, limits, numerals and conversations. `RespondAssumption` asks of masters what
`open()` and the decoders see to: sides are lengths that can be written and read, no
level is larger than the image, and a tile has either both sides or none; of what
clients send, only its shape. `NumeralAssumption` asks that numerals are no words of the
grammar, that what is written is read back, and that 0 is written `0`.

The argument has four layers.

1. What is printed is read back: regions, sizes, rotations, files (`RegionBack`,
   `SizeBack`, `RotationBack`, `FileBack`), each by its shape; and identifiers of any
   length (`EncodedIsRead`). `Decode` works through a sequence by a recursive function
   and `Encode` flattens one, which no solver unfolds: `IsReader` and `IsFlattener` say
   what such a function is, step by step, two of a kind agree by an induction over the
   length that names a set of numbers, and encoding one character adds what decoding
   takes off.
2. A canonical path determines its plan (`SamePath`), whatever spelling and version of
   the API it came from: region, rotation and file each tell their part, and so does the
   size, but for the `w,` of v2. A v3 path is moreover read as a request with that plan
   (`CanonicalAgain`, on `CanonicalBack`).
3. The handlers answer in five ways: plain, by redirect, with a document, with an image,
   or a HEAD without its body (`HandleCases`); with nothing gone wrong a document or an
   image that can be had is answered so (`GetInfo`, `GetImage`). What an info.json lists
   is a region and a size that lie in the image (`AdvertisedIs`), hence planned as
   exactly that size (`OfferedImage`).
4. The inductive invariant `RespondIInv` says that the root holds masters, that what is
   asked for is a well-formed place, and that each exchange of the history is what `Handle`
   answers of the root it saw. That is what is needed of a history: the four properties
   speak of two exchanges, and follow from what each of them is. The work in its step is
   that every address an answer can give a client (a location, a link, a tile) or that a
   client spells anew is a place again (`HandleLeads`, `RespelledPlaced`, `AdvertisedIs`).

**`PyramidProofs`**: `TypeCorrect`, `RegionsInside` and `TilesFit`, for masters of
any size, tiling and number of levels, under `PowersOfTwo` (the recursion of `2 ^ k`,
which the provers do not have). The covering interval of a crop lies in the level
whatever the factor is, also for one that fits badly. For these three the invariant
of the tile loop is that all pixels of tiles before the present one, row by row, are
in place; and that the decoder stands where the program thinks, which a decode that
failed half way does not disturb. There a tile's index gives back its row and column
(`IndexTaken`), because no tile of a region lies beyond `TilesAcross`
(`ColumnBelowAcross`), and so the chunk that is read is the tile (`ChunkIsTile`).

`DetailForTheWidth` and `TilesAreNative` add `Chosen`: while a decode is under way,
level and region are what `level_for_scale` and `map_crop` made of the request.
Both need something of the master that `open()` does not check. `WidthsKept`: one more
column, times the rounded factor, would pass the master's width. All pyramids that
halve keep it, rounding either way; without it the first is false. Reduced from 12
to 5, the factor 2 is less than the ratio and the level may be a pixel short. A
directory of 6 columns under a master of 8 would count as factor 1 and be read as
full size. `TiledAlike`: all levels have the tile size of the first, which
is all that `describe` tells a viewer. The `pyramid` run's masters keep both. An
advertised tile then maps onto one tile exactly (`OneTile`), clipped or not, and
of two levels with one factor the later is chosen.

`WholeUnlessThin` proves what `pyramid_thin` refutes, under `ReducedNotThin`: every
level is the image reduced by some `d` on both axes, rounding either way, and at
least `2d - 1` columns wide. Then the width ratio rounds to `d` (`FactorFound`), and
the covering interval of the whole image, by `d` on both axes, is the whole level
(`WholeIsCovered`; `WholeLadder` for JP2, which needs no such thing). `ReducedKeepsWidths` shows that such pyramids
satisfy `WidthsKept` too.

**`RasterProofs`**: `QuartersExact`, `TypeCorrect`, `CanvasHolds`,
`NoColourFromNothing`, `CornersWhite` and `UpsideDown`, for rasters of any size and samples and
any rational angle that is not a quarter turn (`RasterAssumption`). Buffers are
turned into coordinates once (`SamplePlace`, `PlaceOfSample`: an index is a pixel and
a channel, and back); each rotation is then a statement on coordinates, and quarter
turns compose. The canvas is the ceiling of the span of the turned corners
(`SpanOfCorners`). A bilinear weight lies within 0 and 1 wherever the source point
falls, so that the blend lies between any bounds that all samples keep. For
`UpsideDown` the blend is written as two interpolations, along rows and then across
them (`BilinearIs`). One interpolation of a row reversed, at the point counted from
the other end, is that of the row (`LerpAcross`; a point on a sample, between two, and
past either end are its cases), and opposite canvas pixels have opposite source points
(`OppositePoint`).

**`MetricsProofs`**, for any finite number of handlers, families and buckets
(`MetricsAssumption`: every atomic has a name of its own): `TypeCorrect`,
`AnswersCounted`, `ScrapesAlwaysBalance` and `ScrapesGoForward`. What the properties say holds
when nobody is recording or as a scrape ends; the invariant `IInv` says what holds in
between. Each breakdown plus the requests that still owe it a counter is the number
of answers (`Accounted`), for which a request must owe each breakdown once, the class before
the overload (`Orderly`, the order of `observe()`); during a scrape, the answers are at
most what it began with plus those it overlapped (`ScrapeUnderWay`); from its first
load on, what was loaded of the sum is covered by it (`Halfway`, `Summed`); and what was last
shown is still covered by the counters (`LastScrape`), which makes the next scrape go
forward. Totals are sums over sets: `Extrema` proves of `SumFunctionOnSet` what is needed
(`SumAfterAdd`, `SumOfZeros`) by an induction over finite sets that names a set of numbers
instead of a predicate (`CountingUp`, `PickingOut`), because an operator parameter
cannot be instantiated here.

What stays with TLC:

- liveness and fairness (`AdmittedMoveOn`, `TasksReaped`, `ShutdownCompletes`), which
  the prover does not treat; what they rest on besides fairness is proved
  (`NobodyWaitsForNobody`, `ShutdownOnlyShrinks`);
- the findings, which are violations: `WholeUnlessThin`, `CanonicalV2LeadsBackExactly`,
  `ETagsAreStrong` and `ImageDecodesBounded` say how far each of the four goes.

Every other invariant and action property that a passing run checks is a theorem.

## 5. Findings

1. **Heights of thin pyramids** (`codec.rs:343`). The factor of a level is its
   rounded width ratio, used for both axes. A narrow master whose level width was
   rounded (300x10000 halved to 9x312: factor 33, not 32) loses rows at the bottom
   of every thumbnail. `pyramid_thin` shows it for 5x9. Levels at least twice as wide
   as their factor are safe (`WholeUnlessThin`).
2. **v2 canonical URLs** (`v2.rs:160`). `,3` of a 1x4 image is 1x3; its canonical
   `1,` is 1x4, and both carry one ETag.
3. **ETags and limits** (`app.rs:476`). The tag of info.json does not depend on the
   limits it publishes; nor does that of an image asked for as `max`, whose canonical
   spelling keeps the word.
4. **info.json** (`app.rs:484`) opens masters outside the decode pool.

Seen while modelling and left without a run, because no text of the repository
says otherwise, or because the run would only repeat one line of the code:

- a 405 returns before `add_cors` (`app.rs:379`, against the comment at 775) and
  without an `Allow` header;
- `If-None-Match: *` is answered 304 for info.json before the master is opened, and
  for images before decoding, also where decoding or encoding would fail;
- the two media types of info.json share one ETag, and its 304 carries no `Vary`;
- the v2 canonical `w,` may be refused when the height it implies exceeds a limit
  that the image itself kept; `sizes` of info.json are not filtered by the limits, so
  `AdvertisedIsServed` speaks of those within them;
- `/metrics` loads the duration sum twice (`metrics.rs:193`): it can be off by up to a
  second, and so go back by less (`ScrapesNeverGoBack` bounds it);
- `encode_webp` keeps alpha, which the comment at `encode.rs:456` says only PNG does;
  a raster too large for WebP is a 500, too large for JPEG or GIF a 400;
- `check` skips directory entries it cannot read; `workers` plus `queue_depth` is not
  range-checked; objects are fetched whole before admission;
- after `DRAIN_TIMEOUT` the drop of the runtime waits for running blocking work
  (`DropRuntime`, `EndWork`);
- a bitonal image rotated by an angle has greys, as quality comes before rotation, and
  the canvas of such a rotation may exceed the published limits.

## 6. Not modelled

- The 512-thread limit of tokio's blocking pool (fairness assumes a started task);
  hyper's HTTP parsing; wording, media types and the JSON layout of answers.
- Pixel formats of TIFF samples (`raster_from_decoded`), the resampler and what the
  encoders write: numeric code of one call each, with the exactness of `f64` and of
  external crates at its heart. `Raster` and `Pyramid` begin and end at them.
- Which component a `ParseError` names (every one is the same 400), and the saturation
  of `f64` in the grammar, at numbers no image reaches.
- Collisions of `DefaultHasher`: a tag is the tuple it is hashed from.
- Path containment of `LocalRoot`, whose core is `canonicalize` of the file system, and
  `read_range`, which the server does not call.
- The command line (`check`, `healthcheck`, `version`): sequential, without state.
- Fuzz targets, scripts and benchmarks.
- `BeyondFormat` of `Respond` takes the size of quarter turns only; a tilted canvas is
  in `Raster`.

What could follow: `Respond` with concurrent handlers over `DecodePool`; pixel
formats as layouts in `Pyramid`, and JP2 and PDF containers as records of lengths
and offsets.
