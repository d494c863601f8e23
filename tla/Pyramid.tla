------------------------------ MODULE Pyramid ------------------------------
(***************************************************************************)
(* From a crop of the full image to pixels of one resolution level: the    *)
(* masters of crates/core/src/codec.rs, codec/jp2.rs and codec/simple.rs.  *)
(* A level is chosen for the downscale the plan needs, the crop is mapped  *)
(* into its coordinates, and a TIFF region is put together tile by tile    *)
(* through one decoder that has to be moved between IFDs.  A wavelet       *)
(* master decodes a region at once; a simple one is resident as a whole.   *)
(*                                                                         *)
(* A pixel is known by the IFD and the place it was read from.  The tiff   *)
(* crate, which clips edge tiles, and the wavelet decoder, which fills the *)
(* covering rectangle it is asked for, are external.                       *)
(***************************************************************************)
EXTENDS Integers, Sequences, FiniteSetsExt

CONSTANTS Masters,      (* records [kind, ifds]: "tiff", "jp2" or "simple", *)
                        (* and the IFDs or resolutions in order,            *)
                        (* [w, h, tw, th, tiled]                            *)
          MaxResident   (* MAX_RESIDENT_PIXELS                              *)

VARIABLES
  master,   (* the file being opened                                        *)
  phase,    (* "closed", "refused", "open", "copying", "decoded"            *)
  current,  (* current_ifd, where the program thinks the decoder stands     *)
  at,       (* where it stands                                              *)
  crop,     (* the plan's crop, in full-resolution pixels                   *)
  want,     (* the plan's output width                                      *)
  level,    (* the chosen level                                             *)
  region,   (* the crop in that level's pixels                              *)
  tile,     (* column and row of the next tile to copy                      *)
  out       (* the raster: where each of its pixels came from               *)

vars == <<master, phase, current, at, crop, want, level, region, tile, out>>

CeilDiv(n, d) == (n + d - 1) \div d
Round(n, d) == (2 * n + d) \div (2 * d)

Level == [w : Nat \ {0}, h : Nat \ {0}, tw : Nat \ {0}, th : Nat \ {0}, tiled : BOOLEAN]

ASSUME PyramidAssumption ==
  \A m \in Masters :
    /\ m.kind \in {"tiff", "jp2", "simple"}
    /\ m.ifds \in Seq(Level) \ {<<>>}
    /\ m.kind = "simple" => Len(m.ifds) = 1
    /\ m.kind = "jp2" =>      \* the codestream's own ladder
         \A i \in DOMAIN m.ifds : /\ m.ifds[i].w = CeilDiv(m.ifds[1].w, 2 ^ (i - 1))
                                  /\ m.ifds[i].h = CeilDiv(m.ifds[1].h, 2 ^ (i - 1))

Full == master.ifds[1]

NoRect == [x |-> 0, y |-> 0, w |-> 0, h |-> 0]
NoPixels == [p \in {} |-> <<>>]

----------------------------------------------------------------------------
(* LevelInfo::scale_factor: the width ratio to full resolution, rounded;   *)
(* a wavelet ladder halves.                                                *)
ScaleFactor(i) == IF master.kind = "jp2" THEN 2 ^ (i - 1)
                  ELSE Max({1, Round(Full.w, master.ifds[i].w)})

(* A bug: the next coarser level is taken for a fractional downscale.      *)
LevelForScaleAbove(c, ow) ==
  LET enough == {i \in DOMAIN master.ifds : ScaleFactor(i) <= Max({1, CeilDiv(c.w, ow)})}
  IN  Max({i \in enough : \A j \in enough : ScaleFactor(j) <= ScaleFactor(i)})

(* level_for_scale: the coarsest level within the downscale needed,        *)
(* crop.w / out_w; the last one when several are equally coarse.           *)
LevelForScale(c, ow) ==
  LET enough == {i \in DOMAIN master.ifds : ScaleFactor(i) = 1 \/ ScaleFactor(i) * ow <= c.w}
  IN  Max({i \in enough : \A j \in enough : ScaleFactor(j) <= ScaleFactor(i)})

(* levels_for: how far down the wavelet ladder.                            *)
LevelsFor(c, ow) == Max({1} \cup {i \in DOMAIN master.ifds : ScaleFactor(i) * ow <= c.w})

(* A bug: only the far edge is kept inside the level.                      *)
CoverUnclamped(first, count, f, size) ==
  [from |-> first \div f, to |-> Min({CeilDiv(first + count, f), size})]

(* The covering interval of [first, first + count) at 1/f, in a level of   *)
(* `size` pixels: the origin floored, the far edge rounded up, both kept   *)
(* inside the level.                                                       *)
Cover(first, count, f, size) ==
  [from |-> Min({first \div f, size - 1}), to |-> Min({CeilDiv(first + count, f), size})]

(* TiffPyramid::decode_crop's mapping of a crop into level i.              *)
MapCrop(c, i) ==
  LET f == ScaleFactor(i)
      xs == Cover(c.x, c.w, f, master.ifds[i].w)
      ys == Cover(c.y, c.h, f, master.ifds[i].h)
  IN  [x |-> xs.from, y |-> ys.from, w |-> Max({1, xs.to - xs.from}),
       h |-> Max({1, ys.to - ys.from})]

(* The covering rectangle of a wavelet decode: no clamp to the level.      *)
ScaledCoveringPow2(c, denom) ==
  [x |-> c.x \div denom, y |-> c.y \div denom,
   w |-> CeilDiv(c.x + c.w, denom) - c.x \div denom,
   h |-> CeilDiv(c.y + c.h, denom) - c.y \div denom]

----------------------------------------------------------------------------
(* A bug: the last column is that of the pixel after the region.           *)
ColumnsPastEnd(r, l) == (r.x \div l.tw) .. ((r.x + r.w) \div l.tw)

(* The tiles a region touches, as first and last columns and rows.         *)
Columns(r, l) == (r.x \div l.tw) .. ((r.x + r.w - 1) \div l.tw)
Rows(r, l) == (r.y \div l.th) .. ((r.y + r.h - 1) \div l.th)

Pixels(w, h) == (0..(w - 1)) \X (0..(h - 1))

(* A bug: the tile the right edge clips is not counted.                    *)
TilesAcrossFloor(l) == l.w \div l.tw

(* Tiles are numbered row by row over the whole level.                     *)
TilesAcross(l) == CeilDiv(l.w, l.tw)
TileIndex(t, l) == t.row * TilesAcross(l) + t.col

(* What the tiff crate reads for an index: that tile of the IFD the        *)
(* decoder stands at, clipped at the right and bottom edges.               *)
Chunk(index, ifd) ==
  LET l == master.ifds[ifd]
      across == CeilDiv(l.w, l.tw)
      x == (index % across) * l.tw
      y == (index \div across) * l.th
  IN  [x |-> x, y |-> y, w |-> Min({l.tw, l.w - x}), h |-> Min({l.th, l.h - y})]

(* decode_tile and blit: what was read for tile t is written where t       *)
(* belongs in the region r.                                                *)
Blit(t, l, r) ==
  LET data == Chunk(TileIndex(t, l), at)
      tileLeft == t.col * l.tw
      tileTop == t.row * l.th
      left == Max({r.x, tileLeft})
      top == Max({r.y, tileTop})
      right == Min({r.x + r.w, tileLeft + data.w})
      bottom == Min({r.y + r.h, tileTop + data.h})
  IN  [p \in DOMAIN out |->
         IF p[1] \in (left - r.x)..(right - r.x - 1) /\ p[2] \in (top - r.y)..(bottom - r.y - 1)
         THEN <<at, data.x + (left - tileLeft) + (p[1] - (left - r.x)),
                    data.y + (top - tileTop) + (p[2] - (top - r.y))>>
         ELSE out[p]]

----------------------------------------------------------------------------
Init == /\ master \in Masters
        /\ phase = "closed"
        /\ current = 1 /\ at = 1
        /\ crop = NoRect /\ want = 0
        /\ level = 1 /\ region = NoRect
        /\ tile = [col |-> 0, row |-> 0]
        /\ out = NoPixels

Descending == \A i \in 1..(Len(master.ifds) - 1) :
                 /\ master.ifds[i + 1].w < master.ifds[i].w
                 /\ master.ifds[i + 1].h < master.ifds[i].h

(* guard_resident_pixels, before a whole image is decoded.                 *)
FitsResident == Full.w * Full.h <= MaxResident

Accepted == CASE master.kind = "tiff"   -> /\ Descending
                                           /\ \A i \in DOMAIN master.ifds : master.ifds[i].tiled
              [] master.kind = "simple" -> FitsResident
              [] master.kind = "jp2"    -> TRUE

(* The survey of a TIFF leaves the decoder at the last IFD.                *)
Open == /\ phase = "closed"
        /\ Accepted
        /\ phase' = "open"
        /\ at' = Len(master.ifds)
        /\ current' = Len(master.ifds)
        /\ UNCHANGED <<master, crop, want, level, region, tile, out>>

Refuse == /\ phase = "closed"
          /\ ~Accepted
          /\ phase' = "refused"
          /\ UNCHANGED <<master, current, at, crop, want, level, region, tile, out>>

Crops == {c \in [x : 0..(Full.w - 1), y : 0..(Full.h - 1), w : 1..Full.w, h : 1..Full.h] :
             c.x + c.w <= Full.w /\ c.y + c.h <= Full.h}

(* A bug: the decoder is left where it stands.                             *)
SeekNever(i) == current' = i /\ at' = at

(* decode_region moves the decoder only when it is elsewhere.              *)
Seek(i) == /\ at' = IF current # i THEN i ELSE at
           /\ current' = i

(* The plan's crop and output width reach decode_crop.                     *)
Asked(c, ow) == /\ crop' = c
                /\ want' = ow
                /\ UNCHANGED master

Blank(r) == [p \in Pixels(r.w, r.h) |-> <<>>]

LevelPixels(i, r) == [p \in Pixels(r.w, r.h) |-> <<i, r.x + p[1], r.y + p[2]>>]

(* TiffPyramid::decode_crop up to the first tile.                          *)
DecodeTiles(c, ow) == /\ master.kind = "tiff"
                      /\ Asked(c, ow)
                      /\ level' = LevelForScale(c, ow)
                      /\ region' = MapCrop(c, level')
                      /\ Seek(level')
                      /\ phase' = "copying"
                      /\ tile' = [col |-> Min(Columns(region', master.ifds[level'])),
                                  row |-> Min(Rows(region', master.ifds[level']))]
                      /\ out' = Blank(region')

DecodeWavelet(c, ow) == /\ master.kind = "jp2"
                        /\ Asked(c, ow)
                        /\ level' = LevelsFor(c, ow)
                        /\ region' = ScaledCoveringPow2(c, ScaleFactor(level'))
                        /\ phase' = "decoded"
                        /\ out' = LevelPixels(level', region')
                        /\ UNCHANGED <<current, at, tile>>

(* SimpleMaster::decode_crop copies the crop out of the resident raster.   *)
CopyResident(c, ow) == /\ master.kind = "simple"
                       /\ Asked(c, ow)
                       /\ level' = 1
                       /\ region' = c
                       /\ phase' = "decoded"
                       /\ out' = LevelPixels(1, c)
                       /\ UNCHANGED <<current, at, tile>>

(* One turn of the tile loop.                                              *)
CopyTile ==
  LET l == master.ifds[level]
      cols == Columns(region, l)
      rows == Rows(region, l)
  IN  /\ phase = "copying"
      /\ out' = Blit(tile, l, region)
      /\ CASE tile.col < Max(cols) -> tile' = [tile EXCEPT !.col = @ + 1] /\ UNCHANGED phase
           [] tile.col = Max(cols) /\ tile.row < Max(rows) ->
                tile' = [col |-> Min(cols), row |-> tile.row + 1] /\ UNCHANGED phase
           [] OTHER -> phase' = "decoded" /\ UNCHANGED tile
      /\ UNCHANGED <<master, current, at, crop, want, level, region>>

(* decode_crop has returned; the master may be asked again.                *)
Forget == /\ phase' = "open"
          /\ crop' = NoRect /\ want' = 0
          /\ level' = 1 /\ region' = NoRect
          /\ tile' = [col |-> 0, row |-> 0]
          /\ out' = NoPixels
          /\ UNCHANGED <<master, current, at>>

(* The caller takes the raster ...                                         *)
Take == phase = "decoded" /\ Forget

(* ... or gets the error of a chunk that cannot be read: the decoder stays *)
(* where it was moved.                                                     *)
Fail == phase = "copying" /\ Forget

Next == \/ Open
        \/ Refuse
        \/ Take
        \/ Fail
        \/ /\ phase = "open"
           /\ \E c \in Crops, ow \in 1..(Full.w + 1) : \/ DecodeTiles(c, ow)
                                                       \/ DecodeWavelet(c, ow)
                                                       \/ CopyResident(c, ow)
        \/ CopyTile

Spec == Init /\ [][Next]_vars

----------------------------------------------------------------------------
Decoding == phase \in {"copying", "decoded"}

(* Types; every level and tile is one of the master's, and the decoder     *)
(* stands where the program thinks.                                        *)
TypeOK == /\ master \in Masters
          /\ phase \in {"closed", "refused", "open", "copying", "decoded"}
          /\ {current, level} \subseteq DOMAIN master.ifds
          /\ at = current
          /\ Decoding => crop \in Crops
          /\ phase = "copying" => /\ tile.col \in Columns(region, master.ifds[level])
                                  /\ tile.row \in Rows(region, master.ifds[level])

(* A crop never maps outside the chosen level, however its size was        *)
(* rounded when the pyramid was made: decode_region's refusal of a region  *)
(* out of bounds, and the subtraction right - left, are never reached.     *)
RegionInsideLevel ==
  Decoding => LET l == master.ifds[level]
              IN  /\ region.x \in 0..(l.w - 1) /\ region.w \in 1..(l.w - region.x)
                  /\ region.y \in 0..(l.h - 1) /\ region.h \in 1..(l.h - region.y)

(* A decoded raster is the region of the chosen level, pixel by pixel:     *)
(* no seam, gap or shift where tiles meet or are clipped, no tile read     *)
(* under another's index, and none of the level an earlier decode left the *)
(* decoder at.                                                             *)
StitchedExactly ==
  phase = "decoded" => out = LevelPixels(level, region)

(* The chosen level has the detail the output width asks for, and no       *)
(* coarser level of the pyramid has.                                       *)
WidthHasDetail ==
  Decoding =>
    /\ want <= crop.w => region.w >= want
    /\ \A i \in DOMAIN master.ifds : ScaleFactor(i) > ScaleFactor(level) => ScaleFactor(i) * want > crop.w

(* describe: the tile size of the base level, in full-resolution pixels,   *)
(* for each scale factor; crop and output width of such a request.         *)
AdvertisedTile(c, ow, i) ==
  LET f == ScaleFactor(i)
  IN  /\ c.x % (f * Full.tw) = 0 /\ c.w = f * Full.tw
      /\ c.y % (f * Full.th) = 0 /\ c.h = f * Full.th
      /\ ow = Full.tw

(* Viewers ask for the tiles info.json advertises.  Such a request, for a  *)
(* whole tile at one of the scale factors, is answered from one tile of    *)
(* the smallest level with that factor: two levels may share one.          *)
AdvertisedTileIsNative ==
  \A i \in DOMAIN master.ifds :
    Decoding /\ master.kind = "tiff" /\ AdvertisedTile(crop, want, i)
      => /\ level = Max({j \in DOMAIN master.ifds : ScaleFactor(j) = ScaleFactor(i)})
         /\ Cardinality(Columns(region, master.ifds[level])) = 1
         /\ Cardinality(Rows(region, master.ifds[level])) = 1

(* codec.rs promises of a master "never a wrong image": the whole image    *)
(* scaled down is made from a whole level.                                 *)
WholeImageIsWholeLevel ==
  Decoding /\ crop = [x |-> 0, y |-> 0, w |-> Full.w, h |-> Full.h]
    => region.w = master.ifds[level].w /\ region.h = master.ifds[level].h
=============================================================================
