--------------------------- MODULE ImageGeometry ---------------------------
(***************************************************************************)
(* The sizes Processor computes: those of a preview, those of the watermark *)
(* and where the watermark goes.                                           *)
(*                                                                         *)
(* The code multiplies a side by a quotient of two sides in float64 and    *)
(* truncates.  For sides below 2^24 the result is the exact floor, or one  *)
(* less when the exact product is an integer: operators return the set of  *)
(* the sizes that can come out.                                            *)
(***************************************************************************)
EXTENDS Integers

CONSTANTS
  PreviewMaxWidth, PreviewMaxHeight,  \* Processor's limits
  WatermarkSize                       \* [width, height] of its watermark image

Side == Nat \ {0}
Size == [width : Side, height : Side]

ASSUME GeometryAssumption ==
  /\ PreviewMaxWidth \in Side /\ PreviewMaxHeight \in Side
  /\ WatermarkSize \in Size

\* int(float64(x) * ratio), where the product is n / d.
Truncated(n, d) == {q \in {n \div d, (n \div d) - 1} : q = n \div d \/ n % d = 0}

\* The size s scaled by num / den: at least one pixel each way.
AtLeastOne(n) == IF n < 1 THEN 1 ELSE n
Scaled(s, num, den) ==
  {[width |-> AtLeastOne(a), height |-> AtLeastOne(b)] :
     a \in Truncated(s.width * num, den), b \in Truncated(s.height * num, den)}

\* s scaled by the smaller of w / s.width and h / s.height.
ScaledInto(s, w, h) ==
  IF h * s.width < w * s.height THEN Scaled(s, h, s.height) ELSE Scaled(s, w, s.width)

ResizeToFit(s) ==
  IF s.width <= PreviewMaxWidth /\ s.height <= PreviewMaxHeight THEN {s}
  ELSE ScaledInto(s, PreviewMaxWidth, PreviewMaxHeight)

\* The watermark takes at most 22 % of either side of the photo and is never enlarged.
ResizeWatermark(photo) ==
  UNION {IF WatermarkSize.width <= w /\ WatermarkSize.height <= h THEN {WatermarkSize}
         ELSE ScaledInto(WatermarkSize, w, h) :
           w \in Truncated(22 * photo.width, 100), h \in Truncated(22 * photo.height, 100)}

\* Where a mark begins along a side: 20 pixels from the far end, 10 from the near.
Place(side, mark) == IF side - mark - 20 < 10 THEN 10 ELSE side - mark - 20

-----------------------------------------------------------------------------
(* What is claimed, of every photo and every watermark.                    *)

Contains(photo, mark) ==
  /\ Place(photo.width, mark.width) + mark.width <= photo.width
  /\ Place(photo.height, mark.height) + mark.height <= photo.height

\* A preview is never empty, never larger than the limits, never larger than the
\* photo, and one of its sides is within a pixel of its limit if the photo was too
\* large.
PreviewFits(s) ==
  \A p \in ResizeToFit(s) :
    /\ p.width \in 1..s.width /\ p.height \in 1..s.height
    /\ p.width <= PreviewMaxWidth /\ p.height <= PreviewMaxHeight
    /\ p = s \/ p.width >= PreviewMaxWidth - 1 \/ p.height >= PreviewMaxHeight - 1

\* A preview has the shape of the photo, to a pixel, unless it is a pixel thin.
PreviewKeepsShape(s) ==
  \A p \in ResizeToFit(s) : p.width > 1 /\ p.height > 1 =>
    p.width * s.height - p.height * s.width \in (-s.height)..s.width

\* The watermark takes at most 22 % of either side, or a pixel, and is not enlarged.
WatermarkFits(photo) ==
  \A m \in ResizeWatermark(photo) :
    /\ m.width \in 1..WatermarkSize.width /\ m.height \in 1..WatermarkSize.height
    /\ m.width = 1 \/ 100 * m.width <= 22 * photo.width
    /\ m.height = 1 \/ 100 * m.height <= 22 * photo.height

\* A photo of at least 12 pixels each way shows the whole watermark; one of at
\* most 10 shows nothing of it, since it would begin outside.
WatermarkShows(photo) ==
  \A m \in ResizeWatermark(photo) :
    /\ photo.width >= 12 /\ photo.height >= 12 => Contains(photo, m)
    /\ photo.width <= 10 => Place(photo.width, m.width) >= photo.width
    /\ photo.height <= 10 => Place(photo.height, m.height) >= photo.height

\* A preview shows the whole watermark unless its photo is tiny, or so flat that
\* the shorter side is less than 13 / limit of the longer.  (Those flatter lose it.)
PreviewIsMarked(s) ==
  /\ s.width >= 12 /\ s.height >= 12
  /\ PreviewMaxWidth >= 13 /\ PreviewMaxHeight >= 13
  /\ 13 * s.width <= s.height * PreviewMaxWidth
  /\ 13 * s.height <= s.width * PreviewMaxHeight
  => \A p \in ResizeToFit(s) : \A m \in ResizeWatermark(p) : Contains(p, m)
=============================================================================
