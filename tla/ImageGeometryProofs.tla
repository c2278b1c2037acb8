------------------------ MODULE ImageGeometryProofs ------------------------
(***************************************************************************)
(* Proofs about ImageGeometry, for photos, limits and watermarks of any    *)
(* size.                                                                   *)
(***************************************************************************)
EXTENDS ImageGeometry, TLAPS

\* Division and multiplication, as far as they are needed.
LEMMA Division ==
  ASSUME NEW n \in Nat, NEW d \in Side
  PROVE  /\ n \div d \in Nat
         /\ d * (n \div d) <= n /\ n < d * (n \div d) + d
  BY DEF Side

\* A common factor can be cancelled.
LEMMA Cancel ==
  ASSUME NEW a \in Int, NEW b \in Int, NEW d \in Side, d * a <= d * b
  PROVE  a <= b
  BY Z3 DEF Side

\* A common factor can be cancelled from a strict inequality.
LEMMA CancelStrictly ==
  ASSUME NEW a \in Int, NEW b \in Int, NEW d \in Side, d * a < d * b
  PROVE  a < b
  BY Z3 DEF Side

\* What a division leaves.
LEMMA Exactly ==
  ASSUME NEW n \in Nat, NEW d \in Nat, d > 0
  PROVE  n = d * (n \div d) + (n % d)
  BY SMT

\* What truncation loses is at most one pixel.
LEMMA TruncatedBounds ==
  ASSUME NEW n \in Nat, NEW d \in Side, NEW q \in Truncated(n, d)
  PROVE  q \in Int /\ d * q <= n /\ n <= d * q + d /\ (n > 0 => q >= 0)
<1>1. CASE q = n \div d
  <2>1. q \in Nat /\ d \in Nat BY <1>1, Division DEF Side
  <2>2. d * q <= n /\ n < d * q + d BY <1>1, Division
  <2> QED BY <2>1, <2>2, Z3
<1>2. CASE q = (n \div d) - 1 /\ n % d = 0
  <2>1. n = d * (n \div d) + (n % d) BY Exactly DEF Side
  <2>2. n \div d \in Nat /\ d \in Nat /\ d > 0 BY Division DEF Side
  <2>3. d * q = d * (n \div d) - d BY <1>2, <2>2, Z3
  <2> QED BY <1>2, <2>1, <2>2, <2>3, Z3
<1> QED BY <1>1, <1>2 DEF Truncated

\* One side of a scaled picture, when num / den makes it smaller.
LEMMA OneSide ==
  ASSUME NEW x \in Side, NEW num \in Nat, NEW den \in Side, num <= den,
         NEW q \in Truncated(x * num, den)
  PROVE  /\ AtLeastOne(q) \in 1..x
         /\ AtLeastOne(q) = 1 \/ den * AtLeastOne(q) <= x * num
         /\ x * num <= den * AtLeastOne(q) + den
<1>1. x * num \in Nat /\ x * num <= den * x
  BY Z3 DEF Side
<1>2. q \in Int /\ den * q <= x * num /\ x * num <= den * q + den
  BY <1>1, TruncatedBounds
<1>3. den * q <= den * x BY <1>1, <1>2 DEF Side
<1>4. q <= x BY <1>2, <1>3, Cancel DEF Side
<1>5. CASE q < 1
  <2>1. AtLeastOne(q) = 1 BY <1>5 DEF AtLeastOne
  <2>2. den * q <= den * 1 BY <1>2, <1>5, Z3 DEF Side
  <2> QED BY <1>1, <1>2, <2>1, <2>2 DEF Side
<1>6. CASE ~(q < 1)
  BY <1>2, <1>4, <1>6 DEF AtLeastOne, Side
<1> QED BY <1>5, <1>6

\* The two sides of a picture that is scaled into w times h and does not fit: one
\* takes its limit, the other what its shape allows.
LEMMA ScaledIntoSides ==
  ASSUME NEW s \in Size, NEW w \in Nat, NEW h \in Nat, ~(s.width <= w /\ s.height <= h),
         NEW p \in ScaledInto(s, w, h)
  PROVE  /\ p \in Size /\ p.width <= s.width /\ p.height <= s.height
         /\ \/ /\ h * s.width < w * s.height
               /\ p.width = 1 \/ s.height * p.width <= s.width * h
               /\ s.width * h <= s.height * p.width + s.height
               /\ (p.height = 1 \/ p.height <= h) /\ p.height >= h - 1
            \/ /\ w * s.height <= h * s.width
               /\ p.height = 1 \/ s.width * p.height <= s.height * w
               /\ s.height * w <= s.width * p.height + s.width
               /\ (p.width = 1 \/ p.width <= w) /\ p.width >= w - 1
<1> DEFINE sw == s.width
           sh == s.height
<1>0. sw \in Side /\ sh \in Side BY DEF Size
<1>1. CASE h * sw < w * sh
  <2>1. h <= sh
    <3> SUFFICES ASSUME sh < h PROVE FALSE BY <1>0 DEF Side
    <3>1. sh * sw <= h * sw BY <1>0, Z3 DEF Side
    <3>2. sh * sw < sh * w BY <1>0, <1>1, <3>1, Z3 DEF Side
    <3>3. sw < w BY <1>0, <3>2, CancelStrictly DEF Side
    <3> QED BY <1>0, <3>3 DEF Side
  <2>2. PICK a \in Truncated(sw * h, sh), b \in Truncated(sh * h, sh) :
          p = [width |-> AtLeastOne(a), height |-> AtLeastOne(b)]
    BY <1>1 DEF ScaledInto, Scaled
  <2>3. /\ p.width \in 1..sw /\ p.height \in 1..sh
        /\ p.width = 1 \/ sh * p.width <= sw * h
        /\ sw * h <= sh * p.width + sh
        /\ p.height = 1 \/ sh * p.height <= sh * h
        /\ sh * h <= sh * p.height + sh
    BY <1>0, <2>1, <2>2, OneSide
  <2>4. p.height = 1 \/ p.height <= h
    BY <1>0, <2>3, Cancel DEF Side
  <2>5. p.height >= h - 1
    <3>1. sh * h <= sh * (p.height + 1) BY <1>0, <2>3, Z3 DEF Side
    <3>2. h <= p.height + 1 BY <1>0, <2>3, <3>1, Cancel DEF Side
    <3> QED BY <1>0, <2>3, <3>2 DEF Side
  <2> QED BY <1>0, <1>1, <2>2, <2>3, <2>4, <2>5 DEF Size, Side
<1>2. CASE ~(h * sw < w * sh)
  <2>0. w * sh \in Nat /\ h * sw \in Nat /\ w * sh <= h * sw
    BY <1>0, <1>2, Z3 DEF Side
  <2>1. w <= sw
    <3> SUFFICES ASSUME sw < w PROVE FALSE BY <1>0 DEF Side
    <3>1. sw * sh < w * sh BY <1>0, Z3 DEF Side
    <3>2. sw * sh < sw * h BY <1>0, <2>0, <3>1, Z3 DEF Side
    <3>3. sh < h BY <1>0, <3>2, CancelStrictly DEF Side
    <3> QED BY <1>0, <3>3 DEF Side
  <2>2. PICK a \in Truncated(sw * w, sw), b \in Truncated(sh * w, sw) :
          p = [width |-> AtLeastOne(a), height |-> AtLeastOne(b)]
    BY <1>2 DEF ScaledInto, Scaled
  <2>3. /\ p.width \in 1..sw /\ p.height \in 1..sh
        /\ p.width = 1 \/ sw * p.width <= sw * w
        /\ sw * w <= sw * p.width + sw
        /\ p.height = 1 \/ sw * p.height <= sh * w
        /\ sh * w <= sw * p.height + sw
    BY <1>0, <2>1, <2>2, OneSide
  <2>4. p.width = 1 \/ p.width <= w
    BY <1>0, <2>3, Cancel DEF Side
  <2>5. p.width >= w - 1
    <3>1. sw * w <= sw * (p.width + 1) BY <1>0, <2>3, Z3 DEF Side
    <3>2. w <= p.width + 1 BY <1>0, <2>3, <3>1, Cancel DEF Side
    <3> QED BY <1>0, <2>3, <3>2 DEF Side
  <2> QED BY <1>0, <2>0, <2>2, <2>3, <2>4, <2>5 DEF Size, Side
<1> QED BY <1>1, <1>2

\* It fits after that, but for a side of one pixel.
LEMMA ScaledIntoFits ==
  ASSUME NEW s \in Size, NEW w \in Nat, NEW h \in Nat, ~(s.width <= w /\ s.height <= h),
         NEW p \in ScaledInto(s, w, h)
  PROVE  /\ p.width = 1 \/ p.width <= w
         /\ p.height = 1 \/ p.height <= h
<1>0. s.width \in Side /\ s.height \in Side /\ p \in Size /\ p.width \in Side /\ p.height \in Side
  BY ScaledIntoSides DEF Size
<1>1. ASSUME h * s.width < w * s.height, s.height * p.width <= s.width * h PROVE p.width <= w
  <2>1. s.height * p.width < s.height * w BY <1>0, <1>1, Z3 DEF Side
  <2>2. p.width < w BY <1>0, <2>1, CancelStrictly DEF Side
  <2> QED BY <1>0, <2>2 DEF Side
<1>2. ASSUME w * s.height <= h * s.width, s.width * p.height <= s.height * w PROVE p.height <= h
  <2>1. s.width * p.height <= s.width * h BY <1>0, <1>2, Z3 DEF Side
  <2> QED BY <1>0, <2>1, Cancel DEF Side
<1> QED BY <1>1, <1>2, ScaledIntoSides

-----------------------------------------------------------------------------
\* Every preview is within its limits and as large as they allow.
THEOREM PreviewsFit == \A s \in Size : PreviewFits(s)
<1> SUFFICES ASSUME NEW s \in Size, NEW p \in ResizeToFit(s)
             PROVE  /\ p.width \in 1..s.width /\ p.height \in 1..s.height
                    /\ p.width <= PreviewMaxWidth /\ p.height <= PreviewMaxHeight
                    /\ p = s \/ p.width >= PreviewMaxWidth - 1 \/ p.height >= PreviewMaxHeight - 1
  BY DEF PreviewFits
<1>1. CASE s.width <= PreviewMaxWidth /\ s.height <= PreviewMaxHeight
  BY <1>1 DEF ResizeToFit, Size, Side
<1>2. CASE ~(s.width <= PreviewMaxWidth /\ s.height <= PreviewMaxHeight)
  <2>1. p \in ScaledInto(s, PreviewMaxWidth, PreviewMaxHeight)
    BY <1>2 DEF ResizeToFit
  <2>2. PreviewMaxWidth \in Side /\ PreviewMaxHeight \in Side /\ s.width \in Side /\ s.height \in Side
    BY GeometryAssumption DEF Size
  <2>3. p \in Size /\ p.width <= s.width /\ p.height <= s.height
        /\ (p.width >= PreviewMaxWidth - 1 \/ p.height >= PreviewMaxHeight - 1)
    BY <1>2, <2>1, <2>2, ScaledIntoSides DEF Side
  <2>4. /\ p.width = 1 \/ p.width <= PreviewMaxWidth
        /\ p.height = 1 \/ p.height <= PreviewMaxHeight
    BY <1>2, <2>1, <2>2, ScaledIntoFits DEF Side
  <2> QED BY <2>2, <2>3, <2>4 DEF Size, Side
<1> QED BY <1>1, <1>2

\* Scaling keeps the shape of every photo, to a pixel.
THEOREM PreviewsKeepShape == \A s \in Size : PreviewKeepsShape(s)
<1> SUFFICES ASSUME NEW s \in Size, NEW p \in ResizeToFit(s), p.width > 1, p.height > 1
             PROVE  p.width * s.height - p.height * s.width \in (-s.height)..s.width
  BY DEF PreviewKeepsShape
<1>1. PreviewMaxWidth \in Side /\ PreviewMaxHeight \in Side /\ s.width \in Side /\ s.height \in Side
  BY GeometryAssumption DEF Size
<1>2. CASE p = s
  <2>1. s.width * s.height = s.height * s.width BY <1>1 DEF Side
  <2> QED BY <1>1, <1>2, <2>1, Z3 DEF Side
<1>3. CASE p # s
  <2>1. /\ ~(s.width <= PreviewMaxWidth /\ s.height <= PreviewMaxHeight)
        /\ p \in ScaledInto(s, PreviewMaxWidth, PreviewMaxHeight)
    BY <1>3 DEF ResizeToFit
  <2> DEFINE mw == PreviewMaxWidth
             mh == PreviewMaxHeight
  <2>2. p.width \in Side /\ p.height \in Side
    BY <1>1, <2>1, ScaledIntoSides DEF Size, Side
  <2>3. CASE /\ s.height * p.width <= s.width * mh
             /\ s.width * mh <= s.height * p.width + s.height
             /\ p.height <= mh /\ p.height >= mh - 1
    <3>1. s.width * p.height <= s.width * mh BY <1>1, <2>2, <2>3, Z3 DEF Side
    <3>2. s.width * mh <= s.width * p.height + s.width
      <4>1. s.width * mh <= s.width * (p.height + 1) BY <1>1, <2>2, <2>3, Z3 DEF Side
      <4> QED BY <1>1, <2>2, <4>1, Z3 DEF Side
    <3> QED BY <1>1, <2>2, <2>3, <3>1, <3>2, Z3 DEF Side
  <2>4. CASE /\ s.width * p.height <= s.height * mw
             /\ s.height * mw <= s.width * p.height + s.width
             /\ p.width <= mw /\ p.width >= mw - 1
    <3>1. s.height * p.width <= s.height * mw BY <1>1, <2>2, <2>4, Z3 DEF Side
    <3>2. s.height * mw <= s.height * p.width + s.height
      <4>1. s.height * mw <= s.height * (p.width + 1) BY <1>1, <2>2, <2>4, Z3 DEF Side
      <4> QED BY <1>1, <2>2, <4>1, Z3 DEF Side
    <3> QED BY <1>1, <2>2, <2>4, <3>1, <3>2, Z3 DEF Side
  <2> QED BY <1>1, <2>1, <2>2, <2>3, <2>4, ScaledIntoSides DEF Side
<1> QED BY <1>2, <1>3

\* The watermark of every photo is small and not enlarged.
THEOREM WatermarksFit == \A photo \in Size : WatermarkFits(photo)
<1> SUFFICES ASSUME NEW photo \in Size, NEW m \in ResizeWatermark(photo)
             PROVE  /\ m.width \in 1..WatermarkSize.width /\ m.height \in 1..WatermarkSize.height
                    /\ m.width = 1 \/ 100 * m.width <= 22 * photo.width
                    /\ m.height = 1 \/ 100 * m.height <= 22 * photo.height
  BY DEF WatermarkFits
<1> DEFINE ww == WatermarkSize.width
           wh == WatermarkSize.height
<1>0. ww \in Side /\ wh \in Side /\ photo.width \in Side /\ photo.height \in Side
  BY GeometryAssumption DEF Size
<1>1. PICK w \in Truncated(22 * photo.width, 100), h \in Truncated(22 * photo.height, 100) :
        m \in IF ww <= w /\ wh <= h THEN {WatermarkSize} ELSE ScaledInto(WatermarkSize, w, h)
  BY DEF ResizeWatermark
<1>2. /\ w \in Nat /\ 100 * w <= 22 * photo.width
      /\ h \in Nat /\ 100 * h <= 22 * photo.height
  BY <1>0, TruncatedBounds DEF Side
<1>3. CASE ww <= w /\ wh <= h
  BY <1>0, <1>1, <1>2, <1>3 DEF Side
<1>4. CASE ~(ww <= w /\ wh <= h)
  <2>1. m \in ScaledInto(WatermarkSize, w, h) BY <1>1, <1>4
  <2>2. m \in Size /\ m.width <= ww /\ m.height <= wh
    BY <1>2, <1>4, <2>1, ScaledIntoSides, GeometryAssumption
  <2>3. (m.width = 1 \/ m.width <= w) /\ (m.height = 1 \/ m.height <= h)
    BY <1>2, <1>4, <2>1, ScaledIntoFits, GeometryAssumption
  <2> QED BY <1>0, <1>2, <2>2, <2>3 DEF Size, Side
<1> QED BY <1>3, <1>4

\* Every photo but the tiniest shows the whole watermark, and those of at most ten
\* pixels show nothing of it.
THEOREM WatermarksShow == \A photo \in Size : WatermarkShows(photo)
<1> SUFFICES ASSUME NEW photo \in Size, NEW m \in ResizeWatermark(photo)
             PROVE  /\ photo.width >= 12 /\ photo.height >= 12 => Contains(photo, m)
                    /\ photo.width <= 10 => Place(photo.width, m.width) >= photo.width
                    /\ photo.height <= 10 => Place(photo.height, m.height) >= photo.height
  BY DEF WatermarkShows
<1>1. /\ m.width \in Nat /\ m.height \in Nat /\ photo.width \in Nat /\ photo.height \in Nat
      /\ m.width = 1 \/ 100 * m.width <= 22 * photo.width
      /\ m.height = 1 \/ 100 * m.height <= 22 * photo.height
  BY WatermarksFit, GeometryAssumption DEF WatermarkFits, Size, Side
<1> QED BY <1>1 DEF Place, Contains

\* A preview shows the whole watermark, unless its photo is tiny or very flat.
THEOREM PreviewsAreMarked == \A s \in Size : PreviewIsMarked(s)
<1> SUFFICES ASSUME NEW s \in Size, s.width >= 12, s.height >= 12,
                    PreviewMaxWidth >= 13, PreviewMaxHeight >= 13,
                    13 * s.width <= s.height * PreviewMaxWidth,
                    13 * s.height <= s.width * PreviewMaxHeight,
                    NEW p \in ResizeToFit(s), NEW m \in ResizeWatermark(p)
             PROVE  Contains(p, m)
  BY DEF PreviewIsMarked
<1>0. PreviewMaxWidth \in Side /\ PreviewMaxHeight \in Side /\ s.width \in Side /\ s.height \in Side
  BY GeometryAssumption DEF Size
<1>1. p \in Size /\ p.width >= 12 /\ p.height >= 12
  <2>1. CASE p = s BY <2>1
  <2>2. CASE p # s
    <3>1. /\ ~(s.width <= PreviewMaxWidth /\ s.height <= PreviewMaxHeight)
          /\ p \in ScaledInto(s, PreviewMaxWidth, PreviewMaxHeight)
      BY <2>2 DEF ResizeToFit
    <3>2. p \in Size /\ p.width \in Side /\ p.height \in Side
      BY <1>0, <3>1, ScaledIntoSides DEF Size, Side
    <3>3. CASE /\ s.width * PreviewMaxHeight <= s.height * p.width + s.height
               /\ p.height >= PreviewMaxHeight - 1
      <4>1. s.height * 13 <= s.height * (p.width + 1) BY <1>0, <3>2, <3>3, Z3 DEF Side
      <4>2. 13 <= p.width + 1 BY <1>0, <3>2, <4>1, Cancel DEF Side
      <4> QED BY <1>0, <3>2, <3>3, <4>2 DEF Side
    <3>4. CASE /\ s.height * PreviewMaxWidth <= s.width * p.height + s.width
               /\ p.width >= PreviewMaxWidth - 1
      <4>1. s.width * 13 <= s.width * (p.height + 1) BY <1>0, <3>2, <3>4, Z3 DEF Side
      <4>2. 13 <= p.height + 1 BY <1>0, <3>2, <4>1, Cancel DEF Side
      <4> QED BY <1>0, <3>2, <3>4, <4>2 DEF Side
    <3> QED BY <1>0, <3>1, <3>3, <3>4, ScaledIntoSides, <3>2 DEF Side
  <2> QED BY <2>1, <2>2
<1> QED BY <1>1, WatermarksShow DEF WatermarkShows
=============================================================================
