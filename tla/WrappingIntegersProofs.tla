----------------------- MODULE WrappingIntegersProofs -----------------------
(***************************************************************************)
(* For every width of the two kinds of number (every even SeqMod and       *)
(* AbsMod, and so for 2^32 and 2^64), unwrap() undoes wrap() for numbers   *)
(* that are less than half the small space away from the checkpoint, and   *)
(* so the two sides of SeqnoTracking never drift apart.                    *)
(***************************************************************************)
EXTENDS SeqnoTracking, TLAPS

\* Euclidean division by a positive number.
LEMMA DivMod ==
    ASSUME NEW M \in Nat \ {0}, NEW a \in Int
    PROVE  /\ a \div M \in Int
           /\ a % M \in 0..(M - 1)
           /\ a = M * (a \div M) + (a % M)
OBVIOUS

\* The remainder is determined by its range.
LEMMA ModUnique ==
    ASSUME NEW M \in Nat \ {0}, NEW a \in Int, NEW q \in Int, NEW r \in 0..(M - 1),
           a = M * q + r
    PROVE  a % M = r
OBVIOUS

\* Numbers that differ by a multiple of M have the same remainder.
LEMMA ModPlusMultiple ==
    ASSUME NEW M \in Nat \ {0}, NEW a \in Int, NEW b \in Int, NEW k \in Int,
           a = b + M * k
    PROVE  a % M = b % M
<1>1. PICK q \in Int : b = M * q + (b % M)
  BY DivMod
<1>2. b % M \in 0..(M - 1)
  BY DivMod
<1>3. a = M * (q + k) + (b % M) /\ q + k \in Int
  BY <1>1
<1>4. PICK p \in Int : p = q + k
  BY <1>3
<1>5. a = M * p + (b % M)
  BY <1>3, <1>4
<1> QED
  BY <1>2, <1>5, ModUnique

\* A number that is already in range is its own remainder.
LEMMA ModSmall ==
    ASSUME NEW M \in Nat \ {0}, NEW a \in 0..(M - 1)
    PROVE  a % M = a
<1>1. a = M * 0 + a
  OBVIOUS
<1> QED
  BY <1>1, ModUnique

\* wrap() forgets only multiples of SeqMod.
LEMMA WrapIsMod ==
    ASSUME NEW isn \in WrappingInt32, NEW x \in Nat
    PROVE  /\ wrap(x, isn) = (isn + x) % SeqMod
           /\ wrap(x, isn) \in WrappingInt32
<1>1. SeqMod \in Nat \ {0}
  BY SeqModAssumption
<1>2. isn \in Int
  BY <1>1 DEF WrappingInt32
<1>3. x = SeqMod * (x \div SeqMod) + (x % SeqMod) /\ x \div SeqMod \in Int /\ x % SeqMod \in Int
  BY <1>1, DivMod
<1>4. isn + x = (isn + (x % SeqMod)) + SeqMod * (x \div SeqMod)
  BY <1>1, <1>2, <1>3
<1>5. isn + x \in Int /\ isn + (x % SeqMod) \in Int
  BY <1>2, <1>3
<1>6. (isn + x) % SeqMod = (isn + (x % SeqMod)) % SeqMod
  BY <1>1, <1>3, <1>4, <1>5, ModPlusMultiple, Zenon
<1>7. (isn + x) % SeqMod \in 0..(SeqMod - 1)
  BY <1>1, <1>5, DivMod, Zenon
<1> QED
  BY <1>6, <1>7 DEF wrap, WrappingInt32

\* The signed 32-bit distance between two wrapped numbers is their distance,
\* when that is less than half the space.
LEMMA DistanceOfWrapped ==
    ASSUME NEW isn \in WrappingInt32, NEW x \in Nat, NEW y \in Nat,
           x - y \in (-HalfSeq)..(HalfSeq - 1)
    PROVE  distance32(wrap(x, isn), wrap(y, isn)) = x - y
<1> DEFINE wx == wrap(x, isn)
           wy == wrap(y, isn)
           d  == (wx - wy) % SeqMod
<1>1. SeqMod \in Nat \ {0} /\ SeqMod = 2 * HalfSeq /\ HalfSeq \in Nat \ {0}
  BY SeqModAssumption DEF HalfSeq
<1>2. isn \in Int
  BY <1>1 DEF WrappingInt32
<1>3. wx = (isn + x) % SeqMod /\ wy = (isn + y) % SeqMod
  BY WrapIsMod
<1> HIDE DEF wx, wy
<1>4. isn + x \in Int /\ isn + y \in Int
  BY <1>2
<1>5. PICK p \in Int : isn + x = SeqMod * p + wx
  BY <1>1, <1>4, <1>3, DivMod, Zenon
<1>6. PICK q \in Int : isn + y = SeqMod * q + wy
  BY <1>1, <1>4, <1>3, DivMod, Zenon
<1>7. wx \in WrappingInt32 /\ wy \in WrappingInt32
  BY WrapIsMod DEF wx, wy
<1>8. wx \in Int /\ wy \in Int
  BY <1>1, <1>7 DEF WrappingInt32
<1>9. wx - wy = (x - y) + SeqMod * (q - p)
  BY <1>1, <1>2, <1>5, <1>6, <1>8
<1>10. wx - wy \in Int /\ x - y \in Int /\ q - p \in Int
  BY <1>8
<1>11. d = (x - y) % SeqMod
  <2>1. \A a, b, k \in Int : a = b + SeqMod * k => a % SeqMod = b % SeqMod
    BY <1>1, ModPlusMultiple
  <2> QED
    BY <2>1, <1>9, <1>10, Zenon
<1>12. CASE x - y >= 0
  <2>1. x - y \in 0..(SeqMod - 1) /\ x - y < HalfSeq
    BY <1>1, <1>12
  <2>2. d = x - y
    BY <1>1, <1>11, <2>1, ModSmall
  <2> QED
    BY <2>1, <2>2 DEF distance32, wx, wy
<1>13. CASE x - y < 0
  <2>1. x - y + SeqMod \in 0..(SeqMod - 1) /\ x - y + SeqMod >= HalfSeq
    BY <1>1, <1>13
  <2>2. x - y = SeqMod * (-1) + (x - y + SeqMod)
    BY <1>1
  <2>3. d = x - y + SeqMod
    BY <1>1, <1>11, <2>1, <2>2, ModUnique
  <2>4. ~(d < HalfSeq) /\ d - SeqMod = x - y
    BY <1>1, <2>1, <2>3
  <2> QED
    BY <2>4 DEF distance32, wx, wy
<1> QED
  BY <1>12, <1>13

\* unwrap() undoes wrap(): every absolute number below 2^63 is recovered from
\* its 32-bit form and a checkpoint below 2^63 that is less than 2^31 away
\* (2^31 itself counts when the checkpoint is the larger of the two).
THEOREM UnwrapWrap ==
    ASSUME NEW isn \in WrappingInt32,
           NEW x \in 0..(HalfAbs - 1), NEW checkpoint \in 0..(HalfAbs - 1),
           x - checkpoint \in (-HalfSeq)..(HalfSeq - 1)
    PROVE  unwrap(wrap(x, isn), isn, checkpoint) = x
<1>1. AbsMod \in Nat \ {0} /\ AbsMod = 2 * HalfAbs /\ HalfAbs \in Nat \ {0}
  BY AbsModAssumption DEF HalfAbs
<1>2. distance32(wrap(x, isn), wrap(checkpoint, isn)) = x - checkpoint
  BY <1>1, DistanceOfWrapped
<1>3. checkpoint + (x - checkpoint) = x
  BY <1>1
<1>4. x % AbsMod = x
  BY <1>1, ModSmall
<1>5. add64(checkpoint, distance32(wrap(x, isn), wrap(checkpoint, isn))) = x
  BY <1>2, <1>3, <1>4 DEF add64
<1>6. int64(x) = x /\ ~(x < 0)
  BY <1>1 DEF int64
<1> QED
  BY <1>5, <1>6 DEF unwrap

\* What unwrap() returns for any n: the checkpoint moved by the signed distance
\* d, which differs from n minus the wrapped checkpoint by a multiple of SeqMod,
\* and moved once round more where that would be negative.
LEMMA UnwrapIs ==
    ASSUME NEW isn \in WrappingInt32, NEW n \in WrappingInt32,
           NEW checkpoint \in Nat, checkpoint + HalfSeq <= HalfAbs,
           NEW d, d = distance32(n, wrap(checkpoint, isn))
    PROVE  /\ d \in (-HalfSeq)..(HalfSeq - 1)
           /\ \E k \in Int : d = (n - wrap(checkpoint, isn)) + SeqMod * k
           /\ unwrap(n, isn, checkpoint) =
                  IF checkpoint + d < 0 THEN checkpoint + d + SeqMod ELSE checkpoint + d
<1> DEFINE w == wrap(checkpoint, isn)
           m == (n - w) % SeqMod
           c == checkpoint
<1>1. /\ SeqMod \in Nat \ {0} /\ SeqMod = 2 * HalfSeq /\ HalfSeq \in Nat \ {0}
      /\ AbsMod \in Nat \ {0} /\ AbsMod = 2 * HalfAbs /\ HalfAbs \in Nat \ {0}
  BY AbsModAssumption, SeqModAssumption DEF HalfAbs, HalfSeq
<1>2. HalfAbs >= SeqMod
  <2>0. AbsMod \in Int
    BY <1>1
  <2>1. PICK q \in Int : AbsMod = SeqMod * q + (AbsMod % SeqMod)
    BY <1>1, <2>0, DivMod, Zenon
  <2>2. AbsMod = SeqMod * q /\ SeqMod < AbsMod
    BY <1>1, <2>1, SeqModAssumption
  <2>3. CASE q <= 0
    <3>1. SeqMod * q <= 0
      BY <1>1, <2>3
    <3> QED
      BY <1>1, <2>2, <3>1
  <2>4. CASE q = 1
    BY <1>1, <2>2, <2>4
  <2>5. CASE q >= 2
    <3>1. SeqMod * q >= SeqMod * 2
      BY <1>1, <2>5
    <3> QED
      BY <1>1, <2>2, <3>1
  <2> QED
    BY <2>3, <2>4, <2>5
<1>3. n \in Int /\ w \in Int
  BY <1>1, WrapIsMod DEF WrappingInt32
<1> HIDE DEF w
<1>4. n - w \in Int
  BY <1>3
<1>5. /\ m \in 0..(SeqMod - 1)
      /\ n - w = SeqMod * ((n - w) \div SeqMod) + m
      /\ (n - w) \div SeqMod \in Int
  BY <1>1, <1>4, DivMod, Zenon
<1>6. d = IF m < HalfSeq THEN m ELSE m - SeqMod
  BY DEF distance32, w
<1> HIDE DEF m
<1>7. d \in (-HalfSeq)..(HalfSeq - 1)
  BY <1>1, <1>5, <1>6
<1>8. \E k \in Int : d = (n - w) + SeqMod * k
  <2>1. PICK q \in Int : n - w = SeqMod * q + m
    BY <1>5
  <2>2. CASE m < HalfSeq
    <3>1. d = (n - w) + SeqMod * (-q) /\ -q \in Int
      BY <1>1, <1>5, <1>6, <2>1, <2>2
    <3> QED
      BY <3>1
  <2>3. CASE ~(m < HalfSeq)
    <3>1. d = (n - w) + SeqMod * (-q - 1) /\ -q - 1 \in Int
      BY <1>1, <1>5, <1>6, <2>1, <2>3
    <3> QED
      BY <3>1
  <2> QED
    BY <2>2, <2>3
<1>9. c \in Nat /\ c + HalfSeq <= HalfAbs
  OBVIOUS
<1> HIDE DEF c
<1>10. CASE c + d >= 0
  <2>1. c + d \in 0..(HalfAbs - 1) /\ c + d \in 0..(AbsMod - 1)
    BY <1>1, <1>7, <1>9, <1>10
  <2>2. (c + d) % AbsMod = c + d
    BY <1>1, <2>1, ModSmall, Zenon
  <2>3. int64(c + d) = c + d /\ ~(c + d < 0)
    BY <1>1, <2>1 DEF int64
  <2>4. unwrap(n, isn, c) = c + d
    BY <2>2, <2>3, Zenon DEF unwrap, add64, c
  <2> QED
    BY <1>7, <1>8, <2>3, <2>4 DEF c, w
<1>11. CASE c + d < 0
  <2>1. /\ c + d + AbsMod \in 0..(AbsMod - 1) /\ c + d + AbsMod >= HalfAbs
        /\ c + d = AbsMod * (-1) + (c + d + AbsMod)
    BY <1>1, <1>2, <1>7, <1>9, <1>11
  <2>2. (c + d) % AbsMod = c + d + AbsMod
    <3>1. c + d \in Int
      BY <1>1, <1>7, <1>9
    <3>2. -1 \in Int
      OBVIOUS
    <3> QED
      BY <1>1, <2>1, <3>1, <3>2, ModUnique, ZenonT(30)
  <2>3. int64(c + d + AbsMod) = c + d
    BY <1>1, <1>7, <1>9, <2>1 DEF int64
  <2>4. c + d + SeqMod \in 0..(AbsMod - 1)
    BY <1>1, <1>2, <1>7, <1>9, <1>11
  <2>5. (c + d + SeqMod) % AbsMod = c + d + SeqMod
    BY <1>1, <2>4, ModSmall, Zenon
  <2>6. (c + d) + SeqMod = c + d + SeqMod
    BY <1>1, <1>7, <1>9
  <2>7. unwrap(n, isn, c) = c + d + SeqMod
    BY <1>11, <2>2, <2>3, <2>5, <2>6 DEF unwrap, add64, c
  <2> QED
    BY <1>7, <1>8, <1>11, <2>7 DEF c, w
<1> QED
  BY <1>1, <1>7, <1>9, <1>10, <1>11

\* unwrap() returns a number that wraps to n, and none that wraps to n is
\* closer to the checkpoint.
THEOREM UnwrapClosest ==
    ASSUME NEW isn \in WrappingInt32, NEW n \in WrappingInt32,
           NEW checkpoint \in Nat, checkpoint + HalfSeq <= HalfAbs,
           NEW r, r = unwrap(n, isn, checkpoint)
    PROVE  /\ r \in Nat /\ wrap(r, isn) = n
           /\ \A x \in Nat : wrap(x, isn) = n =>
                  IF r >= checkpoint
                  THEN r - checkpoint <= (IF x >= checkpoint THEN x - checkpoint ELSE checkpoint - x)
                  ELSE checkpoint - r <= (IF x >= checkpoint THEN x - checkpoint ELSE checkpoint - x)
<1> DEFINE w == wrap(checkpoint, isn)
           d == distance32(n, w)
           c == checkpoint
<1>1. SeqMod \in Nat \ {0} /\ SeqMod = 2 * HalfSeq /\ HalfSeq \in Nat \ {0}
  BY SeqModAssumption DEF HalfSeq
<1>2. /\ d \in (-HalfSeq)..(HalfSeq - 1)
      /\ \E k \in Int : d = (n - w) + SeqMod * k
      /\ r = IF c + d < 0 THEN c + d + SeqMod ELSE c + d
  BY UnwrapIs
<1>3. n \in 0..(SeqMod - 1) /\ w \in Int /\ isn \in Int /\ c \in Nat
  BY <1>1, WrapIsMod DEF WrappingInt32
<1>4. PICK p \in Int : isn + c = SeqMod * p + w
  <2>1. w = (isn + c) % SeqMod /\ isn + c \in Int
    BY <1>3, WrapIsMod
  <2>2. /\ (isn + c) \div SeqMod \in Int
        /\ isn + c = SeqMod * ((isn + c) \div SeqMod) + ((isn + c) % SeqMod)
    BY <1>1, <2>1, DivMod, Zenon
  <2> HIDE DEF w
  <2> QED
    BY <2>1, <2>2
<1> HIDE DEF w, d, c
<1>5. PICK k \in Int : d = (n - w) + SeqMod * k
  BY <1>2
<1>6. r \in Nat
  BY <1>1, <1>2, <1>3
<1>7. \E q \in Int : isn + r = SeqMod * q + n
  <2>1. CASE c + d < 0
    <3>1. isn + r = SeqMod * (p + k + 1) + n /\ p + k + 1 \in Int
      BY <1>1, <1>2, <1>3, <1>4, <1>5, <2>1
    <3> QED
      BY <3>1
  <2>2. CASE ~(c + d < 0)
    <3>1. isn + r = SeqMod * (p + k) + n /\ p + k \in Int
      BY <1>1, <1>2, <1>3, <1>4, <1>5, <2>2
    <3> QED
      BY <3>1
  <2> QED
    BY <2>1, <2>2
<1>8. PICK q \in Int : isn + r = SeqMod * q + n
  BY <1>7
<1>9. wrap(r, isn) = n
  <2>1. isn + r \in Int
    BY <1>3, <1>6
  <2>2. (isn + r) % SeqMod = n
    BY <1>1, <1>3, <1>8, <2>1, ModUnique
  <2> QED
    BY <1>6, <2>2, WrapIsMod
<1>10. ASSUME NEW x \in Nat, wrap(x, isn) = n
       PROVE  \E j \in Int : x = r + SeqMod * j
  <2>1. n = (isn + x) % SeqMod /\ isn + x \in Int
    BY <1>3, <1>10, WrapIsMod
  <2>2. PICK s \in Int : isn + x = SeqMod * s + n
    BY <1>1, <2>1, DivMod, Zenon
  <2>3. x = r + SeqMod * (s - q) /\ s - q \in Int
    BY <1>1, <1>3, <1>6, <1>8, <2>2
  <2> QED
    BY <2>3
<1>11. ASSUME NEW x \in Nat, wrap(x, isn) = n
       PROVE  IF r >= c
              THEN r - c <= (IF x >= c THEN x - c ELSE c - x)
              ELSE c - r <= (IF x >= c THEN x - c ELSE c - x)
  <2>1. PICK j \in Int : x = r + SeqMod * j
    BY <1>10, <1>11
  <2>2. CASE j = 0
    BY <1>1, <1>3, <1>6, <2>1, <2>2
  <2>3. CASE j >= 1
    <3>1. SeqMod * j >= SeqMod
      BY <1>1, <2>3
    <3>2. PICK y \in Int : y = SeqMod * j /\ y >= SeqMod
      BY <1>1, <3>1
    <3>3. x = r + y
      BY <2>1, <3>2
    <3> QED
      BY <1>1, <1>2, <1>3, <1>6, <3>2, <3>3
  <2>4. CASE j <= -1
    <3>1. SeqMod * j <= -SeqMod
      BY <1>1, <2>4
    <3>2. PICK y \in Int : y = SeqMod * j /\ y <= -SeqMod
      BY <1>1, <3>1
    <3>3. x = r + y
      BY <2>1, <3>2
    <3> QED
      BY <1>1, <1>2, <1>3, <1>6, <3>2, <3>3
  <2> QED
    BY <2>2, <2>3, <2>4
<1> QED
  BY <1>6, <1>9, <1>11 DEF c

-----------------------------------------------------------------------------
\* The number recovered from 32 bits is always the number that was sent, for
\* any sequence of moves of less than half the 32-bit space each, as long as
\* the numbers stay below 2^63.
THEOREM TracksAlways ==
    ASSUME AbsLimit <= HalfAbs
    PROVE  TrackSpec => [](TrackTypeOK /\ Tracks)
<1>1. AbsMod \in Nat \ {0} /\ AbsMod = 2 * HalfAbs /\ HalfAbs \in Nat \ {0} /\ AbsLimit \in Nat \ {0}
  BY AbsModAssumption, AbsLimitAssumption DEF HalfAbs
<1>2. TrackInit => TrackTypeOK /\ Tracks
  BY <1>1 DEF TrackInit, TrackTypeOK, Tracks
<1>3. ASSUME TrackTypeOK, Tracks, [TrackNext]_trackVars
      PROVE  TrackTypeOK' /\ Tracks'
  <2>1. CASE UNCHANGED trackVars
    BY <1>3, <2>1 DEF trackVars, TrackTypeOK, Tracks
  <2>2. ASSUME NEW x \in 0..(AbsLimit - 1), Move(x)
        PROVE  TrackTypeOK' /\ Tracks'
    <3>1. x \in 0..(HalfAbs - 1) /\ tracked \in 0..(HalfAbs - 1)
      BY <1>1, <1>3 DEF TrackTypeOK, Tracks
    <3>2. x - tracked \in (-HalfSeq)..(HalfSeq - 1)
      BY <1>3, <2>2 DEF Move, Tracks
    <3>3. tracked' = x /\ value' = x /\ sent_isn' = sent_isn
      BY <1>3, <2>2, <3>1, <3>2, UnwrapWrap DEF Move, TrackTypeOK
    <3> QED
      BY <1>1, <1>3, <3>1, <3>3 DEF TrackTypeOK, Tracks
  <2> QED
    BY <1>3, <2>1, <2>2 DEF TrackNext
<1> QED
  BY <1>2, <1>3, PTL DEF TrackSpec

\* unwrap() always finds the closest number, as long as the current number is
\* at least 2^31 below 2^63, where the test for a negative result still means
\* what it says.
THEOREM UnwrapAlwaysClosest ==
    ASSUME AbsLimit + HalfSeq <= HalfAbs + 1
    PROVE  TrackSpec => []UnwrapIsClosest
<1>1. /\ AbsMod \in Nat \ {0} /\ AbsMod = 2 * HalfAbs /\ HalfAbs \in Nat \ {0} /\ AbsLimit \in Nat \ {0}
      /\ HalfSeq \in Nat \ {0}
  BY AbsModAssumption, AbsLimitAssumption, SeqModAssumption DEF HalfAbs, HalfSeq
<1>2. AbsLimit <= HalfAbs
  BY <1>1
<1>3. TrackSpec => []TrackTypeOK
  BY <1>2, TracksAlways, PTL
<1>4. TrackTypeOK => UnwrapIsClosest
  <2> SUFFICES ASSUME TrackTypeOK PROVE UnwrapIsClosest
    OBVIOUS
  <2>1. sent_isn \in WrappingInt32 /\ value \in Nat /\ value + HalfSeq <= HalfAbs
    BY <1>1 DEF TrackTypeOK
  <2> SUFFICES ASSUME NEW n \in WrappingInt32
               PROVE  LET r       == unwrap(n, sent_isn, value)
                          away(x) == IF x >= value THEN x - value ELSE value - x
                      IN  /\ wrap(r, sent_isn) = n
                          /\ \A x \in 0..(AbsMod - 1) : wrap(x, sent_isn) = n => away(r) <= away(x)
    BY DEF UnwrapIsClosest
  <2> DEFINE r == unwrap(n, sent_isn, value)
  <2>2. /\ r \in Nat /\ wrap(r, sent_isn) = n
        /\ \A x \in Nat : wrap(x, sent_isn) = n =>
               IF r >= value
               THEN r - value <= (IF x >= value THEN x - value ELSE value - x)
               ELSE value - r <= (IF x >= value THEN x - value ELSE value - x)
    BY <2>1, UnwrapClosest
  <2>3. \A x \in 0..(AbsMod - 1) : x \in Nat
    BY <1>1
  <2> HIDE DEF r
  <2>4. \A x \in 0..(AbsMod - 1) : wrap(x, sent_isn) = n =>
            (IF r >= value THEN r - value ELSE value - r)
               <= (IF x >= value THEN x - value ELSE value - x)
    BY <2>2, <2>3
  <2> QED
    BY <2>2, <2>4 DEF r
<1> QED
  BY <1>3, <1>4, PTL

=============================================================================
