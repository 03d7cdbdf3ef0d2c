--------------------------- MODULE FecObjectProofs ----------------------------
(***************************************************************************)
(* What validate_oti() accepts is sound, for every object: its blocks and  *)
(* sub-blocks divide it exactly, the assertion of source_packets() holds   *)
(* and its slices are in range, and nothing overflows.                     *)
(***************************************************************************)
EXTENDS FecObject, TLAPS

LEMMA CeilDivFacts ==
    ASSUME NEW a \in Nat, NEW b \in Nat \ {0}
    PROVE  /\ CeilDiv(a, b) \in Nat
           /\ a <= b * CeilDiv(a, b) /\ b * CeilDiv(a, b) < a + b
BY DEF CeilDiv

\* The parts of a partition are n things in all, and there are m of them.  All
\* parts are large or small, which differ by one at most.
LEMMA PartitionFacts ==
    ASSUME NEW n \in Nat, NEW m \in Nat \ {0}
    PROVE  LET p == Partition(n, m)
           IN  /\ p.large \in Nat /\ p.small \in Nat
               /\ p.large_parts \in Nat /\ p.small_parts \in Nat
               /\ p.large_parts < m /\ p.large_parts + p.small_parts = m
               /\ p.small <= p.large /\ p.large <= p.small + 1
               /\ p.large_parts * p.large + p.small_parts * p.small = n
               /\ m <= n => p.small >= 1
<1> DEFINE q == n \div m
           l == n - q * m
           c == CeilDiv(n, m)
<1>1. q \in Nat /\ q * m <= n /\ n < q * m + m
  OBVIOUS
<1>2. c \in Nat /\ n <= m * c /\ m * c < n + m
  BY CeilDivFacts
<1>3. Partition(n, m) = [large |-> c, small |-> q, large_parts |-> l, small_parts |-> m - l]
  BY DEF Partition
<1> HIDE DEF q, c
<1>4. l \in 0 .. m - 1
  BY <1>1
<1>5. IF l = 0 THEN c = q ELSE c = q + 1
  BY <1>1, <1>2
<1>6. l * c + (m - l) * q = n
  BY <1>1, <1>5
<1>7. m <= n => q >= 1
  BY <1>1
<1> HIDE DEF l
<1> QED BY <1>1, <1>2, <1>3, <1>4, <1>5, <1>6, <1>7

\* The cast loses nothing of a number of symbols that was accepted.
LEMMA Casts ==
    ASSUME NEW n \in Nat, n <= MAX_SOURCE_SYMBOLS
    PROVE  AsU32(n) = n
BY SMT DEF MAX_SOURCE_SYMBOLS, AsU32

\* The facts about the parameters that the theorems use.
LEMMA ValidFacts ==
    ASSUME NEW oti \in Otis, NEW max_payload \in Nat, validate_oti(oti, max_payload)
    PROVE  /\ oti.transfer_length \in Nat \ {0} /\ oti.symbol_size \in Nat \ {0}
           /\ oti.source_blocks \in Nat \ {0} /\ oti.sub_blocks \in Nat \ {0}
           /\ oti.symbol_alignment \in Nat \ {0}
           /\ Symbols(oti) \in Nat \ {0} /\ Symbols(oti) <= MAX_SOURCE_SYMBOLS
           /\ oti.source_blocks <= Symbols(oti)
           /\ oti.transfer_length <= oti.symbol_size * Symbols(oti)
           /\ oti.symbol_size * Symbols(oti) < oti.transfer_length + oti.symbol_size
<1>1. /\ oti.transfer_length \in Nat \ {0} /\ oti.symbol_size \in Nat \ {0}
      /\ oti.source_blocks \in Nat \ {0} /\ oti.sub_blocks \in Nat \ {0}
      /\ oti.symbol_alignment \in Nat \ {0}
  <2>1. /\ oti.transfer_length \in Nat /\ oti.symbol_size \in U16 /\ oti.source_blocks \in U8
        /\ oti.sub_blocks \in U16 /\ oti.symbol_alignment \in U8
    BY DEF Otis
  <2>2. /\ oti.symbol_size # 0 /\ oti.source_blocks # 0
        /\ oti.sub_blocks # 0 /\ oti.symbol_alignment # 0
    BY DEF validate_oti
  <2>3. oti.transfer_length # 0
    BY SMT DEF validate_oti, MEDIA_HEADER
  <2> QED BY <2>1, <2>2, <2>3, SMT DEF U8, U16
<1>2. /\ Symbols(oti) \in Nat
      /\ oti.transfer_length <= oti.symbol_size * Symbols(oti)
      /\ oti.symbol_size * Symbols(oti) < oti.transfer_length + oti.symbol_size
  BY <1>1, CeilDivFacts DEF Symbols
<1>3. oti.source_blocks <= Symbols(oti) /\ Symbols(oti) <= MAX_SOURCE_SYMBOLS
  BY DEF validate_oti
<1> QED BY <1>1, <1>2, <1>3, SMT

(***************************************************************************)
(* The blocks of an object that validate_oti() accepted have all of its    *)
(* symbols, and each has between 1 and MAX_BLOCK_SYMBOLS of them, which is *)
(* what the decoder of RaptorQ can handle.  The cast of                    *)
(* source_symbols_for_block() to 32 bits loses nothing.                    *)
(***************************************************************************)
THEOREM BlocksDivideObject ==
    ASSUME NEW oti \in Otis, NEW max_payload \in Nat, validate_oti(oti, max_payload)
    PROVE  /\ \A block \in 0 .. oti.source_blocks - 1 :
                 source_symbols_for_block(oti, block) \in 1 .. MAX_BLOCK_SYMBOLS
           /\ Blocks(oti).large_parts \in 0 .. oti.source_blocks
           /\ Blocks(oti).large_parts * Blocks(oti).large
                 + (oti.source_blocks - Blocks(oti).large_parts) * Blocks(oti).small
                    = Symbols(oti)
<1>1. /\ Symbols(oti) \in Nat \ {0} /\ Symbols(oti) <= MAX_SOURCE_SYMBOLS
      /\ oti.source_blocks \in Nat \ {0}
      /\ oti.source_blocks <= Symbols(oti)
  BY ValidFacts
<1>2. AsU32(Symbols(oti)) = Symbols(oti) /\ Symbols(oti) \in Nat
  BY <1>1, Casts
<1>3. Blocks(oti) = Partition(Symbols(oti), oti.source_blocks)
  BY <1>2 DEF Blocks
<1>4. Blocks(oti).large <= MAX_BLOCK_SYMBOLS
  BY <1>3 DEF validate_oti, Partition
<1> DEFINE p == Blocks(oti)
<1>5. /\ p.large \in Nat /\ p.small \in Nat
      /\ p.large_parts \in Nat /\ p.small_parts \in Nat
      /\ p.large_parts < oti.source_blocks
      /\ p.large_parts + p.small_parts = oti.source_blocks
      /\ p.small <= p.large
      /\ p.large_parts * p.large + p.small_parts * p.small = Symbols(oti)
      /\ p.small >= 1
  BY <1>1, <1>2, <1>3, PartitionFacts
<1>6. p.small_parts = oti.source_blocks - p.large_parts
  BY <1>1, <1>5
<1>7. MAX_BLOCK_SYMBOLS \in Nat
  BY SMT DEF MAX_BLOCK_SYMBOLS
<1> QED BY <1>1, <1>4, <1>5, <1>6, <1>7, SMT DEF source_symbols_for_block

-----------------------------------------------------------------------------
\* The sub-blocks have all bytes of a symbol.
LEMMA Widths ==
    ASSUME NEW oti \in Otis, NEW max_payload \in Nat, validate_oti(oti, max_payload)
    PROVE  /\ \A s \in 0 .. oti.sub_blocks :
                 /\ WidthBefore(oti, s) \in Nat /\ WidthBefore(oti, s) <= oti.symbol_size
                 /\ width(oti, s) \in Nat \ {0}
           /\ \A s \in 0 .. oti.sub_blocks - 1 :
                 WidthBefore(oti, s + 1) = WidthBefore(oti, s) + width(oti, s)
           /\ WidthBefore(oti, 0) = 0
           /\ WidthBefore(oti, oti.sub_blocks) = oti.symbol_size
<1> DEFINE a == oti.symbol_alignment
           n == oti.symbol_size \div a
           m == oti.sub_blocks
           p == SubBlocks(oti)
           l == p.large_parts
           units(s) == IF s <= l THEN s * p.large ELSE l * p.large + (s - l) * p.small
           unit(s) == IF s < l THEN p.large ELSE p.small
<1>1. a \in Nat \ {0} /\ oti.symbol_size \in Nat /\ m \in Nat \ {0}
  BY ValidFacts
<1>2. n \in Nat /\ n * a = oti.symbol_size /\ m <= n
  BY <1>1 DEF validate_oti
<1>3. p = Partition(n, m)
  BY DEF SubBlocks
<1>4. /\ \A s : WidthBefore(oti, s) = units(s) * a
      /\ \A s : width(oti, s) = unit(s) * a
  BY DEF WidthBefore, width
<1> HIDE DEF n, a, m, p
<1>5. /\ p.large \in Nat /\ p.small \in Nat /\ l \in Nat /\ l < m
      /\ p.small <= p.large /\ p.small >= 1
      /\ l * p.large + (m - l) * p.small = n
  <2>1. /\ p.large \in Nat /\ p.small \in Nat /\ l \in Nat /\ p.small_parts \in Nat
        /\ l < m /\ l + p.small_parts = m
        /\ p.small <= p.large /\ p.small >= 1
        /\ l * p.large + p.small_parts * p.small = n
    BY <1>1, <1>2, <1>3, PartitionFacts
  <2>2. p.small_parts = m - l
    BY <1>1, <2>1
  <2> QED BY <2>1, <2>2
<1> HIDE DEF l
<1>6. ASSUME NEW s \in 0 .. m
      PROVE  units(s) \in Nat /\ units(s) <= n /\ unit(s) \in Nat \ {0}
  BY <1>1, <1>2, <1>5
<1>7. ASSUME NEW s \in 0 .. m - 1
      PROVE  units(s + 1) = units(s) + unit(s)
  <2>1. CASE s < l
    BY <1>1, <1>5, <2>1
  <2>2. CASE s = l
    BY <1>1, <1>5, <2>2
  <2>3. CASE s > l
    BY <1>1, <1>5, <2>3
  <2> QED BY <1>5, <2>1, <2>2, <2>3
<1>8. units(0) = 0 /\ units(m) = n
  BY <1>1, <1>5
<1> HIDE DEF units, unit
<1>9. ASSUME NEW s \in 0 .. m
      PROVE  /\ units(s) * a \in Nat /\ units(s) * a <= oti.symbol_size
             /\ unit(s) * a \in Nat \ {0}
  BY <1>1, <1>2, <1>6
<1>10. ASSUME NEW s \in 0 .. m - 1
       PROVE  units(s + 1) * a = units(s) * a + unit(s) * a
  <2>1. units(s) \in Nat /\ unit(s) \in Nat
    BY <1>1, <1>6
  <2> QED BY <1>1, <1>7, <2>1
<1>11. units(0) * a = 0 /\ units(m) * a = oti.symbol_size
  BY <1>1, <1>2, <1>8
<1> QED BY <1>4, <1>9, <1>10, <1>11 DEF m

(***************************************************************************)
(* The loops of source_packets(), for every block of an object that        *)
(* validate_oti() accepts: the offset starts at 0, every slice is within   *)
(* the padded block and not empty, the slices follow one another, and the  *)
(* assertion at the end, that the whole block was used, holds.             *)
(***************************************************************************)
THEOREM SlicesTileBlock ==
    ASSUME NEW oti \in Otis, NEW max_payload \in Nat, validate_oti(oti, max_payload),
           NEW block \in 0 .. oti.source_blocks - 1
    PROVE  /\ Offset(oti, block, 0, 0) = 0
           /\ \A s \in 0 .. oti.sub_blocks - 1, i \in 0 .. symbol_count(oti, block) - 1 :
                 LET end == Offset(oti, block, s, i) + width(oti, s)
                 IN  /\ Offset(oti, block, s, i) < end
                     /\ end <= padded_len(oti, block)
                     /\ end = IF i + 1 < symbol_count(oti, block)
                              THEN Offset(oti, block, s, i + 1)
                              ELSE Offset(oti, block, s + 1, 0)
           /\ Offset(oti, block, oti.sub_blocks, 0) = padded_len(oti, block)
<1> DEFINE k == source_symbols_for_block(oti, block)
           size == oti.symbol_size
           m == oti.sub_blocks
           w(s) == width(oti, s)
           b(s) == WidthBefore(oti, s)
<1>1. k \in Nat \ {0}
  <2>1. k \in 1 .. MAX_BLOCK_SYMBOLS
    BY BlocksDivideObject
  <2> HIDE DEF k
  <2>2. MAX_BLOCK_SYMBOLS \in Nat
    BY SMT DEF MAX_BLOCK_SYMBOLS
  <2> QED BY <2>1, <2>2, SMT
<1>2. size \in Nat \ {0} /\ m \in Nat \ {0}
  BY ValidFacts
<1>3. padded_len(oti, block) = k * size
  BY DEF padded_len
<1>4. symbol_count(oti, block) = k
  <2> HIDE DEF k, size
  <2>1. (k * size) \div size = k
    BY <1>1, <1>2
  <2> QED BY <1>3, <2>1 DEF symbol_count, size
<1>5. /\ \A s \in 0 .. m : b(s) \in Nat /\ b(s) <= size /\ w(s) \in Nat \ {0}
      /\ \A s \in 0 .. m - 1 : b(s + 1) = b(s) + w(s)
      /\ b(0) = 0 /\ b(m) = size
  BY Widths
<1>6. \A s, i : Offset(oti, block, s, i) = k * b(s) + i * w(s)
  BY <1>4 DEF Offset
<1> HIDE DEF k, size, w, b, m
<1>7. 0 \in 0 .. m /\ m \in 0 .. m
  BY <1>2
<1>8. k * b(0) + 0 * w(0) = 0
  BY <1>1, <1>5, <1>7
<1>9. k * b(m) + 0 * w(m) = k * size
  BY <1>1, <1>2, <1>5, <1>7
<1>10. ASSUME NEW s \in 0 .. m - 1, NEW i \in 0 .. k - 1
       PROVE  LET end == k * b(s) + i * w(s) + w(s)
              IN  /\ k * b(s) + i * w(s) < end
                  /\ end <= k * size
                  /\ end = IF i + 1 < k THEN k * b(s) + (i + 1) * w(s)
                                        ELSE k * b(s + 1) + 0 * w(s + 1)
  <2>1. s \in 0 .. m /\ s + 1 \in 0 .. m /\ i \in Nat /\ i + 1 <= k
    BY <1>1, <1>2
  <2>2. /\ b(s) \in Nat /\ w(s) \in Nat \ {0} /\ w(s + 1) \in Nat
        /\ b(s) + w(s) <= size /\ b(s + 1) = b(s) + w(s)
    BY <1>5, <2>1
  <2>3. i * w(s) + w(s) = (i + 1) * w(s)
    BY <2>1, <2>2
  <2>4. (i + 1) * w(s) <= k * w(s)
    BY <1>1, <2>1, <2>2
  <2>5. k * b(s) + k * w(s) = k * (b(s) + w(s)) /\ k * (b(s) + w(s)) <= k * size
    BY <1>1, <1>2, <2>2
  <2>6. k * b(s) \in Nat /\ i * w(s) \in Nat /\ k * w(s) \in Nat /\ k * size \in Nat
    BY <1>1, <1>2, <2>1, <2>2
  <2>7. CASE i + 1 < k
    BY <2>2, <2>3, <2>4, <2>5, <2>6, <2>7
  <2>8. CASE i + 1 = k
    <3>1. 0 * w(s + 1) = 0
      BY <2>2
    <3> QED BY <2>2, <2>3, <2>5, <2>6, <2>8, <3>1
  <2> QED BY <1>1, <2>1, <2>7, <2>8
<1> QED BY <1>3, <1>4, <1>6, <1>8, <1>9, <1>10 DEF m, w

-----------------------------------------------------------------------------
(***************************************************************************)
(* reservation() covers three times the object and fits in 32 bits, and    *)
(* check_pending() admits every video object that validate_oti() accepts   *)
(* when nothing else is pending: a packet is never refused for its own     *)
(* size, so retiring others always makes room for it.                      *)
(***************************************************************************)
THEOREM VideoObjectsFit ==
    ASSUME NEW oti \in Otis, validate_oti(oti, MAX_VIDEO_PAYLOAD)
    PROVE  /\ 3 * oti.transfer_length <= reservation(oti)
           /\ reservation(oti) < 4294967296
           /\ check_pending(0, 0, reservation(oti), MAX_VIDEO_PAYLOAD)
<1> DEFINE n == Symbols(oti)
           size == oti.symbol_size
           length == oti.transfer_length
<1>1. MAX_VIDEO_PAYLOAD \in Nat
  BY SMT DEF MAX_VIDEO_PAYLOAD
<1>2. /\ n \in Nat /\ n <= MAX_SOURCE_SYMBOLS
      /\ size \in Nat /\ length \in Nat
      /\ length <= size * n /\ size * n < length + size
  BY <1>1, ValidFacts
<1>3. size < 65536 /\ oti.source_blocks \in Nat /\ oti.source_blocks < 256
  BY SMT DEF Otis, U8, U16
<1>4. length <= MAX_VIDEO_PAYLOAD + MEDIA_HEADER
  BY <1>1, <1>2, SMT DEF validate_oti, MEDIA_HEADER
<1>5. reservation(oti) = 3 * (size * n) + 128 * n + 4096 * oti.source_blocks
  <2>1. 3 * n * size = 3 * (size * n)
    BY <1>2, SMT
  <2> QED BY <2>1 DEF reservation
<1> HIDE DEF n, size, length
<1> DEFINE bytes == size * n
<1>6. bytes \in Nat
  BY <1>2, SMT
<1>7. length <= bytes /\ bytes < length + size
  BY <1>2, SMT
<1>8. reservation(oti) = 3 * bytes + 128 * n + 4096 * oti.source_blocks
  BY <1>5
<1> HIDE DEF bytes
<1>9. /\ 3 * length <= reservation(oti)
      /\ reservation(oti) \in Nat /\ reservation(oti) <= 256 * 1024 * 1024
  BY <1>2, <1>3, <1>4, <1>6, <1>7, <1>8, SMT
     DEF MAX_SOURCE_SYMBOLS, MAX_VIDEO_PAYLOAD, MEDIA_HEADER
<1> QED BY <1>9, SMT DEF check_pending, MAX_PENDING_OBJECTS, length

(***************************************************************************)
(* So it is with audio objects, except those whose symbols have a single   *)
(* byte, which no sender makes.                                            *)
(***************************************************************************)
THEOREM AudioObjectsFit ==
    ASSUME NEW oti \in Otis, validate_oti(oti, MAX_AUDIO_PAYLOAD), oti.symbol_size >= 2
    PROVE  check_pending(0, 0, reservation(oti), MAX_AUDIO_PAYLOAD)
<1> DEFINE n == Symbols(oti)
           size == oti.symbol_size
           length == oti.transfer_length
<1>1. MAX_AUDIO_PAYLOAD \in Nat
  BY SMT DEF MAX_AUDIO_PAYLOAD
<1>2. /\ n \in Nat \ {0} /\ size \in Nat /\ size >= 2 /\ length \in Nat
      /\ length <= size * n /\ size * n < length + size
  BY <1>1, ValidFacts
<1>3. size < 65536 /\ oti.source_blocks \in Nat /\ oti.source_blocks < 256
  BY SMT DEF Otis, U8, U16
<1>4. length <= MAX_AUDIO_PAYLOAD + MEDIA_HEADER
  BY <1>1, <1>2, SMT DEF validate_oti, MEDIA_HEADER
<1>5. reservation(oti) = 3 * (size * n) + 128 * n + 4096 * oti.source_blocks
  <2>1. 3 * n * size = 3 * (size * n)
    BY <1>2, SMT
  <2> QED BY <2>1 DEF reservation
<1> HIDE DEF n, size, length
<1>6. 2 * (n - 1) <= size * (n - 1) /\ size * (n - 1) = size * n - size
  BY <1>2, SMT
<1> DEFINE bytes == size * n
<1>7. bytes \in Nat /\ bytes < length + size /\ 2 * (n - 1) < length
  BY <1>2, <1>6, SMT
<1>8. reservation(oti) = 3 * bytes + 128 * n + 4096 * oti.source_blocks
  BY <1>5
<1> HIDE DEF bytes
<1>9. reservation(oti) \in Nat /\ reservation(oti) <= 8 * 1024 * 1024
  BY <1>2, <1>3, <1>4, <1>7, <1>8, SMT DEF MAX_AUDIO_PAYLOAD, MEDIA_HEADER
<1>10. MAX_AUDIO_PAYLOAD # MAX_VIDEO_PAYLOAD
  BY SMT DEF MAX_AUDIO_PAYLOAD, MAX_VIDEO_PAYLOAD
<1> QED BY <1>9, <1>10, SMT DEF check_pending, MAX_PENDING_OBJECTS
=============================================================================
