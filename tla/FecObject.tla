------------------------------ MODULE FecObject -------------------------------
(***************************************************************************)
(* The arithmetic of an object that is sent with forward error correction: *)
(* what the receiver accepts as its parameters (validate_oti), how many    *)
(* source symbols each of its blocks has, how source_packets() cuts a      *)
(* block into symbols, and what is reserved while it is decoded.           *)
(*                                                                         *)
(* RFC 6330 divides an object into source blocks of symbols, and a symbol  *)
(* into sub-symbols, one for each sub-block.  Sizes need not divide evenly *)
(* at either level: the first parts are larger than the others by one.     *)
(***************************************************************************)
EXTENDS Integers

MAX_VIDEO_PAYLOAD == 64 * 1024 * 1024 + 16
MAX_AUDIO_PAYLOAD == 64 * 1024
MAX_PENDING_OBJECTS == 128
MAX_SOURCE_SYMBOLS == 131072
MAX_BLOCK_SYMBOLS == 56403
MEDIA_HEADER == 12

U8 == {n \in Nat : n < 256}
U16 == {n \in Nat : n < 65536}

\* "as u32"
AsU32(n) == n % 4294967296

\* ObjectTransmissionInformation.
Otis ==
    [transfer_length : Nat, symbol_size : U16, source_blocks : U8, sub_blocks : U16,
     symbol_alignment : U8]

CeilDiv(a, b) == (a + b - 1) \div b

\* raptorq::partition(): n things in m parts.
Partition(n, m) ==
    LET large_parts == n - (n \div m) * m
    IN  [large |-> CeilDiv(n, m), small |-> n \div m,
         large_parts |-> large_parts, small_parts |-> m - large_parts]

Symbols(oti) == CeilDiv(oti.transfer_length, oti.symbol_size)

validate_oti(oti, max_payload) ==
    /\ oti.transfer_length \in MEDIA_HEADER .. max_payload + MEDIA_HEADER
    /\ 0 \notin {oti.symbol_size, oti.source_blocks, oti.symbol_alignment, oti.sub_blocks}
    /\ oti.symbol_size % oti.symbol_alignment = 0
    /\ oti.sub_blocks <= oti.symbol_size \div oti.symbol_alignment
    /\ Symbols(oti) <= MAX_SOURCE_SYMBOLS
    /\ oti.source_blocks <= Symbols(oti)
    /\ CeilDiv(Symbols(oti), oti.source_blocks) <= MAX_BLOCK_SYMBOLS

\* The number of symbols is cast to 32 bits.
Blocks(oti) == Partition(AsU32(Symbols(oti)), oti.source_blocks)

source_symbols_for_block(oti, block) ==
    IF block < Blocks(oti).large_parts THEN Blocks(oti).large ELSE Blocks(oti).small

-----------------------------------------------------------------------------
(***************************************************************************)
(* source_packets(): the bytes of a block, padded to whole symbols, are    *)
(* those of its first sub-block, then those of its second, and so on; each *)
(* sub-block has a part of every symbol in turn.                           *)
(***************************************************************************)
\* calculate_block_offsets() gives a block that many bytes, padding included.
padded_len(oti, block) == source_symbols_for_block(oti, block) * oti.symbol_size

symbol_count(oti, block) == padded_len(oti, block) \div oti.symbol_size

SubBlocks(oti) == Partition(oti.symbol_size \div oti.symbol_alignment, oti.sub_blocks)

\* The bytes of a symbol that are in one sub-block.
width(oti, sub_block) ==
    (IF sub_block < SubBlocks(oti).large_parts THEN SubBlocks(oti).large ELSE SubBlocks(oti).small)
        * oti.symbol_alignment

\* The bytes of a symbol that are in the sub-blocks before one.
WidthBefore(oti, sub_block) ==
    (IF sub_block <= SubBlocks(oti).large_parts
     THEN sub_block * SubBlocks(oti).large
     ELSE SubBlocks(oti).large_parts * SubBlocks(oti).large
             + (sub_block - SubBlocks(oti).large_parts) * SubBlocks(oti).small)
        * oti.symbol_alignment

\* The value of offset when the loops have come to a symbol of a sub-block.
Offset(oti, block, sub_block, symbol) ==
    symbol_count(oti, block) * WidthBefore(oti, sub_block) + symbol * width(oti, sub_block)

-----------------------------------------------------------------------------
reservation(oti) ==
    3 * Symbols(oti) * oti.symbol_size + 128 * Symbols(oti) + 4096 * oti.source_blocks

check_pending(objects, bytes, additional, max_payload) ==
    LET limit == IF max_payload = MAX_VIDEO_PAYLOAD THEN 256 * 1024 * 1024 ELSE 8 * 1024 * 1024
    IN  objects < MAX_PENDING_OBJECTS /\ additional <= limit /\ bytes <= limit - additional
=============================================================================
