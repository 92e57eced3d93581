--------------------------------- MODULE Lzw ---------------------------------
(***************************************************************************)
(* The LZW compressor (lzw.c): lzw_compress reads bytes, writes symbols in *)
(* adjusted binary and builds a dictionary of strings; lzw_decompress      *)
(* rebuilds the dictionary from the symbols, one entry behind. A step is   *)
(* one turn of the loop of either function.                                *)
(*                                                                         *)
(* The sizes are parameters: a byte has BYTE_BITS bits, and the dictionary *)
(* LZW_TOTAL_CODES codes. The shifters of the two functions are left out:  *)
(* the output is a sequence of bits, of which every BYTE_BITS make a byte. *)
(***************************************************************************)
EXTENDS Integers, Sequences, SequencesExt

CONSTANTS
  BYTE_BITS, LZW_MAX_BITS,     \* 8 and 11 in lzw.c
  SLACK,                       \* 8: bytes of expansion before a reset
  MaxInput, MaxStream,         \* bounds: bytes compressed, bits of any stream
  Rooms                        \* sizes of the destination arrays

\* With bytes of one bit the first string could fill the dictionary.
ASSUME LzwAssumption ==
  /\ BYTE_BITS \in Nat /\ BYTE_BITS > 1
  /\ LZW_MAX_BITS \in Nat /\ LZW_MAX_BITS > BYTE_BITS
  /\ SLACK \in Nat /\ MaxInput \in Nat /\ MaxStream \in Nat /\ Rooms \subseteq Nat

Power[b \in Nat] == IF b = 0 THEN 1 ELSE 2 * Power[b - 1]    \* of two

BASE == Power[BYTE_BITS]
Bytes == 0..(BASE - 1)
LZW_TOTAL_CODES == Power[LZW_MAX_BITS]
NULL_CODE == -1
CLEAR_CODE == BASE
FIRST_STRING == BASE + 1

VARIABLES
  doing,                       \* "compress", "decompress", or what was returned
  dst_max_bytes,
  src,                         \* the bytes compressed so far
  enc,                         \* locals of lzw_compress
  stream,                      \* what follows the first byte, as bits
  dec                          \* locals of lzw_decompress

vars == <<doing, dst_max_bytes, src, enc, stream, dec>>

-----------------------------------------------------------------------------
(* Symbols. *)

Log(n) == CHOOSE b \in BYTE_BITS..LZW_MAX_BITS : Power[b] <= n /\ n < Power[b + 1]
code_bits(maxcode) == Log(maxcode)
extras(maxcode) == Power[code_bits(maxcode) + 1] - maxcode - 1
\* The lowest bit first.
Binary(n, width) ==
  LET rest[b \in 0..width] == IF b = 0 THEN n ELSE rest[b - 1] \div 2
  IN  [b \in 1..width |-> rest[b - 1] % 2]
Number(s) ==
  LET from[b \in 0..Len(s)] == IF b = Len(s) THEN 0 ELSE s[b + 1] + 2 * from[b + 1]
  IN  from[0]

\* WRITE_CODE: low codes take code_bits bits, the others one more.
Symbol(code, maxcode) ==
  LET e == extras(maxcode)
  IN  IF code < e THEN Binary(code, code_bits(maxcode))
      ELSE Append(Binary((code + e) \div 2, code_bits(maxcode)), (code + e) % 2)

Whole(s) == Len(s) \div BYTE_BITS
Padded(s) == s \o [n \in 1..((-Len(s)) % BYTE_BITS) |-> 0]
\* Variant: the first byte is forgotten.
FitsVariant(s) == Whole(s) <= dst_max_bytes
\* The first byte of the array is LZW_MAX_BITS.
Fits(s) == 1 + Whole(s) <= dst_max_bytes

-----------------------------------------------------------------------------
(* lzw_compress. enc.strings is the dictionary, kept in the code as lists  *)
(* of the strings one byte longer than a string.                           *)

Compressing(c) == doing = "compress" /\ Len(src) < MaxInput /\ src' = Append(src, c)

FirstByte(c) ==
  /\ Compressing(c) /\ enc.prefix = NULL_CODE
  /\ enc' = [enc EXCEPT !.prefix = c, !.input_bytes = @ + 1]
  /\ UNCHANGED <<doing, dst_max_bytes, stream, dec>>

\* The string and this byte are in the dictionary: nothing is sent.
LongerString(c) ==
  /\ Compressing(c) /\ <<enc.prefix, c>> \in DOMAIN enc.strings
  /\ enc' = [enc EXCEPT !.prefix = enc.strings[<<enc.prefix, c>>], !.input_bytes = @ + 1]
  /\ UNCHANGED <<doing, dst_max_bytes, stream, dec>>

\* The symbol of the string is sent, the new string defined, and the
\* dictionary cleared when it is full or does not compress.
SendPrefix(c) ==
  LET sent == stream \o Symbol(enc.prefix, enc.next)
      next == enc.next + 1
      input == enc.input_bytes + 1
      output == enc.output_bytes + Whole(sent) - Whole(stream)
      full == next = LZW_TOTAL_CODES
      reset == full \/ output > SLACK + input + input \div 16
  IN /\ Compressing(c) /\ enc.prefix # NULL_CODE
     /\ <<enc.prefix, c>> \notin DOMAIN enc.strings
     /\ stream' = IF reset /\ ~full THEN sent \o Symbol(CLEAR_CODE, next) ELSE sent
     /\ enc' = IF reset
               THEN [next |-> FIRST_STRING, prefix |-> c, strings |-> <<>>,
                     input_bytes |-> 0, output_bytes |-> 0]
               ELSE [next |-> next, prefix |-> c, input_bytes |-> input, output_bytes |-> output,
                     strings |-> [s \in DOMAIN enc.strings \union {<<enc.prefix, c>>} |->
                       IF s = <<enc.prefix, c>> THEN enc.next ELSE enc.strings[s]]]
     /\ doing' = IF Fits(stream') THEN doing ELSE "no room"
     /\ UNCHANGED <<dst_max_bytes, dec>>

\* Variant: a dictionary that the last symbol fills is not cleared.
CompressEndVariant ==
  LET last == IF enc.prefix = NULL_CODE THEN <<>> ELSE Symbol(enc.prefix, enc.next)
      next == IF enc.prefix = NULL_CODE THEN enc.next ELSE enc.next + 1
  IN /\ doing = "compress"
     /\ stream' = Padded(stream \o last \o Symbol(next, next))
     /\ doing' = IF Fits(stream') THEN "decompress" ELSE "no room"
     /\ UNCHANGED <<dst_max_bytes, src, enc, dec>>

\* The input is at its end: the pending string, the code that is not used, and
\* what is left of the last byte.
CompressEnd ==
  LET pending == enc.prefix # NULL_CODE
      last == IF pending THEN Symbol(enc.prefix, enc.next) ELSE <<>>
      next == IF ~pending THEN enc.next
              ELSE IF enc.next + 1 = LZW_TOTAL_CODES THEN FIRST_STRING ELSE enc.next + 1
  IN /\ doing = "compress"
     /\ stream' = Padded(stream \o last \o Symbol(next, next))
     /\ doing' = IF Fits(stream') THEN "decompress" ELSE "no room"
     /\ UNCHANGED <<dst_max_bytes, src, enc, dec>>

-----------------------------------------------------------------------------
(* lzw_decompress. A code is read from the position dec.at of the stream.  *)

Width == code_bits(dec.next)
Bit(n) == IF n <= Len(stream) THEN stream[n] ELSE 0
Low == Number([b \in 1..Width |-> Bit(dec.at + b)])
Long == Low >= extras(dec.next)
AtEnd == \/ dec.at + Width > Len(stream)
         \/ Long /\ dec.at + Width + 1 > Len(stream)
Code == IF Long THEN 2 * Low - extras(dec.next) + Bit(dec.at + Width + 1) ELSE Low
Read == [dec EXCEPT !.at = @ + Width + (IF Long THEN 1 ELSE 0), !.prefix = Code]

Decompressing == doing = "decompress" /\ ~AtEnd
Returns(what) == doing' = what /\ UNCHANGED <<dst_max_bytes, src, enc, stream>>
Goes_on == Returns(doing)

\* The string of a code in the tables of d, found backwards in reverse_buffer.
String(d, code) ==
  LET back[c \in -1..(LZW_TOTAL_CODES - 1)] ==
        IF c < BASE THEN <<c>> ELSE Append(back[d.prefixes[c]], d.terminators[c])
  IN  back[code]

InputEnds == doing = "decompress" /\ AtEnd /\ Returns("input ends") /\ UNCHANGED dec

EndCode ==
  /\ Decompressing /\ Code = dec.next
  /\ Returns("end") /\ dec' = [Read EXCEPT !.prefix = dec.prefix]

ClearCode ==
  /\ Decompressing /\ Code # dec.next /\ Code = CLEAR_CODE
  /\ dec' = [Read EXCEPT !.next = FIRST_STRING]
  /\ Goes_on

\* The first code after the start or a clear is a byte.
FirstSymbol ==
  /\ Decompressing /\ Code \notin {dec.next, CLEAR_CODE} /\ dec.prefix = CLEAR_CODE
  /\ IF Len(dec.dst) >= dst_max_bytes THEN Returns("no room") /\ UNCHANGED dec
     ELSE /\ dec' = [Read EXCEPT !.dst = Append(@, Code), !.next = @ + 1]
          /\ Goes_on

\* Variant: the entry that is just being made is looked up like the others.
StringSymbolVariant ==
  LET text == String(dec, Code)
      next == dec.next + 1
  IN /\ Decompressing /\ Code \notin {dec.next, CLEAR_CODE} /\ dec.prefix # CLEAR_CODE
     /\ IF Len(dec.dst) + Len(text) > dst_max_bytes THEN Returns("no room") /\ UNCHANGED dec
        ELSE /\ dec' = [Read EXCEPT !.dst = @ \o text,
                          !.prefixes[dec.next - 1] = dec.prefix,
                          !.terminators[dec.next - 1] = Head(text),
                          !.next = IF next = LZW_TOTAL_CODES THEN FIRST_STRING ELSE next]
             /\ Goes_on

\* Any other code: its string is sent, and completes the entry begun by the
\* code before it, which may be the one that this code names.
StringSymbol ==
  LET own == Code = dec.next - 1
      known == String(dec, IF own THEN dec.prefix ELSE Code)
      text == IF own THEN Append(known, Head(known)) ELSE known
      next == dec.next + 1
  IN /\ Decompressing /\ Code \notin {dec.next, CLEAR_CODE} /\ dec.prefix # CLEAR_CODE
     /\ IF Len(dec.dst) + Len(text) > dst_max_bytes THEN Returns("no room") /\ UNCHANGED dec
        ELSE /\ dec' = [Read EXCEPT !.dst = @ \o text,
                          !.prefixes[dec.next - 1] = dec.prefix,
                          !.terminators[dec.next - 1] = Head(known),
                          !.next = IF next = LZW_TOTAL_CODES THEN FIRST_STRING ELSE next]
             /\ Goes_on

-----------------------------------------------------------------------------
\* Bytes to compress, or a stream from somewhere else. The tables of the
\* decompressor are not initialized: -1 stands for whatever is in them.
Streams == UNION {[1..n -> {0, 1}] : n \in {k \in 0..MaxStream : k % BYTE_BITS = 0}}
Fresh == [at |-> 0, next |-> FIRST_STRING, prefix |-> CLEAR_CODE, dst |-> <<>>,
          prefixes |-> [c \in BASE..(LZW_TOTAL_CODES - 1) |-> -1],
          terminators |-> [c \in BASE..(LZW_TOTAL_CODES - 1) |-> -1]]
Init ==
  /\ \/ doing = "compress" /\ stream = <<>> /\ dst_max_bytes \in Rooms
     \/ doing = "decompress" /\ stream \in Streams /\ dst_max_bytes \in Rooms
  /\ src = <<>>
  /\ enc = [next |-> FIRST_STRING, prefix |-> NULL_CODE, strings |-> <<>>,
            input_bytes |-> 0, output_bytes |-> 0]
  /\ dec = Fresh

Compress == CompressEnd \/ \E c \in Bytes : FirstByte(c) \/ LongerString(c) \/ SendPrefix(c)
Decompress == InputEnds \/ EndCode \/ ClearCode \/ FirstSymbol \/ StringSymbol
Next == Compress \/ Decompress
Spec == Init /\ [][Next]_vars

-----------------------------------------------------------------------------
(* Properties. *)

\* Type invariant.
LzwTypeOK ==
  /\ doing \in {"compress", "decompress", "end", "no room", "input ends"}
  /\ src \in Seq(Bytes) /\ stream \in Seq({0, 1}) /\ dec.dst \in Seq(Bytes)
  /\ enc.next \in FIRST_STRING..(LZW_TOTAL_CODES - 1)
  /\ dec.next \in FIRST_STRING..(LZW_TOTAL_CODES - 1)
  /\ dec.prefix \in 0..(LZW_TOTAL_CODES - 1)

\* What lzw_compress returns, lzw_decompress turns back into what it was made
\* from, never reports an error of the input, and leaves nothing of it unread:
\* the two dictionaries are in step wherever one was full, cleared early, full
\* and not compressing, or full with the very last symbol (lzw.c:194), although
\* the decoder may use an entry while it is being made.
Compressed == doing # "compress" /\ enc.prefix # NULL_CODE
RoundTrip ==
  Compressed => /\ doing = "end" => dec.dst = src /\ Len(stream) - dec.at < BYTE_BITS
                /\ doing # "input ends"
                /\ doing = "decompress" => IsPrefix(dec.dst, src)

\* Neither the encoder nor the decoder writes beyond the destination, and the
\* decoder gives up only when the text would not fit (lzw.c:90, 271-292).
WithinRoom ==
  /\ Len(dec.dst) <= dst_max_bytes
  /\ Compressed /\ doing # "no room" => 1 + Whole(stream) <= dst_max_bytes
  /\ Compressed /\ dec.at > 0 /\ doing = "no room" => Len(src) > dst_max_bytes

\* Whatever the stream, damaged or not, the decoder reads only entries of its
\* tables that it has made since the last clear, each built on an earlier one:
\* a string is found in at most as many steps as reverse_buffer has cells.
TablesDescend ==
  \A c \in FIRST_STRING..(dec.next - 2) :
    /\ dec.prefixes[c] \in (0..(c - 1)) \ {CLEAR_CODE}
    /\ dec.terminators[c] \in Bytes
    /\ Len(String(dec, c)) < LZW_TOTAL_CODES - BASE
=============================================================================
