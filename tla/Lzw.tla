--------------------------------- MODULE Lzw ---------------------------------
(***************************************************************************)
(* The compressor of lzw.c and the decompressor of unlzw.c.                *)
(*                                                                         *)
(* Neither side writes down how wide a code is: each widens its codes when *)
(* its own table has grown, and the two tables grow at different moments.  *)
(* The compressor keeps code width and bit buffer in static variables from *)
(* one call to the next.  The decompressor reads whatever a file holds, so *)
(* it is also given streams the compressor has not written.                *)
(*                                                                         *)
(* A byte has SymBits bits where it is compressed and ByteBits where codes *)
(* are packed into it: both are 8 in the code, and scaled down for TLC.    *)
(***************************************************************************)
EXTENDS Integers, SequencesExt

CONSTANTS
  SymBits, ByteBits,   \* 8 and 8
  MaxBits,             \* MAXBITS, 15
  BufBits,             \* bits of the bit buffer, an unsigned int: 32
  Inputs,              \* bound: what is compressed
  Sizes,               \* bound: sizes of the output buffer
  AgainInputs,         \* bound: what is compressed after a failed call
  Damaged              \* bound: streams read that were not written here

Symbol    == 0 .. 2^SymBits - 1
Byte      == 0 .. 2^ByteBits - 1
First     == 2^SymBits
StartBits == SymBits + 1
TableSize == 2^MaxBits

ASSUME BitsAssumption ==
  /\ SymBits \in Nat \ {0} /\ ByteBits \in 1 .. StartBits
  /\ MaxBits \in Nat /\ MaxBits >= StartBits
  /\ BufBits \in Nat /\ BufBits > MaxBits + ByteBits
ASSUME InputsAssumption ==
  /\ Inputs \subseteq Seq(Symbol) \ {<<>>} /\ AgainInputs \subseteq Inputs
  /\ Sizes \subseteq Nat /\ Damaged \subseteq Seq(Byte) \ {<<>>}

VARIABLES
  pc,        \* "idle", "compress", "flush", "packed", "decompress" or "returned"
  n_bits, bits, buf,   \* statics of putcode; max_code is always 2^n_bits
  stale,     \* history: the last call of compress failed
  enc,       \* the call of compress
  dec,       \* the call of decompress
  rc         \* the result of the last call

putcodeVars == <<n_bits, bits, buf>>
lzwVars == <<pc, putcodeVars, stale, enc, dec, rc>>

\* t_hash and t_code: dict[k] is the string that code First + k - 1 stands for,
\* as a code followed by a symbol.  pure: the statics were as they should be.
NoEnc == [i_buf |-> <<>>, o_buf_size |-> 0, i_buf_ptr |-> 0, ent |-> 0,
          dict |-> <<>>, out |-> <<>>, pure |-> FALSE]

\* t_pred[First + k - 1] and t_suff[First + k - 1] are pred[k] and suff[k].
NoDec == [i_buf |-> <<>>, o_buf_size |-> 0, last_code |-> 0, i_buf_ptr |-> 0,
          n_bits |-> StartBits, bits |-> 0, buf |-> 0,
          pred |-> <<>>, suff |-> <<>>, out |-> <<>>]

LzwInit ==
  /\ pc = "idle"
  /\ n_bits = StartBits /\ bits = 0 /\ buf = 0 /\ stale = FALSE
  /\ enc = NoEnc /\ dec = NoDec /\ rc = 0

EncFree(dict) == First + Len(dict)
DecFree(pred) == First + Len(pred)

-----------------------------------------------------------------------------
(* compress *)

\* The lowest n bytes of a number.
LowBytes(v, n) == [k \in 1 .. n |-> (v \div 2^(ByteBits * (k - 1))) % 2^ByteBits]

\* Mutant: the width follows the code written, not the table.
WidenLate(free) == IF free > 2^n_bits THEN n_bits + 1 ELSE n_bits
\* The width of the code that is written when the table ends before free.
Widened(free) == IF free >= 2^n_bits THEN n_bits + 1 ELSE n_bits

\* Mutant: the test is off by one.
FullLate(e) == Len(e.out) > e.o_buf_size
\* The output buffer has no room for another byte.
Full(e) == Len(e.out) >= e.o_buf_size

\* putcode(code) in a call that has come to e: the statics, the output and
\* whether it went well.
PutCode(e, code) ==
  LET free == EncFree(e.dict)
      room == e.o_buf_size - Len(e.out)
      wide == Widened(free)
      v    == (buf + code * 2^bits) % 2^BufBits
      n    == (bits + wide) \div ByteBits
      fit  == IF n <= room THEN n ELSE room
  IN  IF Full(e)
      THEN [ok |-> FALSE, n_bits |-> n_bits, bits |-> bits, buf |-> buf,
            out |-> e.out]
      ELSE IF wide > MaxBits
      THEN [ok |-> FALSE, n_bits |-> wide, bits |-> bits, buf |-> buf,
            out |-> e.out]
      ELSE [ok |-> n <= room /\ code <= free, n_bits |-> wide,
            bits |-> bits + wide - ByteBits * fit, buf |-> v \div 2^(ByteBits * fit),
            out |-> e.out \o LowBytes(v, fit)]

\* The statics after putcode.
Statics(p) == n_bits' = p.n_bits /\ bits' = p.bits /\ buf' = p.buf

\* compress returns an error; the statics stay as they are.
CompressFails(e, out) ==
  /\ pc' = "returned" /\ rc' = e /\ stale' = TRUE
  /\ enc' = [enc EXCEPT !.out = out]
  /\ UNCHANGED dec

\* compress is called with a last_code that is not 0; the first byte is the string
\* in hand.  Bits beyond the width of the buffer have no meaning in C: the model
\* stops there.
Compress(i_buf, size) ==
  /\ bits < BufBits
  /\ pc' = "compress"
  /\ enc' = [NoEnc EXCEPT !.i_buf = i_buf, !.o_buf_size = size, !.i_buf_ptr = 1,
                          !.ent = i_buf[1], !.pure = ~stale]
  /\ UNCHANGED <<putcodeVars, stale, dec, rc>>

Reading == pc = "compress" /\ enc.i_buf_ptr < Len(enc.i_buf)
NextPair == <<enc.ent, enc.i_buf[enc.i_buf_ptr + 1]>>

\* The string in hand and the next byte are in the table.
Known ==
  /\ Reading
  /\ \E k \in DOMAIN enc.dict :
       /\ enc.dict[k] = NextPair
       /\ enc' = [enc EXCEPT !.i_buf_ptr = @ + 1, !.ent = First + k - 1]
  /\ UNCHANGED <<pc, putcodeVars, stale, dec, rc>>

\* They are not: the string is written, the two are added to the table, and the
\* byte begins the next string.
Unknown ==
  /\ Reading /\ \A k \in DOMAIN enc.dict : enc.dict[k] # NextPair
  /\ LET p == PutCode(enc, enc.ent)
     IN  /\ Statics(p)
         /\ IF ~p.ok THEN CompressFails(-5, p.out)
            ELSE IF EncFree(enc.dict) + 1 >= TableSize
            THEN CompressFails(-2, p.out)
            ELSE /\ enc' = [enc EXCEPT !.i_buf_ptr = @ + 1, !.ent = NextPair[2],
                              !.dict = Append(@, NextPair), !.out = p.out]
                 /\ UNCHANGED <<pc, stale, dec, rc>>

\* The input has come to its end: the last string is written.
LastCode ==
  /\ pc = "compress" /\ enc.i_buf_ptr = Len(enc.i_buf)
  /\ LET p == PutCode(enc, enc.ent)
     IN  /\ Statics(p)
         /\ IF ~p.ok THEN CompressFails(-5, p.out)
            ELSE /\ pc' = "flush" /\ enc' = [enc EXCEPT !.out = p.out]
                 /\ UNCHANGED <<stale, dec, rc>>

\* Mutant: the width stays what it was.
ResetBuffer == bits' = 0 /\ buf' = 0 /\ UNCHANGED n_bits
ResetStatics == n_bits' = StartBits /\ bits' = 0 /\ buf' = 0

\* putcode(-1), which wants room even when no bits are left, and the return.
Flush ==
  /\ pc = "flush"
  /\ IF Full(enc)
     THEN CompressFails(-5, enc.out) /\ UNCHANGED putcodeVars
     ELSE /\ enc' = [enc EXCEPT !.out = IF bits > 0 THEN Append(@, buf) ELSE @]
          /\ ResetStatics
          /\ pc' = "packed" /\ rc' = Len(enc'.out) /\ stale' = FALSE
          /\ UNCHANGED dec

-----------------------------------------------------------------------------
(* decompress *)

\* The stream is decompressed as DMO_readblock_13 does it: the header holds the
\* size of the data and the last code, which compress has returned.
Decompress ==
  /\ pc = "packed"
  /\ pc' = "decompress"
  /\ dec' = [NoDec EXCEPT !.i_buf = enc.out, !.o_buf_size = Len(enc.i_buf),
                          !.last_code = EncFree(enc.dict) + 1]
  /\ UNCHANGED <<putcodeVars, stale, enc, rc>>

\* A stream that was not written here, with a header of its own.
DecompressDamaged(i_buf, size, last_code) ==
  /\ ~stale
  /\ pc' = "decompress"
  /\ dec' = [NoDec EXCEPT !.i_buf = i_buf, !.o_buf_size = size,
                          !.last_code = last_code]
  /\ UNCHANGED <<putcodeVars, stale, enc, rc>>

\* Bytes the next code takes: one at least.
BytesFor(d) == CHOOSE n \in 1 .. MaxBits :
                 /\ d.bits + ByteBits * n >= d.n_bits
                 /\ n > 1 => d.bits + ByteBits * (n - 1) < d.n_bits

\* The bit buffer with these bytes in it; what lies behind the input does not
\* matter, no code is taken from it.
Filled(d) ==
  LET at(k) == IF d.i_buf_ptr + k <= Len(d.i_buf) THEN d.i_buf[d.i_buf_ptr + k]
                                                  ELSE 0
      filled[k \in 0 .. MaxBits] ==
        IF k = 0 THEN d.buf
        ELSE filled[k - 1] + at(k) * 2^(d.bits + ByteBits * (k - 1))
  IN  filled[BytesFor(d)]

NextCode(d) == Filled(d) % 2^d.n_bits

\* The symbols a code stands for: its chain of t_pred, backwards.
Expand(pred, suff) ==
  LET string[c \in 0 .. DecFree(pred) - 1] ==
        IF c < First THEN <<c>>
        ELSE Append(string[pred[c - First + 1]], suff[c - First + 1])
  IN  string

\* Mutant: the entry made before keeps the symbol it got then.
CompleteNever(suff, sym) == Append(suff, sym)
\* The last symbol of the entry made before is known only now; the new entry
\* gets the same one until the next code comes.
Complete(suff, sym) ==
  IF suff = <<>> THEN <<sym>> ELSE Append([suff EXCEPT ![Len(suff)] = sym], sym)

\* Mutant: one width more is allowed than the tables have room for.
TooWideLate(width) == width > MaxBits + 1
TooWide(width) == width > MaxBits

DecompressReturns(e) == pc' = "returned" /\ rc' = e

\* One code is read and written out as the symbols it stands for.
Decode ==
  /\ pc = "decompress"
  /\ LET n    == BytesFor(dec)
         code == NextCode(dec)
         free == DecFree(dec.pred)
         read == [dec EXCEPT !.i_buf_ptr = @ + n,
                    !.bits = @ + ByteBits * n - dec.n_bits,
                    !.buf = Filled(dec) \div 2^dec.n_bits]
         string == Expand(dec.pred, dec.suff)[code]
         room   == dec.o_buf_size - Len(dec.out)
         next == [read EXCEPT !.pred = Append(@, code),
                    !.suff = Complete(@, string[1]),
                    !.out = @ \o string,
                    !.n_bits = IF free + 1 >= 2^dec.n_bits THEN @ + 1 ELSE @]
     IN  IF read.i_buf_ptr > Len(dec.i_buf)
         THEN dec' = read /\ DecompressReturns(-3)
         ELSE IF free <= code
         THEN dec' = read /\ DecompressReturns(-4)
         ELSE IF Len(string) > room
         THEN /\ dec' = [read EXCEPT !.out = @ \o SubSeq(string, 1, room)]
              /\ DecompressReturns(-5)
         ELSE /\ dec' = next
              /\ IF TooWide(next.n_bits) THEN DecompressReturns(-2)
                 ELSE IF next.i_buf_ptr < Len(dec.i_buf) /\ free + 1 < dec.last_code
                 THEN UNCHANGED <<pc, rc>>
                 ELSE DecompressReturns(Len(next.out))
  /\ UNCHANGED <<putcodeVars, stale, enc>>

\* The caller takes the result.
Taken ==
  /\ pc = "returned"
  /\ pc' = "idle" /\ enc' = NoEnc /\ dec' = NoDec /\ rc' = 0
  /\ UNCHANGED <<putcodeVars, stale>>

-----------------------------------------------------------------------------

Call ==
  /\ pc = "idle"
  /\ \/ \E i_buf \in IF stale THEN AgainInputs ELSE Inputs, size \in Sizes :
          Compress(i_buf, size)
     \/ \E i_buf \in Damaged, size \in Sizes, last_code \in 1 .. 2 * TableSize :
          DecompressDamaged(i_buf, size, last_code)

LzwNext ==
  \/ Call
  \/ Known \/ Unknown \/ LastCode \/ Flush
  \/ Decompress \/ Decode
  \/ Taken

LzwSpec == LzwInit /\ [][LzwNext]_lzwVars

-----------------------------------------------------------------------------
(* Properties. *)

LzwTypeOK ==
  /\ pc \in {"idle", "compress", "flush", "packed", "decompress", "returned"}
  /\ n_bits \in StartBits .. MaxBits /\ bits \in Nat /\ buf \in 0 .. 2^BufBits - 1
  /\ stale \in BOOLEAN
  /\ enc.out \in Seq(Byte) /\ Len(enc.out) <= enc.o_buf_size
  /\ \A k \in DOMAIN enc.dict : enc.dict[k] \in (0 .. First + k - 2) \X Symbol
  /\ enc.ent \in 0 .. EncFree(enc.dict) - 1
  /\ dec.out \in Seq(Symbol)
  /\ rc \in Int

\* What a call of compress that succeeds leaves behind is what putcode starts
\* with: only a failed call spoils the next one.
CleanBetweenCalls ==
  pc \in {"idle", "packed"} /\ ~stale => n_bits = StartBits /\ bits = 0 /\ buf = 0

\* The decompressor stays in its tables, in the output and, but for the bytes of
\* one code, in the input, whatever stream it is given.
StaysInBuffers ==
  /\ DecFree(dec.pred) <= TableSize
  /\ Len(dec.out) <= dec.o_buf_size
  /\ ByteBits * (dec.i_buf_ptr - Len(dec.i_buf)) < MaxBits + ByteBits

\* The symbols a code of the compressor stands for.
Phrase(dict) ==
  LET string[c \in 0 .. EncFree(dict) - 1] ==
        IF c < First THEN <<c>>
        ELSE Append(string[dict[c - First + 1][1]], dict[c - First + 1][2])
  IN  string

\* The decompressor follows the compressor code by code: its output is the
\* beginning of what was compressed, and all its entries but the last, whose
\* symbol is not known yet, stand for the same symbols as the compressor's.
InStep ==
  enc.pure /\ dec.i_buf # <<>> =>
    /\ IsPrefix(dec.out, enc.i_buf)
    /\ \A k \in 1 .. Len(dec.pred) - 1 :
         Expand(dec.pred, dec.suff)[First + k - 1] = Phrase(enc.dict)[First + k - 1]

\* What was compressed comes back whole, with its size as the result, unless its
\* codes use up the table to the last place: then it comes back whole with an
\* error.
RoundTrip ==
  pc = "returned" /\ enc.pure /\ dec.i_buf # <<>> =>
    /\ dec.out = enc.i_buf
    /\ rc = IF EncFree(enc.dict) + 1 < TableSize THEN Len(enc.i_buf) ELSE -2
=============================================================================
