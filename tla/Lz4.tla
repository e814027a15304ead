-------------------------------- MODULE Lz4 ---------------------------------
(***************************************************************************)
(* The block codec of prototype/transfer-compression/lz4.c, as test_lz4    *)
(* (main.c) calls it: LZ4_compress, then LZ4_decompress_safe into a buffer *)
(* of capacity bytes.  One action is one round of a loop of the code.      *)
(*                                                                         *)
(* The sizes are parameters: a half byte is a number below Nibble (16 in   *)
(* the code), a byte one below Nibble^2, an offset has two bytes.  A copy  *)
(* is modelled by the bytes it leaves and by how far its words reach.      *)
(***************************************************************************)
EXTENDS Integers, Sequences

CONSTANTS
  Nibble,         \* 1 << ML_BITS
  MINMATCH,
  COPYLENGTH,
  LASTLITERALS,
  SKIPSTRENGTH,
  HashSize,       \* entries of the hash table
  BoundSlack,     \* the 16 of LZ4_COMPRESSBOUND
  Sources,        \* the blocks to compress
  Spare           \* capacity of the receiving buffer, less the block's size

Byte == Nibble * Nibble
U16 == Byte * Byte
ML_MASK == Nibble - 1
RUN_MASK == Nibble - 1
MAX_DISTANCE == U16 - 1
MFLIMIT == COPYLENGTH + MINMATCH
LZ4_minLength == MFLIMIT + 1

(* A machine word, 8 bytes as COPYLENGTH. *)
STEPSIZE == COPYLENGTH

LZ4_64KLIMIT == U16 + (MFLIMIT - 1)

ASSUME Lz4Assumption ==
  /\ { Nibble, MINMATCH, COPYLENGTH, LASTLITERALS, HashSize } \subseteq Nat \ { 0 }
  /\ SKIPSTRENGTH \in Nat /\ BoundSlack \in Nat
  /\ LASTLITERALS <= COPYLENGTH /\ MINMATCH <= STEPSIZE
  /\ Sources \subseteq Seq(0 .. Byte - 1)
  /\ Spare \subseteq Int

VARIABLES
  source, capacity,               \* the arguments
  pc,                             \* where the two calls are
  ip, ref, anchor,                \* offsets into source
  forwardIp, step, searchMatchNb, \* the search for a match
  hashTable,
  block,                          \* what the compressor has written
  in,                             \* the decoder's offset into block
  token,                          \* of the sequence it reads
  dest,                           \* what the decoder has written
  reach,                          \* end of the last word it wrote to, in the output
  result                          \* what LZ4_decompress_safe returned

args == << source, capacity >>
search == << forwardIp, step, searchMatchNb >>
encoder == << args, ip, ref, anchor, search, hashTable, block >>
decoder == << in, token, dest, reach, result >>
vars == << pc, encoder, decoder >>

inputSize == Len(source)
mflimit == inputSize - MFLIMIT
matchlimit == inputSize - LASTLITERALS
byU16 == inputSize < LZ4_64KLIMIT

-----------------------------------------------------------------------------
(* Any function of the next MINMATCH bytes, here their value modulo the    *)
(* size of the table; different sequences collide.                         *)
LZ4_hashPosition(p) ==
  LET value[ i \in 0 .. MINMATCH ] == IF i = 0 THEN 0 ELSE Byte * value[i - 1] + source[p + i]
  IN  value[MINMATCH] % HashSize

(* The table of positions; 16 bits each for small blocks. *)
LZ4_putPosition(table, p) ==
  [ table EXCEPT ![LZ4_hashPosition(p)] = IF byU16 THEN p % U16 ELSE p ]

Least(a, b) == IF a < b THEN a ELSE b
Most(a, b) == IF a < b THEN b ELSE a

(* The largest k up to max such that Holds(1), ..., Holds(k). *)
LongestRun(max, Holds(_)) ==
  CHOOSE k \in 0 .. max : (k = max \/ ~ Holds(k + 1)) /\ \A i \in 1 .. k : Holds(i)

(* A32(p) == A32(q) *)
Same(p, q) == \A i \in 1 .. MINMATCH : source[p + i] = source[q + i]

(* How many bytes from pIn, before pInLimit, equal those from pRef. *)
LZ4_count(pIn, pRef, pInLimit) ==
  LongestRun(pInLimit - pIn, LAMBDA i : source[pIn + i] = source[pRef + i])

(* Mutant: catching up does not stop at the bytes that are written. *)
CatchUp_PastAnchor ==
  LongestRun(Least(ip, ref), LAMBDA i : source[ip + 1 - i] = source[ref + 1 - i])

(* How far a match can be extended backwards. *)
CatchUp ==
  LongestRun(Least(ip - anchor, ref), LAMBDA i : source[ip + 1 - i] = source[ref + 1 - i])

(* Mutant: a length that fills its last byte has no byte after it. *)
LengthBytes_NoZero(n) ==
  IF n < RUN_MASK THEN << >>
  ELSE LET m == n - RUN_MASK
       IN  [ i \in 1 .. m \div (Byte - 1) |-> Byte - 1 ]
             \o (IF m > 0 /\ m % (Byte - 1) = 0 THEN << >> ELSE << m % (Byte - 1) >>)

(* Mutant: a length byte follows whatever fits into the token. *)
LengthBytes_Always(n) ==
  LET m == IF n < RUN_MASK THEN 0 ELSE n - RUN_MASK
  IN  [ i \in 1 .. m \div (Byte - 1) |-> Byte - 1 ] \o << m % (Byte - 1) >>

(* A length beyond its half byte of the token: bytes 255 and the rest. *)
LengthBytes(n) ==
  IF n < RUN_MASK THEN << >>
  ELSE LET m == n - RUN_MASK
       IN  [ i \in 1 .. m \div (Byte - 1) |-> Byte - 1 ] \o << m % (Byte - 1) >>

HalfByte(n) == Least(n, RUN_MASK)

Literals(n) == SubSeq(source, anchor + 1, anchor + n)

(* The two bytes of an offset, low byte first. *)
Offset(n) == << n % Byte, (n \div Byte) % Byte >>

-----------------------------------------------------------------------------
Init ==
  /\ source \in Sources
  /\ \E s \in Spare : capacity = inputSize + s /\ capacity >= 0
  /\ pc = "compress"
  /\ ip = 0 /\ ref = 0 /\ anchor = 0
  /\ forwardIp = 0 /\ step = 1 /\ searchMatchNb = 2^SKIPSTRENGTH
  /\ hashTable = [ h \in 0 .. HashSize - 1 |-> 0 ]
  /\ block = << >> /\ in = 0 /\ token = 0 /\ dest = << >> /\ reach = 0 /\ result = 0

(* A new search steps by 1 and speeds up after 2^SKIPSTRENGTH attempts. *)
SearchFrom(p) ==
  /\ pc' = "search"
  /\ forwardIp' = p
  /\ step' = 1
  /\ searchMatchNb' = 2^SKIPSTRENGTH

Begin ==
  /\ pc = "compress"
  /\ \/ /\ inputSize < LZ4_minLength
        /\ pc' = "last_literals"
        /\ UNCHANGED << search, hashTable >>
     \/ /\ inputSize >= LZ4_minLength
        /\ hashTable' = LZ4_putPosition(hashTable, 0)
        /\ SearchFrom(1)
  /\ UNCHANGED << args, ip, ref, anchor, block, decoder >>

(* Mutant: every match is taken, however far back. *)
IsMatch_AnyDistance(r, p) == Same(r, p)

(* Blocks with 16-bit positions need no check of the distance. *)
IsMatch(r, p) == (byU16 \/ r + MAX_DISTANCE >= p) /\ Same(r, p)

(* One round of the search: look forwardIp up and go on by step. *)
Search ==
  /\ pc = "search"
  /\ ip' = forwardIp
  /\ forwardIp' = forwardIp + step
  /\ step' = searchMatchNb \div 2^SKIPSTRENGTH
  /\ searchMatchNb' = searchMatchNb + 1
  /\ \/ /\ forwardIp' > mflimit
        /\ pc' = "last_literals"
        /\ UNCHANGED << ref, hashTable >>
     \/ /\ forwardIp' <= mflimit
        /\ ref' = hashTable[LZ4_hashPosition(forwardIp)]
        /\ hashTable' = LZ4_putPosition(hashTable, forwardIp)
        /\ pc' = IF IsMatch(ref', ip') THEN "encode" ELSE "search"
  /\ UNCHANGED << args, anchor, block, decoder >>

(* Write the literals since anchor and the match of ip with ref. *)
Encode ==
  LET start == ip - CatchUp
      lit   == start - anchor
      len   == LZ4_count(start + MINMATCH, start - (ip - ref) + MINMATCH, matchlimit)
  IN  /\ pc = "encode"
      /\ block' = block \o << HalfByte(lit) * Nibble + HalfByte(len) >> \o LengthBytes(lit)
                    \o Literals(lit) \o Offset(ip - ref) \o LengthBytes(len)
      /\ anchor' = start + MINMATCH + len
      /\ ip' = anchor'
      /\ pc' = IF ip' > mflimit THEN "last_literals" ELSE "next_match"
      /\ UNCHANGED << args, ref, search, hashTable, decoder >>

(* A match may follow at once; if not, the search begins anew. *)
NextMatch ==
  /\ pc = "next_match"
  /\ LET table == LZ4_putPosition(hashTable, ip - 2)
     IN  /\ ref' = table[LZ4_hashPosition(ip)]
         /\ hashTable' = LZ4_putPosition(table, ip)
  /\ \/ /\ ref' + MAX_DISTANCE >= ip /\ Same(ref', ip)
        /\ pc' = "encode"
        /\ UNCHANGED search
     \/ /\ ~ (ref' + MAX_DISTANCE >= ip /\ Same(ref', ip))
        /\ SearchFrom(ip + 1)
  /\ UNCHANGED << args, ip, anchor, block, decoder >>

LastLiterals ==
  LET lastRun == inputSize - anchor
  IN  /\ pc = "last_literals"
      /\ block' = block \o << HalfByte(lastRun) * Nibble >> \o LengthBytes(lastRun) \o Literals(lastRun)
      /\ anchor' = inputSize
      /\ pc' = "decode"
      /\ UNCHANGED << args, ip, ref, search, hashTable, decoder >>

-----------------------------------------------------------------------------
iend == Len(block)
oend == capacity

(* A length from its half byte and, if that is full, the bytes behind      *)
(* offset p, up to the first that is not 255 or reaches limit.  With the   *)
(* offset behind them.                                                     *)
LengthAt(half, p, limit) ==
  IF half < RUN_MASK THEN << half, p >>
  ELSE LET k == LongestRun(limit - p - 1, LAMBDA i : block[p + i] = Byte - 1)
       IN  << RUN_MASK + (Byte - 1) * k + block[p + k + 1], p + k + 1 >>

Return(r) == pc' = "done" /\ result' = r

(* An empty buffer takes the block of nothing only. *)
DecodeNothing ==
  /\ pc = "decode" /\ capacity = 0
  /\ Return(IF block = << 0 >> THEN 0 ELSE -1)
  /\ UNCHANGED << encoder, in, token, dest, reach >>

(* Where a copy to offsets d, ..., e - 1 ends: whole words, at least one.  *)
LZ4_WILDCOPY(d, e) == d + STEPSIZE * Most(1, (e - d + STEPSIZE - 1) \div STEPSIZE)

(* Literals too near to the end of the output or of the input must be the  *)
(* last ones.                                                              *)
IsLast(end, cpy) == cpy > oend - MFLIMIT \/ end > iend - (2 + 1 + LASTLITERALS)

(* The last ones must end with the input and fit into the output. *)
Refused(end, cpy) == IsLast(end, cpy) /\ (end # iend \/ cpy > oend)

DecodeLiterals ==
  LET run == LengthAt(block[in + 1] \div Nibble, in + 1, iend - RUN_MASK)
      end == run[1] + run[2]
      cpy == Len(dest) + run[1]
  IN  /\ pc = "decode" /\ capacity # 0
      /\ token' = block[in + 1]
      /\ \/ /\ Refused(end, cpy)
            /\ Return(-run[2] - 1)
            /\ UNCHANGED << in, dest, reach >>
         \/ /\ ~ Refused(end, cpy)
            /\ dest' = dest \o SubSeq(block, run[2] + 1, end)
            /\ in' = end
            /\ \/ /\ IsLast(end, cpy)
                  /\ reach' = Most(reach, cpy)
                  /\ Return(cpy)
               \/ /\ ~ IsLast(end, cpy)
                  /\ reach' = Most(reach, LZ4_WILDCOPY(Len(dest), cpy))
                  /\ pc' = "match"
                  /\ UNCHANGED result
      /\ UNCHANGED encoder

(* A match is copied forwards, and may overlap what it writes. *)
Repeat(d, offset, n) == d \o [ i \in 1 .. n |-> d[Len(d) + 1 - offset + ((i - 1) % offset)] ]

(* Mutant: whole words are copied whenever the match itself leaves room    *)
(* for one.                                                                *)
NearEnd_OneWord(cpy) == cpy > oend - COPYLENGTH

(* Whole words could run over the end of the output. *)
NearEnd(cpy) == cpy > oend - COPYLENGTH - (STEPSIZE - MINMATCH)

(* How far the copy of a match from op to cpy reaches.  The first word is  *)
(* written in any case; near the end words stop COPYLENGTH before it and   *)
(* single bytes follow.                                                    *)
RepeatReach(op, cpy) ==
  LET next == op + STEPSIZE
  IN  CASE ~ NearEnd(cpy) -> LZ4_WILDCOPY(next, cpy)
        [] NearEnd(cpy) /\ next < oend - COPYLENGTH -> Most(cpy, LZ4_WILDCOPY(next, oend - COPYLENGTH))
        [] NearEnd(cpy) /\ next >= oend - COPYLENGTH -> Most(cpy, next)

(* A match reaches back into the output and leaves room for the last       *)
(* literals in input and output.                                           *)
DecodeMatch ==
  LET offset == block[in + 1] + Byte * block[in + 2]
      run    == LengthAt(token % Nibble, in + 2, iend)
      cpy    == Len(dest) + run[1] + MINMATCH
      legal  == /\ offset <= Len(dest)
                /\ token % Nibble = ML_MASK => run[2] - 1 <= iend - LASTLITERALS
      room   == NearEnd(cpy) => cpy <= oend - LASTLITERALS
  IN  /\ pc = "match"
      /\ \/ /\ legal /\ room
            /\ dest' = Repeat(dest, offset, cpy - Len(dest))
            /\ reach' = Most(reach, RepeatReach(Len(dest), cpy))
            /\ in' = run[2]
            /\ pc' = "decode"
            /\ UNCHANGED result
         \/ /\ ~ (legal /\ room)
            /\ reach' = IF legal THEN Most(reach, Len(dest) + STEPSIZE) ELSE reach
            /\ Return(-run[2] - 1)
            /\ UNCHANGED << in, dest >>
      /\ UNCHANGED << encoder, token >>

(* Only a codec that has returned may stop. *)
Done == pc = "done" /\ UNCHANGED vars

Next ==
  \/ Begin \/ Search \/ Encode \/ NextMatch \/ LastLiterals
  \/ DecodeNothing \/ DecodeLiterals \/ DecodeMatch
  \/ Done

Spec == Init /\ [][Next]_vars

-----------------------------------------------------------------------------
TypeOK ==
  /\ pc \in { "compress", "search", "encode", "next_match", "last_literals", "decode", "match", "done" }
  /\ ip \in 0 .. inputSize /\ anchor \in 0 .. inputSize
  /\ ref \in 0 .. inputSize /\ (pc = "encode" => ref < ip /\ anchor <= ip)
  /\ hashTable \in [ 0 .. HashSize - 1 -> 0 .. inputSize ]
  /\ block \in Seq(0 .. Byte - 1)
  /\ in \in 0 .. iend

(* The offset of a match is written with 16 bits: however the match was    *)
(* found (small blocks do not look at the distance, and their table holds  *)
(* 16-bit positions), it lies behind ip and its offset is not cut off.     *)
OffsetsFit == pc = "encode" => 1 <= ip - ref /\ ip - ref <= MAX_DISTANCE

(* test_lz4: "memcmp(decompressed, data, file_size)" finds no difference.  *)
RoundTrip == pc = "done" /\ capacity >= inputSize => result = inputSize /\ dest = source

(* lz4.h: "If the destination buffer is not large enough, decoding will    *)
(* stop and output an error code (<0)".  No copy reaches over its end, the *)
(* words of which only a part is wanted included.                          *)
SmallBufferIsRefused ==
  /\ pc = "done" /\ capacity < inputSize => result < 0
  /\ reach <= capacity

(* LZ4_compressBound is an upper bound of what LZ4_compress writes.        *)
WithinBound == Len(block) <= inputSize + inputSize \div (Byte - 1) + BoundSlack
=============================================================================
