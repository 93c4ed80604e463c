------------------------------ MODULE Inflate ------------------------------
(***************************************************************************)
(* The decompressor of the PNG library (src/NativeLib/lodepng.c): a table  *)
(* is made from the lengths of the codes (HuffmanTree_makeFromLengths2 and *)
(* HuffmanTree_makeTable), a symbol is decoded with one look or two        *)
(* (huffmanDecodeSymbol), and literals and copies of what was written make *)
(* the output (inflateHuffmanBlock).                                       *)
(*                                                                         *)
(* A table is kept by the bits that are looked up, in the order in which   *)
(* they are read; its entries are the length of the code and its symbol,   *)
(* or SECOND and the length of the second look.  The alphabet is two       *)
(* literals, the end and two lengths; the distance codes are two, of one   *)
(* bit each.  FirstBits and the lengths are small here (9 and 15 there).   *)
(***************************************************************************)
EXTENDS Integers, Sequences, FiniteSetsExt

CONSTANTS
  FirstBits,   \* FIRSTBITS
  MaxBits,     \* maxbitlen
  Copies,      \* LENGTHBASE of the two length codes, and 0 for what is not one
  StreamBits   \* how long the compressed streams are

Symbols == 0 .. 4
END == 2
INVALIDSYMBOL == 9
SECOND == 8      \* stands for the place of a second table
Unused == [len |-> MaxBits + 1, value |-> INVALIDSYMBOL]     \* "an invalid length"
Bits(n) == [1 .. n -> {0, 1}]

\* There are fewer symbols than entries of the first table (288 and 512 there).
InflateAssumption ==
  /\ FirstBits \in Nat /\ MaxBits \in Nat /\ 5 < 2 ^ FirstBits /\ FirstBits < MaxBits
  /\ Copies \in [Symbols -> Nat] /\ \A s \in 0 .. 2 : Copies[s] = 0

VARIABLES
  lengths,     \* of the codes, 0 for a symbol that has none
  stream, bp,  \* the bits that follow the lengths, and the bit pointer
  step,        \* "make", "fill", "check", "decode", "done"
  next,        \* the symbol whose entries are filled next
  head, rest,  \* the first table, and the others by the bits that lead there
  out,         \* what was decompressed
  error
vars == <<lengths, stream, bp, step, next, head, rest, out, error>>
input == <<lengths, stream>>

-----------------------------------------------------------------------------
(* The codes.                                                               *)

blcount(n) == Cardinality({s \in Symbols : lengths[s] = n})
nextcode[n \in 0 .. MaxBits] == IF n = 0 THEN 0 ELSE 2 * (nextcode[n - 1] + (IF n = 1 THEN 0 ELSE blcount(n - 1)))

\* The code of a symbol, first bit first; "superfluous bits" are removed.
Code(s) ==
  LET l == lengths[s]
      c == (nextcode[l] + Cardinality({t \in 0 .. s - 1 : lengths[t] = l})) % (2 ^ l)
  IN  [i \in 1 .. l |-> (c \div 2 ^ (l - i)) % 2]

Long(s) == lengths[s] > FirstBits
First(code) == SubSeq(code, 1, FirstBits)
Rest(code) == SubSeq(code, FirstBits + 1, Len(code))
Starts(code, bits) == SubSeq(bits, 1, Len(code)) = code
Present == {s \in Symbols : lengths[s] # 0}

\* The length of the longest code that begins so, if it is long.
maxlens(bits) == LET long == {lengths[s] : s \in {t \in Symbols : Long(t) /\ First(Code(t)) = bits}}
                 IN  IF long = {} THEN 0 ELSE Max(long)

\* getTreeInflateDynamic: "the length of the end code 256 must be larger than 0".
NoEnd ==
  /\ step = "make" /\ lengths[END] = 0
  /\ error' = 64 /\ step' = "done"
  /\ UNCHANGED <<input, bp, next, head, rest, out>>

HuffmanTree_makeTable ==
  /\ step = "make" /\ lengths[END] # 0 /\ step' = "fill"
  /\ head' = [bits \in Bits(FirstBits) |->
                IF maxlens(bits) = 0 THEN Unused ELSE [len |-> maxlens(bits), value |-> SECOND]]
  /\ rest' = [bits \in {t \in Bits(FirstBits) : maxlens(t) # 0} |->
                [more \in Bits(maxlens(bits) - FirstBits) |-> Unused]]
  /\ UNCHANGED <<input, bp, next, out, error>>

FillShort ==
  LET mine == {bits \in Bits(FirstBits) : Starts(Code(next), bits)}
      entry == [len |-> lengths[next], value |-> next]
  IN  /\ error' = IF \E bits \in mine : head[bits].len # Unused.len THEN 55 ELSE 0
      /\ head' = [bits \in Bits(FirstBits) |-> IF bits \in mine THEN entry ELSE head[bits]]
      /\ UNCHANGED rest

FillLong ==
  LET c == Code(next)
      entry == [len |-> lengths[next], value |-> next]
  IN  /\ IF head[First(c)].len < lengths[next] THEN error' = 55 /\ UNCHANGED rest
         ELSE /\ error' = 0
              /\ rest' = [rest EXCEPT ![First(c)] =
                            [more \in DOMAIN @ |-> IF Starts(Rest(c), more) THEN entry ELSE @[more]]]
      /\ UNCHANGED head

Fill ==
  /\ step = "fill" /\ next' = next + 1
  /\ IF next \notin Present THEN error' = 0 /\ UNCHANGED <<head, rest>>
     ELSE IF Long(next) THEN FillLong ELSE FillShort
  /\ step' = IF error' # 0 THEN "done" ELSE IF next = 4 THEN "check" ELSE "fill"
  /\ UNCHANGED <<input, bp, out>>

\* With fewer than two symbols the free entries are invalid; otherwise there may be none.
Check ==
  LET Filled(table, n) == [bits \in DOMAIN table |->
                             IF table[bits] = Unused THEN [len |-> n, value |-> INVALIDSYMBOL] ELSE table[bits]]
      free == (\E bits \in DOMAIN head : head[bits] = Unused)
              \/ \E bits \in DOMAIN rest : \E more \in DOMAIN rest[bits] : rest[bits][more] = Unused
      few == Cardinality(Present) < 2
  IN  /\ step = "check"
      /\ head' = IF few THEN Filled(head, 1) ELSE head
      /\ rest' = IF few THEN [bits \in DOMAIN rest |-> Filled(rest[bits], FirstBits + 1)] ELSE rest
      /\ error' = IF ~few /\ free THEN 55 ELSE 0
      /\ IF error' # 0 THEN step' = "done" /\ UNCHANGED stream
         ELSE step' = "decode" /\ stream' \in Bits(StreamBits)
      /\ UNCHANGED <<lengths, bp, next, out>>

-----------------------------------------------------------------------------
(* The stream.                                                              *)

\* ensureBits32 gives zeros after the end.
peekBits(at, n) == [i \in 1 .. n |-> IF at + i <= Len(stream) THEN stream[at + i] ELSE 0]

\* What is decoded at a place: the symbol, and where the next one is.
huffmanDecodeSymbol(at) ==
  LET bits == peekBits(at, FirstBits)
      e == head[bits]
      f == rest[bits][peekBits(at + FirstBits, e.len - FirstBits)]
  IN  IF e.len <= FirstBits THEN [symbol |-> e.value, bp |-> at + e.len]
      ELSE [symbol |-> f.value, bp |-> at + f.len]

\* Mutant: the bytes are copied at once, as if they did not overlap.
CopyAtOnce(o, length, distance) ==
  o \o [n \in 1 .. length |-> IF Len(o) - distance + n <= Len(o) THEN o[Len(o) - distance + n] ELSE 0]

\* Part 5: the bytes from backward on, first those that are there, then those just written.
CopyBack(o, length, distance) ==
  LET start == Len(o)
      backward == start - distance
      copied[n \in distance .. length] ==
        IF n = distance THEN o \o SubSeq(o, backward + 1, start)
        ELSE Append(copied[n - 1], copied[n - 1][backward + n - distance])
  IN  IF distance < length THEN copied[length]
      ELSE o \o SubSeq(o, backward + 1, backward + length)

\* A turn of the loop: a literal takes the next symbol with it.
Decode ==
  LET one == huffmanDecodeSymbol(bp)
      two == IF one.symbol < END THEN huffmanDecodeSymbol(one.bp) ELSE one
      o == IF one.symbol < END THEN Append(out, one.symbol) ELSE out
      distance == 1 + peekBits(two.bp, 1)[1]
      copies == two.symbol \in Symbols /\ Copies[two.symbol] # 0
      tooLong == copies /\ distance > Len(o)
  IN  /\ step = "decode"
      /\ bp' = IF copies THEN two.bp + 1 ELSE two.bp
      /\ out' = IF two.symbol < END THEN Append(o, two.symbol)
                ELSE IF copies /\ ~tooLong THEN CopyBack(o, Copies[two.symbol], distance) ELSE o
      /\ error' = IF tooLong THEN 52 ELSE IF two.symbol = INVALIDSYMBOL THEN 16
                  ELSE IF bp' > Len(stream) THEN 51 ELSE 0
      /\ step' = IF error' # 0 \/ two.symbol = END THEN "done" ELSE "decode"
      /\ UNCHANGED <<input, next, head, rest>>

Init ==
  /\ lengths \in [Symbols -> 0 .. MaxBits] /\ stream = <<>> /\ bp = 0
  /\ step = "make" /\ next = 0 /\ head = <<>> /\ rest = <<>> /\ out = <<>> /\ error = 0

Next == NoEnd \/ HuffmanTree_makeTable \/ Fill \/ Check \/ Decode

Spec == Init /\ [][Next]_vars

-----------------------------------------------------------------------------
(* What holds: the definition of the format, apart from any table.  Codes   *)
(* stand in the order of their lengths, and of their symbols among equals;  *)
(* each takes its share of all that can follow.                             *)

Window(at) == MapThenSumSet(LAMBDA i : stream[at + i] * 2 ^ (MaxBits - i), 1 .. Min({MaxBits, Len(stream) - at}))
Share(s) == 2 ^ (MaxBits - lengths[s])
Before(s) == {t \in Present : lengths[t] < lengths[s] \/ (lengths[t] = lengths[s] /\ t < s)}
Place(s) == MapThenSumSet(Share, Before(s))
Complete == MapThenSumSet(Share, Present) = 2 ^ MaxBits \/ Cardinality(Present) < 2

\* The output when the bits from a place on are read after o: <<FALSE>> when they are no stream.
Meaning[at \in 0 .. StreamBits, o \in Seq(0 .. 1)] ==
  LET here == {s \in Present : at + lengths[s] <= StreamBits
                              /\ Window(at) \in Place(s) .. Place(s) + Share(s) - 1}
      s == CHOOSE t \in here : TRUE
      then == at + lengths[s]
      distance == 1 + stream[then + 1]
      copy == [i \in 1 .. Copies[s] |-> o[Len(o) - distance + 1 + ((i - 1) % distance)]]
  IN  IF here = {} THEN <<FALSE>>
      ELSE IF s < END THEN Meaning[then, Append(o, s)]
      ELSE IF s = END THEN <<TRUE, o, then>>
      ELSE IF then = StreamBits \/ distance > Len(o) THEN <<FALSE>>
      ELSE Meaning[then + 1, o \o copy]

\* A set of lengths is refused unless its codes fill the tables, whatever was written over what; of
\* an accepted one, a stream gives what the format says it does, and one that is cut is refused.
DecodesTheFormat ==
  /\ step = "decode" => Complete
  /\ step = "done" /\ stream = <<>> => ~Complete \/ lengths[END] = 0
  /\ step = "done" /\ stream # <<>> =>
       IF error = 0 THEN Meaning[0, <<>>] = <<TRUE, out, bp>> ELSE Meaning[0, <<>>] = <<FALSE>>

=============================================================================
