----------------------------- MODULE CodecProofs -----------------------------
(***************************************************************************)
(* A request arrives as it was made, for numbers of any size and data of   *)
(* any length, but for a link with an empty first path, which arrives as   *)
(* one with no second path; so does the answer to a read.  The paths, and  *)
(* the file that is read, must fit in a frame: String does not cut them.   *)
(***************************************************************************)
EXTENDS Codec, SequenceTheorems, TLAPS

ShortPaths == PathSizes \subseteq 0 .. MaxLen
ShortFiles == SlurpSizes \subseteq 0 .. MaxLen

Types   == {"stat", "list", "read", "write", "open", "close", "link"}
Strings == Seq({"path", "data", "dst", "file"} \X Nat)

\* The frames of requests, with what the length field can say.
Words  == {String(type, s) : type \in {"path", "data"}, s \in {t \in Strings : Len(t) <= MaxLen}}
Ints   == {Int32(type, n) : type \in {"fd", "io_count"}, n \in 0 .. IntMod - 1} \cup {Int64("offset", n) : n \in Nat}
Frames == Words \cup Ints \cup {Header("request", type) : type \in Types} \cup {Header("submit", 0)}

----------------------------------------------------------------------------
(* Frames say what was put into them.                                      *)

LEMMA TextIs ==
  ASSUME NEW type, NEW s \in Strings, Len(s) <= MaxLen
  PROVE  /\ String(type, s).type = type
         /\ GetData(String(type, s)) = s
         /\ String(type, s).size = String(type, s).bytes
<1> DEFINE f == String(type, s)
<1>1. Len(s) \in Nat
  BY DEF Strings
<1>2. Len(s) % (MaxLen + 1) = Len(s)
  BY <1>1, CodecAssumption
<1>3. f.type = type /\ f.size = Len(s) /\ f.byte = 0 /\ f.payload = s /\ f.bytes = Len(s)
  BY <1>2 DEF String, Payload
<1> HIDE DEF f
<1>4. GetData(f) = s
  <2>1. CASE Len(s) = 0
    <3>1. s = <<>>
      BY <2>1, EmptySeq DEF Strings
    <3> QED
      BY <1>3, <2>1, <3>1 DEF GetData
  <2>2. CASE Len(s) # 0
    <3>1. GetData(f) = SubSeq(s, 1, Len(s))
      BY <1>3, <2>2 DEF GetData, GetSize
    <3> QED
      BY <3>1, SubSeqFull DEF Strings
  <2> QED
    BY <2>1, <2>2
<1> QED
  BY <1>3, <1>4 DEF f

LEMMA IntIs ==
  ASSUME NEW type, NEW n \in Nat
  PROVE  /\ Int32(type, n).type = type /\ GetU64(Int32(type, n)) = n
         /\ Int32(type, n).size = Int32(type, n).bytes
         /\ Int64(type, n).type = type /\ GetU64(Int64(type, n)) = n
         /\ Int64(type, n).size = Int64(type, n).bytes
         /\ IsU64(Int32(type, n)) /\ IsU64(Int64(type, n))
<1>1. /\ IntSize % (MaxLen + 1) = IntSize /\ LongSize % (MaxLen + 1) = LongSize
      /\ IntSize # 0 /\ LongSize # 0
  BY CodecAssumption
<1>2. ASSUME NEW f, f \in {Header(type, n), Payload(type, IntSize, n), Payload(type, LongSize, n)}
      PROVE  f.type = type /\ GetU64(f) = n /\ f.size = f.bytes /\ IsU64(f)
  BY <1>1, <1>2 DEF Header, Payload, GetU64, IsU64
<1>3. Int32(type, n) \in {Header(type, n), Payload(type, IntSize, n)}
  BY DEF Int32
<1>4. Int64(type, n) \in {Header(type, n), Payload(type, IntSize, n), Payload(type, LongSize, n)}
  BY <1>3 DEF Int64
<1> QED
  BY <1>2, <1>3, <1>4

LEMMA Pop ==
  ASSUME NEW S, NEW f \in S, NEW s \in Seq(S)
  PROVE  /\ Head(<<f>> \o s) = f /\ Tail(<<f>> \o s) = s
         /\ <<f>> \o s # <<>> /\ <<f>> \o s \in Seq(S)
         /\ <<>> \o s = s /\ s \o <<>> = s
<1>1. <<f>> \in Seq(S) /\ Len(<<f>>) = 1 /\ <<f>>[1] = f
  OBVIOUS
<1>2. PICK t \in Seq(S) : /\ t = <<f>> \o s /\ Len(t) = 1 + Len(s) /\ t[1] = f
                          /\ \A k \in 1 .. Len(s) : t[k + 1] = s[k]
  <2>1. <<f>> \o s \in Seq(S) /\ Len(<<f>> \o s) = 1 + Len(s)
    BY <1>1, ConcatProperties
  <2>2. \A k \in 1 .. 1 + Len(s) : (<<f>> \o s)[k] = IF k <= 1 THEN <<f>>[k] ELSE s[k - 1]
    BY <1>1, ConcatProperties
  <2>3. Len(s) \in Nat
    BY LenProperties
  <2>4. (<<f>> \o s)[1] = f
    BY <1>1, <2>2, <2>3
  <2>5. ASSUME NEW k \in 1 .. Len(s) PROVE (<<f>> \o s)[k + 1] = s[k]
    <3>1. k + 1 \in 1 .. 1 + Len(s) /\ ~(k + 1 <= 1) /\ k + 1 - 1 = k
      BY <2>3
    <3> QED
      BY <2>2, <3>1
  <2> QED
    BY <2>1, <2>4, <2>5
<1>3. Len(s) \in Nat /\ t # <<>>
  BY <1>2, LenProperties, EmptySeq
<1>4. /\ Tail(t) \in Seq(S) /\ Len(Tail(t)) = Len(s) /\ Head(t) = f
      /\ \A k \in 1 .. Len(s) : Tail(t)[k] = s[k]
  <2>1. Len(t) - 1 = Len(s)
    BY <1>2, <1>3
  <2>2. Tail(t) \in Seq(S) /\ Len(Tail(t)) = Len(t) - 1 /\ Head(t) = t[1]
    BY <1>3, HeadTailProperties
  <2>3. \A k \in 1 .. Len(s) : Tail(t)[k] = t[k + 1]
    BY <1>3, <2>1, <2>2, HeadTailProperties
  <2> QED
    BY <1>2, <2>1, <2>2, <2>3
<1>5. Tail(t) = s
  BY <1>4, SeqEqual
<1>6. <<>> \o s = s /\ s \o <<>> = s
  BY ConcatEmptySeq
<1> QED
  BY <1>2, <1>3, <1>4, <1>5, <1>6

LEMMA FrameIs ==
  /\ \A type \in {"path", "data"}, s \in Strings : Len(s) <= MaxLen => String(type, s) \in Frames
  /\ \A type \in {"fd", "io_count"}, n \in 0 .. IntMod - 1 : Int32(type, n) \in Frames
  /\ \A n \in Nat : Int64("offset", n) \in Frames
  /\ \A type \in Types : Header("request", type) \in Frames
  /\ Submitted \in Seq(Frames)
  /\ \A f \in Frames : f.size = f.bytes /\ ~Throws(f)
<1>1. \A type \in {"path", "data"}, s \in Strings : Len(s) <= MaxLen => String(type, s) \in Frames
  BY DEF Frames, Words
<1>2. \A type \in {"fd", "io_count"}, n \in 0 .. IntMod - 1 : Int32(type, n) \in Frames
  BY DEF Frames, Ints
<1>3. \A n \in Nat : Int64("offset", n) \in Frames
  BY DEF Frames, Ints
<1>4. \A type \in Types : Header("request", type) \in Frames
  BY DEF Frames
<1>5. Submitted \in Seq(Frames)
  BY DEF Frames, Submitted
<1>6. ASSUME NEW f \in Frames PROVE f.size = f.bytes /\ ~Throws(f)
  <2>1. CASE f \in Words
    BY <2>1, TextIs DEF Words, Throws
  <2>2. CASE f \in Ints
    <3>1. ASSUME NEW type \in {"fd", "io_count"}, NEW n \in 0 .. IntMod - 1, f = Int32(type, n)
          PROVE  f.size = f.bytes /\ ~Throws(f)
      <4>1. n \in Nat /\ n < IntMod
        BY CodecAssumption
      <4>2. f.type = type /\ GetU64(f) = n /\ f.size = f.bytes /\ IsU64(f)
        BY <3>1, <4>1, IntIs
      <4> QED
        BY <4>1, <4>2 DEF Throws, IsU32
    <3>2. ASSUME NEW n \in Nat, f = Int64("offset", n)
          PROVE  f.size = f.bytes /\ ~Throws(f)
      BY <3>2, IntIs DEF Throws
    <3> QED
      BY <2>2, <3>1, <3>2 DEF Ints
  <2>3. CASE f \notin Words \cup Ints
    BY <2>3 DEF Frames, Header, Throws
  <2> QED
    BY <2>1, <2>2, <2>3
<1> QED
  BY <1>1, <1>2, <1>3, <1>4, <1>5, <1>6

----------------------------------------------------------------------------
(* The requests, and the frames they are put into.                         *)

\* What the fields of a request hold, by its type.
Asks(q) ==
  /\ q = Request(q.type, q.path, q.data, q.n, q.offset, q.fd)
  /\ q.type \in Types /\ q.path \in Strings /\ q.data \in Strings
  /\ Len(q.path) <= MaxLen
  /\ q.offset \in Nat \cup {None} /\ q.fd \in 0 .. IntMod - 1 \cup {None}
  /\ q.type # "write" => q.n = None
  /\ q.type \notin {"read", "write"} => q.offset = None
  /\ q.type \notin {"open", "close"} => q.fd = None
  /\ q.type \notin {"write", "link"} => q.data = <<>>
  /\ q.type = "write" => /\ Len(q.data) < IntMod
                         /\ q.n = IF Len(q.data) > MaxLen THEN Len(q.data) ELSE None
  /\ q.type = "close" => q.path = <<>>
  /\ q.type = "link" => Len(q.data) <= MaxLen

LEMMA TextOf ==
  ASSUME NEW what \in {"path", "data", "dst", "file"}, NEW len \in Nat
  PROVE  Text(what, len) \in Strings /\ Len(Text(what, len)) = len
  BY DEF Text, Strings

LEMMA AskedIs ==
  ASSUME ShortPaths, NEW q \in Requests
  PROVE  Asks(q)
<1>0. <<>> \in Strings /\ Len(<<>>) = 0 /\ 0 <= MaxLen
  BY CodecAssumption DEF Strings
<1>1. /\ \A len \in PathSizes : /\ len \in Nat /\ len <= MaxLen
                                /\ Text("path", len) \in Strings /\ Len(Text("path", len)) = len
                                /\ Text("dst", len) \in Strings /\ Len(Text("dst", len)) = len
      /\ \A len \in DataSizes : /\ len \in Nat /\ len < IntMod
                                /\ Text("data", len) \in Strings /\ Len(Text("data", len)) = len
      /\ Offsets \subseteq Nat \cup {None} /\ Fds \subseteq 0 .. IntMod - 1 \cup {None}
  BY TextOf, CodecAssumption DEF ShortPaths, None
<1>2. /\ \A p \in Texts("path", PathSizes) : p \in Strings /\ Len(p) <= MaxLen
      /\ \A p \in Texts("dst", PathSizes) : p \in Strings /\ Len(p) <= MaxLen
      /\ \A s \in Texts("data", DataSizes) : s \in Strings /\ Len(s) < IntMod
  BY <1>1 DEF Texts
<1>9. \A type, path, s, n, offset, fd :
        LET p == Request(type, path, s, n, offset, fd) IN
        /\ p.type = type /\ p.path = path /\ p.data = s
        /\ p.n = n /\ p.offset = offset /\ p.fd = fd
  BY DEF Request
<1>3. CASE q \in PathRequests
  <2>1. PICK type \in {"stat", "list", "read"}, p \in Texts("path", PathSizes) :
          q = Request(type, p, <<>>, None, None, None)
    BY <1>3 DEF PathRequests
  <2> QED
    BY <1>0, <1>2, <1>9, <2>1 DEF Asks, Types
<1>4. CASE q \in ReadsFrom
  <2>1. PICK p \in Texts("path", PathSizes), o \in Offsets : q = Request("read", p, <<>>, None, o, None)
    BY <1>4 DEF ReadsFrom
  <2> QED
    BY <1>0, <1>1, <1>2, <1>9, <2>1 DEF Asks, Types
<1>5. CASE q \in Writes
  <2>1. PICK p \in Texts("path", PathSizes), s \in Texts("data", DataSizes), o \in Offsets :
          q = Request("write", p, s, IF Len(s) > MaxLen THEN Len(s) ELSE None, o, None)
    BY <1>5 DEF Writes
  <2> QED
    BY <1>0, <1>1, <1>2, <1>9, <2>1 DEF Asks, Types
<1>6. CASE q \in Opens
  <2>1. PICK p \in Texts("path", PathSizes), fd \in Fds : q = Request("open", p, <<>>, None, None, fd)
    BY <1>6 DEF Opens
  <2> QED
    BY <1>0, <1>1, <1>2, <1>9, <2>1 DEF Asks, Types
<1>7. CASE q \in Closes
  <2>1. PICK fd \in Fds : q = Request("close", <<>>, <<>>, None, None, fd)
    BY <1>7 DEF Closes
  <2> QED
    BY <1>0, <1>1, <1>9, <2>1 DEF Asks, Types
<1>8. CASE q \in Links
  <2>1. PICK p \in Texts("path", PathSizes), s \in Texts("dst", PathSizes) :
          q = Request("link", p, s, None, None, None)
    BY <1>8 DEF Links
  <2> QED
    BY <1>0, <1>1, <1>2, <1>9, <2>1 DEF Asks, Types
<1> QED
  BY <1>3, <1>4, <1>5, <1>6, <1>7, <1>8 DEF Requests

\* The blocks of a large write that are yet to arrive when k have, what is left
\* after them, and the number that goes before them.
Block(q, k)      == String("data", SubSeq(q.data, (k - 1) * BlockSize + 1, k * BlockSize))
BlocksFrom(q, k) == [j \in 1 .. Blocks(Len(q.data)) - k |-> Block(q, k + j)]
Left(q) ==
  LET left == SubSeq(q.data, Blocks(Len(q.data)) * BlockSize + 1, Len(q.data))
  IN  IF left = <<>> THEN <<>> ELSE <<String("data", left)>>
Count(q) == IF Blocks(Len(q.data)) = 0 THEN <<>> ELSE <<Int32("io_count", Len(q.data))>>

LEMMA Quotient ==
  ASSUME NEW x \in Int, NEW b \in Nat, 0 < b
  PROVE  /\ x \div b \in Int /\ (x \div b) * b \in Int
         /\ (x \div b) * b <= x /\ x < (x \div b) * b + b
         /\ b <= x => x \div b >= 1
<1>1. PICK n \in Int : n = x \div b
  OBVIOUS
<1>2. b * n <= x /\ x < b * n + b
  BY <1>1
<1>3. n * b = b * n /\ n * b \in Int
  OBVIOUS
<1>4. ASSUME b <= x, n <= 0 PROVE FALSE
  <2>1. b * n <= 0
    BY <1>4
  <2> QED
    BY <1>2, <1>3, <1>4, <2>1
<1> QED
  BY <1>1, <1>2, <1>3, <1>4

\* Data is cut into blocks only when it is too long for a frame, and what is
\* left is neither too long nor empty.
LEMMA BlocksFit ==
  ASSUME NEW len \in Nat
  PROVE  /\ Blocks(len) \in Nat
         /\ Blocks(len) = 0 <=> len <= MaxLen
         /\ Blocks(len) # 0 => /\ Blocks(len) * BlockSize < len
                               /\ len - Blocks(len) * BlockSize <= MaxLen
<1>1. MaxLen \in Nat /\ BlockSize \in Nat /\ 0 < BlockSize /\ BlockSize <= MaxLen
  BY CodecAssumption
<1>2. CASE len <= MaxLen
  BY <1>1, <1>2 DEF Blocks
<1>3. CASE len > MaxLen
  <2>1. PICK x \in Int : x = len - MaxLen + BlockSize - 1
    BY <1>1
  <2>2. PICK n \in Int : n = x \div BlockSize
    BY <1>1, <2>1, Quotient
  <2>3. n * BlockSize \in Int /\ n * BlockSize <= x /\ x < n * BlockSize + BlockSize /\ n >= 1
    BY <1>1, <1>3, <2>1, <2>2, Quotient
  <2>4. Blocks(len) = n
    BY <1>1, <1>3, <2>1, <2>2 DEF Blocks
  <2> QED
    BY <1>1, <1>3, <2>1, <2>3, <2>4
<1> QED
  BY <1>1, <1>2, <1>3

LEMMA BufferIs ==
  ASSUME NEW q, q.data \in Strings
  PROVE  Buffer("data", q.data) = Count(q) \o BlocksFrom(q, 0) \o Left(q)
<1>1. Blocks(Len(q.data)) \in Nat
  BY BlocksFit DEF Strings
<1>2. \A j \in 1 .. Blocks(Len(q.data)) : 0 + j = j
  BY <1>1
<1>3. Blocks(Len(q.data)) - 0 = Blocks(Len(q.data))
  BY <1>1
<1>4. BlocksFrom(q, 0) = [j \in 1 .. Blocks(Len(q.data)) |-> Block(q, j)]
  BY <1>2, <1>3 DEF BlocksFrom
<1> QED
  BY <1>4 DEF Buffer, Count, Left, Block

\* What the data of a large write is cut into.
LEMMA Cuts ==
  ASSUME NEW q, q.data \in Strings, NEW k \in 1 .. Blocks(Len(q.data))
  PROVE  /\ Block(q, k) \in Frames /\ Block(q, k).type = "data"
         /\ SubSeq(q.data, 1, (k - 1) * BlockSize) \o GetData(Block(q, k)) = SubSeq(q.data, 1, k * BlockSize)
<1> DEFINE S == {"path", "data", "dst", "file"} \X Nat
           len == Len(q.data)
           n == Blocks(len)
           a == (k - 1) * BlockSize
           b == k * BlockSize
           s == SubSeq(q.data, a + 1, b)
<1>1. len \in Nat /\ n \in Nat /\ n # 0 /\ k \in Nat /\ k >= 1 /\ k <= n
      /\ BlockSize \in Nat /\ 0 < BlockSize /\ BlockSize <= MaxLen /\ MaxLen \in Nat
  BY BlocksFit, CodecAssumption, SMTT(20) DEF Strings
<1>2. n * BlockSize < len
  BY <1>1, BlocksFit
<1>3. b <= n * BlockSize
  <2>1. PICK d \in Nat : n = k + d
    <3>1. n - k \in Nat /\ n = k + (n - k)
      BY <1>1
    <3> QED
      BY <3>1
  <2>2. (k + d) * BlockSize = k * BlockSize + d * BlockSize /\ d * BlockSize \in Nat /\ k * BlockSize \in Nat
    BY <1>1
  <2> QED
    BY <2>1, <2>2
<1>4. a \in Nat /\ b \in Nat /\ b = a + BlockSize
  BY <1>1
<1>5. q.data \in Seq(S)
  BY DEF Strings
<1>6. b < len
  <2>1. n * BlockSize \in Nat
    BY <1>1
  <2> HIDE DEF n, b, len
  <2> QED
    BY <1>1, <1>2, <1>3, <1>4, <2>1
<1>7. s \in Seq(S) /\ Len(s) = BlockSize
  <2> HIDE DEF a, b, S, len, n
  <2>1. \A i \in a + 1 .. b : q.data[i] \in S
    <3>1. \A i \in 1 .. len : q.data[i] \in S
      BY <1>5 DEF len
    <3> QED
      BY <1>1, <1>4, <1>6, <3>1
  <2>2. a + 1 \in Int /\ b \in Int /\ a + 1 <= b /\ b - (a + 1) + 1 = BlockSize
    BY <1>1, <1>4
  <2> QED
    BY <2>1, <2>2, SubSeqProperties
<1>8. /\ String("data", s) \in Frames /\ String("data", s).type = "data"
      /\ GetData(String("data", s)) = s
  BY <1>1, <1>7, FrameIs, TextIs DEF Strings
<1>9. SubSeq(q.data, 1, a) \o s = SubSeq(q.data, 1, b)
  <2> HIDE DEF a, b, S
  <2>1. a \in 1 - 1 .. Len(q.data) /\ b \in a .. Len(q.data) /\ 1 \in 1 .. Len(q.data) + 1
    BY <1>1, <1>4, <1>6
  <2> QED
    BY <1>5, <2>1, ConcatAdjacentSubSeq
<1> QED
  BY <1>8, <1>9 DEF Block

\* Where the next block comes from.
LEMMA NextBlock ==
  ASSUME NEW q, q.data \in Strings, NEW k \in Nat, k <= Blocks(Len(q.data))
  PROVE  /\ BlocksFrom(q, k) \in Seq(Frames)
         /\ k = Blocks(Len(q.data)) => BlocksFrom(q, k) = <<>>
         /\ k < Blocks(Len(q.data)) => BlocksFrom(q, k) = <<Block(q, k + 1)>> \o BlocksFrom(q, k + 1)
<1> DEFINE n == Blocks(Len(q.data))
<1>1. n \in Nat
  BY BlocksFit DEF Strings
<1>2. ASSUME NEW i \in Nat, i <= n
      PROVE  /\ BlocksFrom(q, i) \in Seq(Frames) /\ Len(BlocksFrom(q, i)) = n - i
             /\ \A j \in 1 .. n - i : BlocksFrom(q, i)[j] = Block(q, i + j)
  <2>1. BlocksFrom(q, i) = [j \in 1 .. n - i |-> Block(q, i + j)]
    BY DEF BlocksFrom
  <2>2. n - i \in Nat
    BY <1>1, <1>2
  <2>3. \A j \in 1 .. n - i : Block(q, i + j) \in Frames
    <3> HIDE DEF n
    <3>1. \A j \in 1 .. n - i : i + j \in 1 .. n
      BY <1>1, <1>2
    <3> QED
      BY <3>1, Cuts DEF n
  <2> HIDE DEF n
  <2> QED
    BY <2>1, <2>2, <2>3
<1>3. ASSUME k < n PROVE BlocksFrom(q, k) = <<Block(q, k + 1)>> \o BlocksFrom(q, k + 1)
  <2> DEFINE s == BlocksFrom(q, k)
             f == <<Block(q, k + 1)>>
             t == BlocksFrom(q, k + 1)
  <2>1. k + 1 \in Nat /\ k + 1 <= n
    BY <1>1, <1>3
  <2>2. /\ s \in Seq(Frames) /\ Len(s) = n - k /\ \A j \in 1 .. n - k : s[j] = Block(q, k + j)
        /\ t \in Seq(Frames) /\ Len(t) = n - (k + 1) /\ \A j \in 1 .. n - (k + 1) : t[j] = Block(q, k + 1 + j)
    BY <1>2, <1>3, <2>1
  <2>3. Block(q, k + 1) \in Frames
    BY <2>1, Cuts
  <2>4. f \in Seq(Frames) /\ Len(f) = 1 /\ f[1] = Block(q, k + 1)
    BY <2>3
  <2>5. /\ f \o t \in Seq(Frames) /\ Len(f \o t) = 1 + Len(t)
        /\ \A j \in 1 .. 1 + Len(t) : (f \o t)[j] = IF j <= 1 THEN f[j] ELSE t[j - 1]
    BY <2>2, <2>4, ConcatProperties
  <2> HIDE DEF n, s, f, t
  <2>6. ASSUME NEW j \in 1 .. n - k PROVE s[j] = (f \o t)[j]
    <3>1. CASE j = 1
      BY <1>1, <1>3, <2>2, <2>4, <2>5, <3>1
    <3>2. CASE j # 1
      <4>1. j - 1 \in 1 .. n - (k + 1) /\ k + 1 + (j - 1) = k + j /\ ~(j <= 1) /\ j \in 1 .. 1 + Len(t)
        BY <1>1, <2>2, <3>2
      <4>2. t[j - 1] = Block(q, k + 1 + (j - 1))
        BY <2>2, <4>1
      <4> QED
        BY <2>2, <2>5, <4>1, <4>2
    <3> QED
      BY <3>1, <3>2
  <2>7. Len(s) = Len(f \o t)
    BY <1>1, <2>2, <2>5
  <2> QED
    BY <2>2, <2>5, <2>6, <2>7, SeqEqual DEF s, f, t
<1> QED
  <2>1. k = n => Len(BlocksFrom(q, k)) = 0
    BY <1>1, <1>2
  <2> QED
    BY <1>2, <1>3, <2>1, EmptySeq

\* A number, and what is left of the data, take a frame or none.
LEMMA PartsAre ==
  ASSUME NEW q, Asks(q)
  PROVE  /\ Path(q.path) = <<String("path", q.path)>>
         /\ q.offset = None => Offset(q) = <<>>
         /\ q.offset # None => Offset(q) = <<Int64("offset", q.offset)>> /\ q.offset \in Nat
         /\ q.fd = None => Fd(q) = <<>>
         /\ q.fd # None => Fd(q) = <<Int32("fd", q.fd)>> /\ q.fd \in 0 .. IntMod - 1
  BY DEF Asks, Path, Offset, Fd

LEMMA WritesAre ==
  ASSUME NEW q, Asks(q), q.type = "write"
  PROVE  LET n    == Blocks(Len(q.data))
             left == SubSeq(q.data, n * BlockSize + 1, Len(q.data))
             sent == SubSeq(q.data, 1, n * BlockSize)
         IN  /\ n \in Nat /\ Count(q) \in Seq(Frames) /\ Left(q) \in Seq(Frames)
             /\ n = 0 => Count(q) = <<>> /\ q.n = None /\ sent = <<>>
             /\ n # 0 => /\ Count(q) = <<Int32("io_count", q.n)>> /\ q.n \in Nat /\ q.n \in 0 .. IntMod - 1
                         /\ Left(q) # <<>>
             /\ Left(q) = <<>> => sent = q.data
             /\ Left(q) # <<>> => /\ Left(q) = <<String("data", left)>>
                                  /\ left \in Strings /\ Len(left) <= MaxLen
                                  /\ sent \o left = q.data
<1> DEFINE S    == {"path", "data", "dst", "file"} \X Nat
           len  == Len(q.data)
           n    == Blocks(len)
           b    == n * BlockSize
           left == SubSeq(q.data, b + 1, len)
           sent == SubSeq(q.data, 1, b)
<1>1. /\ len \in Nat /\ q.data \in Strings /\ q.data \in Seq(S) /\ n \in Nat
      /\ n = 0 <=> len <= MaxLen
      /\ q.n = IF len > MaxLen THEN len ELSE None
      /\ BlockSize \in Nat /\ MaxLen \in Nat /\ 0 \in Nat
  <2>1. q.data \in Strings /\ q.n = IF len > MaxLen THEN len ELSE None
    BY DEF Asks
  <2>2. q.data \in Seq(S) /\ len \in Nat
    BY <2>1 DEF Strings
  <2>3. n \in Nat /\ (n = 0 <=> len <= MaxLen)
    BY <2>2, BlocksFit
  <2>4. BlockSize \in Nat /\ MaxLen \in Nat /\ 0 \in Nat
    BY CodecAssumption
  <2> QED
    BY <2>1, <2>2, <2>3, <2>4
<1>0. len \in 0 .. IntMod - 1
  <2>1. len < IntMod /\ IntMod \in Nat
    BY CodecAssumption DEF Asks
  <2> HIDE DEF len, n, b
  <2> QED
    BY <1>1, <2>1
<1>2. /\ b \in Nat
      /\ n = 0 => b = 0
      /\ n # 0 => b < len
      /\ len - b <= MaxLen /\ b <= len
  <2>1. n = 0 => b = 0
    BY <1>1
  <2>2. n # 0 => b < len /\ len - b <= MaxLen
    BY <1>1, BlocksFit
  <2>3. b \in Nat
    BY <1>1
  <2> HIDE DEF n, b, len
  <2> QED
    BY <1>1, <2>1, <2>2, <2>3
<1>3. left \in Strings /\ Len(left) = len - b /\ sent \o left = q.data
  <2> HIDE DEF n, b, S
  <2>1. \A i \in b + 1 .. len : q.data[i] \in S
    <3>1. \A i \in 1 .. len : q.data[i] \in S
      BY <1>1
    <3> QED
      BY <1>1, <1>2, <3>1
  <2>2. /\ b + 1 \in Int /\ len \in Int /\ len - (b + 1) + 1 = len - b
        /\ b + 1 <= len \/ len - b = 0
    BY <1>1, <1>2
  <2>3. left \in Seq(S) /\ Len(left) = len - b
    BY <2>1, <2>2, SubSeqProperties
  <2>4. b \in 1 - 1 .. len /\ len \in b .. len /\ 1 \in 1 .. len + 1
    BY <1>1, <1>2
  <2>5. sent \o left = SubSeq(q.data, 1, len)
    BY <1>1, <2>4, ConcatAdjacentSubSeq
  <2>6. SubSeq(q.data, 1, len) = q.data
    BY <1>1, SubSeqFull
  <2> QED
    BY <2>3, <2>5, <2>6 DEF Strings, S
<1>4. n = 0 => sent = <<>>
  BY <1>2, SubSeqEmpty
<1>5. Left(q) = IF left = <<>> THEN <<>> ELSE <<String("data", left)>>
  BY DEF Left
<1>6. n # 0 => left # <<>>
  <2>1. n # 0 => Len(left) # 0
    <3> HIDE DEF n, b, left, len
    <3> QED
      BY <1>1, <1>2, <1>3
  <2>2. Len(<<>>) = 0
    OBVIOUS
  <2> QED
    BY <2>1, <2>2
<1>7. left = <<>> => sent = q.data
  <2>1. left = <<>> => len - b = 0
    BY <1>3
  <2>2. left = <<>> => b = len
    BY <1>1, <1>2, <2>1
  <2> QED
    BY <1>1, <2>2, SubSeqFull
<1>8. Left(q) \in Seq(Frames)
  <2>1. left # <<>> => String("data", left) \in Frames
    BY <1>2, <1>3, FrameIs
  <2> QED
    BY <1>5, <2>1
<1>9. /\ n # 0 => q.n = len
      /\ n = 0 => q.n = None
      /\ Count(q) = IF n = 0 THEN <<>> ELSE <<Int32("io_count", len)>>
  BY <1>1 DEF Count
<1>10. Count(q) \in Seq(Frames)
  <2>1. Int32("io_count", len) \in Frames
    BY <1>0, FrameIs
  <2> QED
    BY <1>9, <2>1
<1> HIDE DEF len, n, b, left, sent
<1>11. <<String("data", left)>> # <<>>
  OBVIOUS
<1>12. left \in Strings /\ Len(left) <= MaxLen
  BY <1>2, <1>3
<1> QED
  BY <1>0, <1>1, <1>3, <1>4, <1>5, <1>6, <1>7, <1>8, <1>9, <1>10, <1>11, <1>12 DEF len, n, b, left, sent

\* The frames of a request's arguments, from the first.
Rest(q) == Count(q) \o (BlocksFrom(q, 0) \o (Left(q) \o Submitted))

Arguments(q) ==
  CASE q.type \in {"stat", "list", "read"} -> Path(q.path) \o (Offset(q) \o Submitted)
    [] q.type = "write" -> Offset(q) \o (Path(q.path) \o Rest(q))
    [] q.type = "open"  -> Fd(q) \o (Path(q.path) \o Submitted)
    [] q.type = "close" -> Fd(q) \o Submitted
    [] q.type = "link"  -> Path(q.path) \o (Path(q.data) \o Submitted)

LEMMA Three ==
  \A a, b, c \in Seq(Frames) : (a \o b) \o c = a \o (b \o c)
  BY ConcatAssociative

LEMMA Four ==
  \A a, b, c, d \in Seq(Frames) : ((a \o b) \o c) \o d = a \o (b \o (c \o d))
<1> SUFFICES ASSUME NEW a \in Seq(Frames), NEW b \in Seq(Frames), NEW c \in Seq(Frames), NEW d \in Seq(Frames)
             PROVE  ((a \o b) \o c) \o d = a \o (b \o (c \o d))
  OBVIOUS
<1>1. PICK e \in Seq(Frames) : e = c \o d
  BY ConcatProperties
<1>2. PICK f \in Seq(Frames) : f = a \o b
  BY ConcatProperties
<1>3. (f \o c) \o d = f \o (c \o d)
  BY Three
<1>4. (a \o b) \o e = a \o (b \o e)
  BY Three, SMTT(20)
<1> QED
  BY <1>1, <1>2, <1>3, <1>4

\* Four again, with the concatenation hidden: the solver loops on nested ones.
Join(s, t) == s \o t

LEMMA FourJoined ==
  \A a, b, c, d \in Seq(Frames) :
    Join(Join(Join(a, b), c), d) = Join(a, Join(b, Join(c, d)))
  BY Four DEF Join

LEMMA EncodeIs ==
  ASSUME NEW q, Asks(q)
  PROVE  /\ Encode(q) = Begin(q) \o Arguments(q)
         /\ Offset(q) \in Seq(Frames) /\ Path(q.path) \in Seq(Frames) /\ Fd(q) \in Seq(Frames)
         /\ Begin(q) \in Seq(Frames) /\ Arguments(q) \in Seq(Frames)
         /\ q.type = "write" => Rest(q) \in Seq(Frames)
         /\ q.type = "link" => Path(q.data) \in Seq(Frames)
<1>1. /\ Path(q.path) \in Seq(Frames) /\ Offset(q) \in Seq(Frames) /\ Fd(q) \in Seq(Frames)
      /\ Submitted \in Seq(Frames) /\ Begin(q) \in Seq(Frames)
  <2>1. String("path", q.path) \in Frames
    BY FrameIs DEF Asks
  <2>2. Header("request", q.type) \in Frames
    BY FrameIs DEF Asks
  <2>3. /\ q.offset # None => Int64("offset", q.offset) \in Frames
        /\ q.fd # None => Int32("fd", q.fd) \in Frames
    BY FrameIs DEF Asks
  <2>4. \A f \in Frames : <<f>> \in Seq(Frames)
    OBVIOUS
  <2>5. <<>> \in Seq(Frames)
    OBVIOUS
  <2>6. Path(q.path) \in Seq(Frames) /\ Begin(q) \in Seq(Frames)
    BY <2>1, <2>2, <2>4 DEF Path, Begin
  <2>7. Offset(q) \in Seq(Frames) /\ Fd(q) \in Seq(Frames)
    BY <2>3, <2>4, <2>5 DEF Offset, Fd
  <2> QED
    BY <2>6, <2>7, FrameIs
<1>2. \A s, t \in Seq(Frames) : s \o t \in Seq(Frames)
  BY ConcatProperties
<1>4. q.type \in Types
  BY DEF Asks
<1>5. CASE q.type \in {"stat", "list", "read"}
  <2>3. Arguments(q) = Path(q.path) \o (Offset(q) \o Submitted)
    BY <1>5 DEF Arguments
  <2>1. ASSUME q.type = "read"
        PROVE  Encode(q) = Begin(q) \o (Path(q.path) \o (Offset(q) \o Submitted))
    <3>1. Encode(q) = Begin(q) \o Path(q.path) \o Offset(q) \o Submitted
      BY <2>1 DEF Encode
    <3>2. Join(Join(Join(Begin(q), Path(q.path)), Offset(q)), Submitted)
            = Join(Begin(q), Join(Path(q.path), Join(Offset(q), Submitted)))
      BY <1>1, FourJoined
    <3> QED
      BY <3>1, <3>2 DEF Join
  <2>2. ASSUME q.type # "read"
        PROVE  Encode(q) = Begin(q) \o (Path(q.path) \o (Offset(q) \o Submitted))
    <3>1. Encode(q) = Begin(q) \o Path(q.path) \o Submitted
      BY <1>5, <2>2 DEF Encode
    <3>2. Encode(q) = Begin(q) \o (Path(q.path) \o Submitted)
      BY <1>1, <3>1, Three
    <3>3. Offset(q) = <<>>
      BY <1>5, <2>2, PartsAre DEF Asks
    <3>4. <<>> \o Submitted = Submitted
      BY <1>1, ConcatEmptySeq
    <3> QED
      BY <3>2, <3>3, <3>4
  <2>4. Offset(q) \o Submitted \in Seq(Frames)
    BY <1>1, <1>2
  <2>5. Arguments(q) \in Seq(Frames)
    BY <1>1, <1>2, <2>3, <2>4
  <2> QED
    BY <1>1, <1>5, <2>1, <2>2, <2>3, <2>5
<1>6. CASE q.type = "write"
  <2> DEFINE blocks == BlocksFrom(q, 0)
  <2>1. Encode(q) = Begin(q) \o Offset(q) \o Path(q.path) \o (Count(q) \o blocks \o Left(q)) \o Submitted
    BY <1>6, BufferIs DEF Encode, Asks
  <2>2. Arguments(q) = Offset(q) \o (Path(q.path) \o Rest(q))
    BY <1>6 DEF Arguments
  <2>3. Count(q) \in Seq(Frames) /\ Left(q) \in Seq(Frames) /\ blocks \in Seq(Frames)
    <3>1. q.data \in Strings
      BY DEF Asks
    <3>2. 0 \in Nat /\ 0 <= Blocks(Len(q.data))
      BY <3>1, BlocksFit DEF Strings
    <3> QED
      BY <1>6, <3>1, <3>2, WritesAre, NextBlock
  <2> HIDE DEF blocks
  <2>4. Rest(q) = (Count(q) \o blocks \o Left(q)) \o Submitted
    <3>1. Join(Join(Join(Count(q), blocks), Left(q)), Submitted)
            = Join(Count(q), Join(blocks, Join(Left(q), Submitted)))
      BY <1>1, <2>3, FourJoined
    <3> QED
      BY <3>1 DEF Rest, blocks, Join
  <2>11. PICK s \in Seq(Frames) : s = Count(q) \o blocks \o Left(q)
    <3>1. Count(q) \o blocks \in Seq(Frames)
      BY <1>2, <2>3
    <3>2. Count(q) \o blocks \o Left(q) \in Seq(Frames)
      BY <1>2, <2>3, <3>1
    <3> QED
      BY <3>2
  <2>5. Rest(q) \in Seq(Frames)
    BY <1>1, <1>2, <2>4, <2>11
  <2>6. PICK t \in Seq(Frames) : t = Begin(q) \o Offset(q) \o Path(q.path)
    <3>1. Begin(q) \o Offset(q) \in Seq(Frames)
      BY <1>1, <1>2
    <3>2. Begin(q) \o Offset(q) \o Path(q.path) \in Seq(Frames)
      BY <1>1, <1>2, <3>1
    <3> QED
      BY <3>2
  <2>7. Encode(q) = t \o Rest(q)
    <3>1. (t \o s) \o Submitted = t \o (s \o Submitted)
      BY <1>1, Three, SMTT(30)
    <3> QED
      BY <2>1, <2>4, <2>6, <2>11, <3>1
  <2>8. Encode(q) = Begin(q) \o (Offset(q) \o (Path(q.path) \o Rest(q)))
    <3>1. Join(Join(Join(Begin(q), Offset(q)), Path(q.path)), Rest(q))
            = Join(Begin(q), Join(Offset(q), Join(Path(q.path), Rest(q))))
      BY <1>1, <2>5, FourJoined
    <3> QED
      BY <2>6, <2>7, <3>1 DEF Join
  <2>9. Path(q.path) \o Rest(q) \in Seq(Frames)
    BY <1>1, <1>2, <2>5
  <2>10. Arguments(q) \in Seq(Frames)
    BY <1>1, <1>2, <2>2, <2>9
  <2> QED
    BY <1>1, <1>6, <2>2, <2>5, <2>8, <2>10
<1>7. CASE q.type = "open"
  <2>1. Encode(q) = Begin(q) \o Fd(q) \o Path(q.path) \o Submitted
    BY <1>7 DEF Encode
  <2>2. Arguments(q) = Fd(q) \o (Path(q.path) \o Submitted)
    BY <1>7 DEF Arguments
  <2>3. Path(q.path) \o Submitted \in Seq(Frames)
    BY <1>1, <1>2
  <2>4. Arguments(q) \in Seq(Frames)
    BY <1>1, <1>2, <2>2, <2>3
  <2>5. Encode(q) = Begin(q) \o Arguments(q)
    <3>1. Join(Join(Join(Begin(q), Fd(q)), Path(q.path)), Submitted)
            = Join(Begin(q), Join(Fd(q), Join(Path(q.path), Submitted)))
      BY <1>1, FourJoined
    <3> QED
      BY <2>1, <2>2, <3>1 DEF Join
  <2> QED
    BY <1>1, <1>7, <2>4, <2>5
<1>8. CASE q.type = "close"
  <2>1. Encode(q) = Begin(q) \o Fd(q) \o Submitted
    BY <1>8 DEF Encode
  <2>2. Arguments(q) = Fd(q) \o Submitted
    BY <1>8 DEF Arguments
  <2>3. Arguments(q) \in Seq(Frames)
    BY <1>1, <1>2, <2>2
  <2>4. Encode(q) = Begin(q) \o Arguments(q)
    <3>1. (Begin(q) \o Fd(q)) \o Submitted = Begin(q) \o (Fd(q) \o Submitted)
      BY <1>1, Three
    <3> QED
      BY <2>1, <2>2, <3>1 DEF Join
  <2> QED
    BY <1>1, <1>8, <2>3, <2>4
<1>9. CASE q.type = "link"
  <2>1. Encode(q) = Begin(q) \o Path(q.path) \o Path(q.data) \o Submitted
    BY <1>9 DEF Encode
  <2>2. Arguments(q) = Path(q.path) \o (Path(q.data) \o Submitted)
    BY <1>9 DEF Arguments
  <2>3. Path(q.data) \in Seq(Frames)
    <3>1. String("path", q.data) \in Frames
      BY <1>9, FrameIs DEF Asks
    <3> QED
      BY <3>1 DEF Path
  <2>4. Path(q.data) \o Submitted \in Seq(Frames)
    BY <1>1, <1>2, <2>3
  <2>5. Arguments(q) \in Seq(Frames)
    BY <1>1, <1>2, <2>2, <2>4
  <2>6. Encode(q) = Begin(q) \o Arguments(q)
    <3>1. Join(Join(Join(Begin(q), Path(q.path)), Path(q.data)), Submitted)
            = Join(Begin(q), Join(Path(q.path), Join(Path(q.data), Submitted)))
      BY <1>1, <2>3, FourJoined
    <3> QED
      BY <2>1, <2>2, <3>1 DEF Join
  <2> QED
    BY <1>1, <1>9, <2>3, <2>5, <2>6
<1> QED
  BY <1>4, <1>5, <1>6, <1>7, <1>8, <1>9 DEF Types

----------------------------------------------------------------------------
(* How far the server has come with a request.                             *)

\* p is the server's request with the frames that are still to come.
At(q, p, path, bytes, n, offset, fd, fs) ==
  p = <<Request(q.type, path, bytes, n, offset, fd), fs>>

Looking(q, p) ==
  /\ q.type \in {"stat", "list", "read"}
  /\ \/ At(q, p, <<>>, <<>>, None, None, None, Path(q.path) \o (Offset(q) \o Submitted))
     \/ /\ q.offset # None
        /\ At(q, p, q.path, <<>>, None, None, None, Offset(q) \o Submitted)

\* Of a large write, the first k blocks have arrived.
Writing(q, p) ==
  LET last == Left(q) \o Submitted
      Some(k) == SubSeq(q.data, 1, k * BlockSize)
      n == Blocks(Len(q.data))
  IN  /\ q.type = "write"
      /\ \/ /\ q.offset # None
            /\ At(q, p, <<>>, <<>>, None, None, None, Offset(q) \o (Path(q.path) \o Rest(q)))
         \/ At(q, p, <<>>, <<>>, None, q.offset, None, Path(q.path) \o Rest(q))
         \/ n # 0 /\ At(q, p, q.path, <<>>, None, q.offset, None, Rest(q))
         \/ \E k \in 0 .. n - 1 :
              At(q, p, q.path, Some(k), q.n, q.offset, None, BlocksFrom(q, k) \o last)
         \/ Left(q) # <<>> /\ At(q, p, q.path, Some(n), q.n, q.offset, None, last)

Opening(q, p) ==
  \/ /\ q.type = "close" /\ q.fd # None
     /\ At(q, p, <<>>, <<>>, None, None, None, Fd(q) \o Submitted)
  \/ /\ q.type = "open" /\ q.fd # None
     /\ At(q, p, <<>>, <<>>, None, None, None, Fd(q) \o (Path(q.path) \o Submitted))
  \/ /\ q.type = "open"
     /\ At(q, p, <<>>, <<>>, None, None, q.fd, Path(q.path) \o Submitted)

Linking(q, p) ==
  /\ q.type = "link"
  /\ \/ At(q, p, <<>>, <<>>, None, None, None, Path(q.path) \o (Path(q.data) \o Submitted))
     \/ At(q, p, q.path, <<>>, None, None, None, Path(q.data) \o Submitted)

Begun(q, p) == Looking(q, p) \/ Writing(q, p) \/ Opening(q, p) \/ Linking(q, p)

Whole(q, p) == p = <<Seen(q), Submitted>>

LEMMA SeenIs ==
  ASSUME NEW q, q.type # "link"
  PROVE  Seen(q) = q
  BY DEF Seen

\* The stages again, without the conditions on what there is left to come.
LEMMA StageIs ==
  ASSUME NEW q, NEW p, Asks(q)
  PROVE  /\ q.type \in {"stat", "list", "read"}
              /\ At(q, p, q.path, <<>>, None, None, None, Offset(q) \o Submitted) => Looking(q, p) \/ Whole(q, p)
         /\ q.type = "open"
              /\ At(q, p, <<>>, <<>>, None, None, None, Fd(q) \o (Path(q.path) \o Submitted)) => Opening(q, p)
         /\ q.type = "close"
              /\ At(q, p, <<>>, <<>>, None, None, None, Fd(q) \o Submitted) => Opening(q, p) \/ Whole(q, p)
<1>1. Submitted \in Seq(Frames) /\ Path(q.path) \o Submitted \in Seq(Frames)
  BY EncodeIs, FrameIs, ConcatProperties
<1>2. <<>> \o Submitted = Submitted /\ <<>> \o (Path(q.path) \o Submitted) = Path(q.path) \o Submitted
  BY <1>1, ConcatEmptySeq
<1>3. /\ q.offset = None => Offset(q) = <<>>
      /\ q.fd = None => Fd(q) = <<>>
  BY PartsAre
<1>4. q = Request(q.type, q.path, q.data, q.n, q.offset, q.fd)
  BY DEF Asks
<1>5. ASSUME q.type \in {"stat", "list", "read"},
             At(q, p, q.path, <<>>, None, None, None, Offset(q) \o Submitted)
      PROVE  Looking(q, p) \/ Whole(q, p)
  <2>1. q.data = <<>> /\ q.n = None /\ q.fd = None
    BY <1>5 DEF Asks
  <2>2. CASE q.offset = None
    BY <1>2, <1>3, <1>4, <1>5, <2>1, <2>2, SeenIs DEF At, Whole
  <2> QED
    BY <1>5, <2>2 DEF Looking
<1>6. ASSUME q.type = "open",
             At(q, p, <<>>, <<>>, None, None, None, Fd(q) \o (Path(q.path) \o Submitted))
      PROVE  Opening(q, p)
  BY <1>2, <1>3, <1>6 DEF Opening, At
<1>7. ASSUME q.type = "close", At(q, p, <<>>, <<>>, None, None, None, Fd(q) \o Submitted)
      PROVE  Opening(q, p) \/ Whole(q, p)
  <2>1. q.path = <<>> /\ q.data = <<>> /\ q.n = None /\ q.offset = None
    BY <1>7 DEF Asks
  <2>2. CASE q.fd = None
    BY <1>2, <1>3, <1>4, <1>7, <2>1, <2>2, SeenIs DEF At, Whole
  <2> QED
    BY <1>7, <2>2 DEF Opening
<1> QED
  BY <1>5, <1>6, <1>7

LEMMA WriteStageIs ==
  ASSUME NEW q, NEW p, Asks(q), q.type = "write"
  PROVE  LET n == Blocks(Len(q.data)) IN
         /\ At(q, p, <<>>, <<>>, None, None, None, Offset(q) \o (Path(q.path) \o Rest(q))) => Writing(q, p)
         /\ At(q, p, q.path, <<>>, None, q.offset, None, Rest(q)) => Writing(q, p) \/ Whole(q, p)
         /\ \A k \in 0 .. n :
              At(q, p, q.path, SubSeq(q.data, 1, k * BlockSize), q.n, q.offset, None,
                 BlocksFrom(q, k) \o (Left(q) \o Submitted)) => Writing(q, p) \/ Whole(q, p)
<1> DEFINE n == Blocks(Len(q.data))
           last == Left(q) \o Submitted
           Some(k) == SubSeq(q.data, 1, k * BlockSize)
<1>1. /\ n \in Nat /\ Left(q) \in Seq(Frames) /\ Submitted \in Seq(Frames)
      /\ q.data \in Strings /\ Rest(q) \in Seq(Frames) /\ Path(q.path) \in Seq(Frames)
      /\ q = Request("write", q.path, q.data, q.n, q.offset, None)
  BY WritesAre, EncodeIs, FrameIs DEF Asks
<1>2. last \in Seq(Frames) /\ Path(q.path) \o Rest(q) \in Seq(Frames)
  BY <1>1, ConcatProperties
<1>3. /\ <<>> \o Submitted = Submitted /\ <<>> \o last = last
      /\ <<>> \o (Path(q.path) \o Rest(q)) = Path(q.path) \o Rest(q)
  BY <1>1, <1>2, ConcatEmptySeq
<1>4. /\ q.offset = None => Offset(q) = <<>>
      /\ n = 0 => Count(q) = <<>> /\ q.n = None /\ Some(n) = <<>>
      /\ Left(q) = <<>> => Some(n) = q.data
      /\ BlocksFrom(q, n) = <<>>
  <2>1. q.offset = None => Offset(q) = <<>>
    BY PartsAre
  <2>2. /\ n = 0 => Count(q) = <<>> /\ q.n = None /\ Some(n) = <<>>
        /\ Left(q) = <<>> => Some(n) = q.data
    BY WritesAre
  <2>3. n <= n
    BY <1>1
  <2>4. BlocksFrom(q, n) = <<>>
    BY <1>1, <2>3, NextBlock
  <2> QED
    BY <2>1, <2>2, <2>4
<1> HIDE DEF n, last, Some
<1>5. ASSUME At(q, p, <<>>, <<>>, None, None, None, Offset(q) \o (Path(q.path) \o Rest(q)))
      PROVE  Writing(q, p)
  BY <1>3, <1>4, <1>5 DEF Writing, At
<1>6. ASSUME At(q, p, q.path, Some(n), q.n, q.offset, None, last)
      PROVE  Writing(q, p) \/ Whole(q, p)
  <2>1. CASE Left(q) = <<>>
    BY <1>1, <1>3, <1>4, <1>6, <2>1, SeenIs DEF At, Whole, last
  <2> QED
    BY <1>6, <2>1 DEF Writing, n, last, Some
<1>7. ASSUME NEW k \in 0 .. n, At(q, p, q.path, Some(k), q.n, q.offset, None, BlocksFrom(q, k) \o last)
      PROVE  Writing(q, p) \/ Whole(q, p)
  <2>1. CASE k = n
    BY <1>3, <1>4, <1>6, <1>7, <2>1
  <2>2. CASE k # n
    <3>1. k \in 0 .. n - 1
      BY <1>1, <2>2
    <3> QED
      BY <1>7, <3>1 DEF Writing, n, last, Some
  <2> QED
    BY <2>1, <2>2
<1>8. ASSUME At(q, p, q.path, <<>>, None, q.offset, None, Rest(q))
      PROVE  Writing(q, p) \/ Whole(q, p)
  <2>1. CASE n = 0
    <3>1. Rest(q) = last
      BY <1>3, <1>4, <2>1 DEF Rest, last
    <3> QED
      BY <1>4, <1>6, <1>8, <2>1, <3>1
  <2> QED
    BY <1>8, <2>1 DEF Writing, n
<1> QED
  BY <1>5, <1>7, <1>8 DEF n, last, Some

\* The next frame is an argument that the request may have.
Untouched == UNCHANGED <<asked, status, called, answer, file, data, result>>

LEMMA ArgumentIs ==
  ASSUME HandleArgument, NEW f \in Frames, NEW s \in Seq(Frames),
         frames = <<f>> \o s, f.type \in ArgMask[r.type]
  PROVE  frames' = s /\ SetArg(f) /\ Untouched
<1>1. Head(frames) = f /\ Tail(frames) = s
  BY Pop
<1>2. ~Throws(f)
  BY FrameIs
<1> QED
  BY <1>1, <1>2 DEF HandleArgument, NextFrame, Untouched

LEMMA AtIs ==
  ASSUME NEW q, NEW p, NEW path, NEW bytes, NEW n, NEW offset, NEW fd, NEW fs,
         At(q, p, path, bytes, n, offset, fd, fs)
  PROVE  p[2] = fs /\ p[1] = Request(q.type, path, bytes, n, offset, fd) /\ p[1].type = q.type
  BY DEF At, Request

\* In every stage but the last a frame comes that the request may have.
LEMMA BegunHead ==
  ASSUME NEW q, NEW p, Asks(q), Begun(q, p)
  PROVE  /\ p[2] \in Seq(Frames) /\ p[1].type = q.type
         /\ \E f \in Frames, s \in Seq(Frames) :
              p[2] = <<f>> \o s /\ f.type \in ArgMask[q.type]
<1>1. /\ Path(q.path) = <<String("path", q.path)>>
      /\ String("path", q.path) \in Frames /\ String("path", q.path).type = "path"
  BY PartsAre, FrameIs, TextIs DEF Asks
<1>2. q.offset # None => /\ Offset(q) = <<Int64("offset", q.offset)>>
                             /\ Int64("offset", q.offset) \in Frames
                             /\ Int64("offset", q.offset).type = "offset"
  BY PartsAre, FrameIs, IntIs
<1>3. q.fd # None => /\ Fd(q) = <<Int32("fd", q.fd)>>
                         /\ Int32("fd", q.fd) \in Frames /\ Int32("fd", q.fd).type = "fd"
  BY PartsAre, FrameIs, IntIs
<1>4. Submitted \in Seq(Frames) /\ Path(q.path) \in Seq(Frames) /\ Offset(q) \in Seq(Frames)
  BY EncodeIs, FrameIs
<1>5. \A s, t \in Seq(Frames) : s \o t \in Seq(Frames)
  BY ConcatProperties
<1>6. ASSUME NEW f \in Frames, NEW s \in Seq(Frames), p[2] = <<f>> \o s, f.type \in ArgMask[q.type]
      PROVE  /\ p[2] \in Seq(Frames)
             /\ \E g \in Frames, t \in Seq(Frames) : p[2] = <<g>> \o t /\ g.type \in ArgMask[q.type]
  BY <1>6, Pop
<1>7. p[1].type = q.type
  BY DEF Begun, Looking, Writing, Opening, Linking, At, Request
<1>8. /\ \A type \in {"stat", "list", "read", "write", "open", "link"} : "path" \in ArgMask[type]
      /\ \A type \in {"read", "write"} : "offset" \in ArgMask[type]
      /\ "fd" \in ArgMask["open"] /\ "fd" \in ArgMask["close"]
      /\ "data" \in ArgMask["write"] /\ "io_count" \in ArgMask["write"]
  BY DEF ArgMask
<1>9. CASE Looking(q, p)
  <2>1. Offset(q) \o Submitted \in Seq(Frames)
    BY <1>4, <1>5
  <2>2. q.offset # None => q.type = "read"
    BY <1>9 DEF Looking, Asks
  <2>3. PICK f \in Frames, s \in Seq(Frames) : p[2] = <<f>> \o s /\ f.type \in ArgMask[q.type]
    <3>1. CASE p[2] = Path(q.path) \o (Offset(q) \o Submitted)
      BY <1>1, <1>8, <1>9, <2>1, <3>1 DEF Looking
    <3>2. CASE q.offset # None /\ p[2] = Offset(q) \o Submitted
      BY <1>2, <1>4, <1>8, <2>2, <3>2
    <3> QED
      BY <1>9, <3>1, <3>2, AtIs DEF Looking
  <2> QED
    BY <1>6, <1>7, <2>3
<1>10. CASE Writing(q, p)
  <2> DEFINE last == Left(q) \o Submitted
             n == Blocks(Len(q.data))
  <2>1. q.type = "write" /\ q.data \in Strings /\ n \in Nat
    BY <1>10, BlocksFit, SMTT(20) DEF Writing, Asks, Strings
  <2>2. /\ last \in Seq(Frames) /\ Rest(q) \in Seq(Frames) /\ BlocksFrom(q, 0) \in Seq(Frames)
        /\ BlocksFrom(q, 0) \o last \in Seq(Frames)
        /\ Path(q.path) \o Rest(q) \in Seq(Frames)
    <3>1. Left(q) \in Seq(Frames) /\ Rest(q) \in Seq(Frames)
      BY <2>1, WritesAre, EncodeIs
    <3>2. BlocksFrom(q, 0) \in Seq(Frames)
      <4>1. 0 \in Nat /\ 0 <= n
        BY <2>1
      <4> QED
        BY <2>1, <4>1, NextBlock
    <3>3. last \in Seq(Frames)
      BY <1>4, <1>5, <3>1
    <3> HIDE DEF last
    <3> QED
      BY <1>4, <1>5, <3>1, <3>2, <3>3
  <2>3. PICK f \in Frames, s \in Seq(Frames) : p[2] = <<f>> \o s /\ f.type \in ArgMask["write"]
    <3>1. CASE q.offset # None /\ p[2] = Offset(q) \o (Path(q.path) \o Rest(q))
      BY <1>2, <1>8, <2>2, <3>1
    <3>2. CASE p[2] = Path(q.path) \o Rest(q)
      BY <1>1, <1>8, <2>2, <3>2
    <3>3. CASE n # 0 /\ p[2] = Rest(q)
      <4>1. Count(q) = <<Int32("io_count", q.n)>> /\ q.n \in Nat /\ q.n \in 0 .. IntMod - 1
        BY <2>1, <3>3, WritesAre
      <4>2. Int32("io_count", q.n) \in Frames /\ Int32("io_count", q.n).type = "io_count"
        BY <4>1, FrameIs, IntIs
      <4> QED
        BY <1>8, <2>2, <3>3, <4>1, <4>2 DEF Rest
    <3>4. ASSUME NEW k \in 0 .. n - 1, p[2] = BlocksFrom(q, k) \o last
          PROVE  \E g \in Frames, t \in Seq(Frames) : p[2] = <<g>> \o t /\ g.type \in ArgMask["write"]
      <4>1. k \in Nat /\ k < n /\ k + 1 \in 1 .. n /\ k + 1 \in Nat /\ k <= n /\ k + 1 <= n
        BY <2>1
      <4>2. BlocksFrom(q, k) = <<Block(q, k + 1)>> \o BlocksFrom(q, k + 1)
        BY <2>1, <4>1, NextBlock
      <4>3. Block(q, k + 1) \in Frames /\ Block(q, k + 1).type = "data"
        BY <2>1, <4>1, Cuts
      <4>4. BlocksFrom(q, k + 1) \in Seq(Frames)
        BY <2>1, <4>1, NextBlock
      <4>5. <<Block(q, k + 1)>> \in Seq(Frames)
        BY <4>3
      <4> HIDE DEF last
      <4>6. p[2] = <<Block(q, k + 1)>> \o (BlocksFrom(q, k + 1) \o last)
        BY <2>2, <3>4, <4>2, <4>4, <4>5, Three, SMTT(20)
      <4>7. BlocksFrom(q, k + 1) \o last \in Seq(Frames)
        BY <1>5, <2>2, <4>4
      <4> QED
        BY <1>8, <4>3, <4>6, <4>7
    <3>5. CASE Left(q) # <<>> /\ p[2] = last
      <4>1. PICK left \in Strings : Left(q) = <<String("data", left)>> /\ Len(left) <= MaxLen
        BY <2>1, <3>5, WritesAre
      <4>2. String("data", left) \in Frames /\ String("data", left).type = "data"
        BY <4>1, FrameIs, TextIs
      <4> QED
        BY <1>4, <1>8, <3>5, <4>1, <4>2
    <3> QED
      BY <1>10, <3>1, <3>2, <3>3, <3>4, <3>5, AtIs DEF Writing
  <2> QED
    BY <1>6, <1>7, <2>1, <2>3
<1>11. CASE Opening(q, p)
  <2>1. PICK f \in Frames, s \in Seq(Frames) : p[2] = <<f>> \o s /\ f.type \in ArgMask[q.type]
    <3>1. Path(q.path) \o Submitted \in Seq(Frames)
      BY <1>4, <1>5
    <3>2. \/ q.type = "close" /\ q.fd # None /\ p[2] = Fd(q) \o Submitted
          \/ q.type = "open" /\ q.fd # None /\ p[2] = Fd(q) \o (Path(q.path) \o Submitted)
          \/ q.type = "open" /\ p[2] = Path(q.path) \o Submitted
      <4>1. CASE /\ q.type = "close" /\ q.fd # None
                 /\ At(q, p, <<>>, <<>>, None, None, None, Fd(q) \o Submitted)
        <5>1. p[2] = Fd(q) \o Submitted
          BY <4>1 DEF At
        <5> QED
          BY <4>1, <5>1
      <4>2. CASE /\ q.type = "open" /\ q.fd # None
                 /\ At(q, p, <<>>, <<>>, None, None, None, Fd(q) \o (Path(q.path) \o Submitted))
        BY <4>2, AtIs
      <4>3. CASE /\ q.type = "open"
                 /\ At(q, p, <<>>, <<>>, None, None, q.fd, Path(q.path) \o Submitted)
        BY <4>3, AtIs
      <4> QED
        BY <1>11, <4>1, <4>2, <4>3 DEF Opening
    <3> QED
      BY <1>1, <1>3, <1>4, <1>8, <3>1, <3>2
  <2> QED
    BY <1>6, <1>7, <2>1
<1>12. CASE Linking(q, p)
  <2>1. q.type = "link"
    BY <1>12 DEF Linking
  <2>2. /\ Path(q.data) = <<String("path", q.data)>>
        /\ String("path", q.data) \in Frames /\ String("path", q.data).type = "path"
    BY <2>1, FrameIs, TextIs DEF Asks, Path
  <2>3. PICK f \in Frames, s \in Seq(Frames) : p[2] = <<f>> \o s /\ f.type \in ArgMask[q.type]
    <3>1. Path(q.data) \o Submitted \in Seq(Frames)
      BY <1>4, <1>5, <2>1, EncodeIs
    <3>2. \/ p[2] = Path(q.path) \o (Path(q.data) \o Submitted)
          \/ p[2] = Path(q.data) \o Submitted
      BY <1>12, AtIs DEF Linking
    <3> QED
      BY <1>1, <1>4, <1>8, <2>1, <2>2, <3>1, <3>2
  <2> QED
    BY <1>6, <1>7, <2>3
<1> QED
  BY <1>9, <1>10, <1>11, <1>12 DEF Begun

----------------------------------------------------------------------------
(* Every argument leads to the next stage.                                 *)

LEMMA LookingMoves ==
  ASSUME NEW q, Asks(q), Looking(q, <<r, frames>>), HandleArgument
  PROVE  Untouched /\ (Looking(q, <<r', frames'>>) \/ Whole(q, <<r', frames'>>))
<1>1. q.type \in Types /\ q.type \in {"stat", "list", "read"} /\ q.path \in Strings /\ Len(q.path) <= MaxLen
  BY DEF Asks, Looking
<1>2. /\ Offset(q) \o Submitted \in Seq(Frames) /\ Submitted \in Seq(Frames)
      /\ "path" \in ArgMask[q.type] /\ "offset" \in ArgMask["read"]
  BY <1>1, EncodeIs, FrameIs, ConcatProperties DEF ArgMask
<1>3. CASE At(q, <<r, frames>>, <<>>, <<>>, None, None, None, Path(q.path) \o (Offset(q) \o Submitted))
  <2> DEFINE f == String("path", q.path)
  <2>1. f \in Frames /\ f.type = "path" /\ GetData(f) = q.path
    BY <1>1, FrameIs, TextIs
  <2>2. r = Request(q.type, <<>>, <<>>, None, None, None) /\ frames = <<f>> \o (Offset(q) \o Submitted)
    BY <1>3 DEF At, Path
  <2> HIDE DEF f
  <2>3. frames' = Offset(q) \o Submitted /\ Untouched /\ r' = Request(q.type, q.path, <<>>, None, None, None)
    <3>1. r.type = q.type
      BY <2>2 DEF Request
    <3>2. frames' = Offset(q) \o Submitted /\ SetArg(f) /\ Untouched
      BY <1>1, <1>2, <2>1, <2>2, <3>1, ArgumentIs
    <3> QED
      BY <1>1, <2>1, <2>2, <3>2 DEF SetArg, Request
  <2>4. At(q, <<r', frames'>>, q.path, <<>>, None, None, None, Offset(q) \o Submitted)
    BY <2>3 DEF At
  <2> QED
    BY <1>1, <2>3, <2>4, StageIs
<1>4. CASE /\ q.offset # None
           /\ At(q, <<r, frames>>, q.path, <<>>, None, None, None, Offset(q) \o Submitted)
  <2> DEFINE f == Int64("offset", q.offset)
  <2>1. f \in Frames /\ f.type = "offset" /\ GetU64(f) = q.offset /\ Offset(q) = <<f>>
    BY <1>4, PartsAre, FrameIs, IntIs
  <2>2. r = Request(q.type, q.path, <<>>, None, None, None) /\ frames = <<f>> \o Submitted
    BY <1>4, <2>1 DEF At
  <2>3. q.type = "read" /\ q = Request(q.type, q.path, <<>>, None, q.offset, None)
    BY <1>1, <1>4 DEF Asks
  <2> HIDE DEF f
  <2>4. frames' = Submitted /\ Untouched /\ r' = Request(q.type, q.path, <<>>, None, q.offset, None)
    <3>1. r.type = q.type
      BY <2>2 DEF Request
    <3>2. frames' = Submitted /\ SetArg(f) /\ Untouched
      BY <1>1, <1>2, <2>1, <2>2, <2>3, <3>1, ArgumentIs
    <3> QED
      BY <1>1, <2>1, <2>2, <3>2 DEF SetArg, Request
  <2> QED
    BY <2>3, <2>4, SeenIs DEF Whole
<1> QED
  BY <1>3, <1>4 DEF Looking

LEMMA OpeningMoves ==
  ASSUME NEW q, Asks(q), Opening(q, <<r, frames>>), HandleArgument
  PROVE  Untouched /\ (Opening(q, <<r', frames'>>) \/ Whole(q, <<r', frames'>>))
<1>1. q.type \in Types /\ q.path \in Strings /\ Len(q.path) <= MaxLen
  BY DEF Asks
<1>2. /\ Path(q.path) \o Submitted \in Seq(Frames) /\ Submitted \in Seq(Frames)
      /\ "path" \in ArgMask["open"] /\ "fd" \in ArgMask["open"] /\ "fd" \in ArgMask["close"]
  BY <1>1, EncodeIs, FrameIs, ConcatProperties DEF ArgMask
<1>3. ASSUME q.fd # None, NEW s \in Seq(Frames), q.type \in {"open", "close"},
             At(q, <<r, frames>>, <<>>, <<>>, None, None, None, Fd(q) \o s)
      PROVE  frames' = s /\ Untouched /\ r' = Request(q.type, <<>>, <<>>, None, None, q.fd)
  <2> DEFINE f == Int32("fd", q.fd)
  <2>1. f \in Frames /\ f.type = "fd" /\ GetU64(f) = q.fd /\ Fd(q) = <<f>>
    BY <1>3, PartsAre, FrameIs, IntIs
  <2>2. r = Request(q.type, <<>>, <<>>, None, None, None) /\ frames = <<f>> \o s
    BY <1>3, <2>1 DEF At
  <2> HIDE DEF f
  <2>3. r.type = q.type
    BY <2>2 DEF Request
  <2>4. frames' = s /\ SetArg(f) /\ Untouched
    BY <1>2, <1>3, <2>1, <2>2, <2>3, ArgumentIs
  <2> QED
    BY <2>1, <2>2, <2>4 DEF SetArg, Request
<1>4. CASE /\ q.type = "close" /\ q.fd # None
           /\ At(q, <<r, frames>>, <<>>, <<>>, None, None, None, Fd(q) \o Submitted)
  <2>1. frames' = Submitted /\ Untouched /\ r' = Request(q.type, <<>>, <<>>, None, None, q.fd)
    BY <1>2, <1>3, <1>4
  <2>2. q = Request(q.type, <<>>, <<>>, None, None, q.fd)
    BY <1>4 DEF Asks
  <2> QED
    BY <1>4, <2>1, <2>2, SeenIs DEF Whole
<1>5. CASE /\ q.type = "open" /\ q.fd # None
           /\ At(q, <<r, frames>>, <<>>, <<>>, None, None, None, Fd(q) \o (Path(q.path) \o Submitted))
  <2>1. frames' = Path(q.path) \o Submitted /\ Untouched /\ r' = Request(q.type, <<>>, <<>>, None, None, q.fd)
    BY <1>2, <1>3, <1>5
  <2> QED
    BY <1>5, <2>1 DEF Opening, At
<1>6. CASE /\ q.type = "open"
           /\ At(q, <<r, frames>>, <<>>, <<>>, None, None, q.fd, Path(q.path) \o Submitted)
  <2> DEFINE f == String("path", q.path)
  <2>1. f \in Frames /\ f.type = "path" /\ GetData(f) = q.path
    BY <1>1, FrameIs, TextIs
  <2>2. r = Request(q.type, <<>>, <<>>, None, None, q.fd) /\ frames = <<f>> \o Submitted
    BY <1>6 DEF At, Path
  <2> HIDE DEF f
  <2>3. frames' = Submitted /\ Untouched /\ r' = Request(q.type, q.path, <<>>, None, None, q.fd)
    <3>1. r.type = q.type
      BY <2>2 DEF Request
    <3>2. frames' = Submitted /\ SetArg(f) /\ Untouched
      BY <1>1, <1>2, <1>6, <2>1, <2>2, <3>1, ArgumentIs
    <3> QED
      BY <1>1, <2>1, <2>2, <3>2 DEF SetArg, Request
  <2>4. q = Request(q.type, q.path, <<>>, None, None, q.fd)
    BY <1>6 DEF Asks
  <2> QED
    BY <1>6, <2>3, <2>4, SeenIs DEF Whole
<1> QED
  BY <1>4, <1>5, <1>6 DEF Opening

LEMMA LinkingMoves ==
  ASSUME NEW q, Asks(q), Linking(q, <<r, frames>>), HandleArgument
  PROVE  Untouched /\ (Linking(q, <<r', frames'>>) \/ Whole(q, <<r', frames'>>))
<1>1. /\ q.type = "link" /\ "link" \in Types /\ q.path \in Strings /\ Len(q.path) <= MaxLen
      /\ q.data \in Strings /\ Len(q.data) <= MaxLen
      /\ q = Request(q.type, q.path, q.data, None, None, None)
  BY DEF Asks, Linking, Types
<1>2. /\ Path(q.data) \o Submitted \in Seq(Frames) /\ Submitted \in Seq(Frames)
      /\ "path" \in ArgMask["link"]
  BY <1>1, EncodeIs, FrameIs, ConcatProperties DEF ArgMask
<1>3. ASSUME NEW path \in {q.path, q.data}
      PROVE  LET f == String("path", path) IN f \in Frames /\ f.type = "path" /\ GetData(f) = path
  BY <1>1, FrameIs, TextIs
<1>4. CASE At(q, <<r, frames>>, <<>>, <<>>, None, None, None, Path(q.path) \o (Path(q.data) \o Submitted))
  <2> DEFINE f == String("path", q.path)
  <2>1. f \in Frames /\ f.type = "path" /\ GetData(f) = q.path
    BY <1>3
  <2>2. r = Request(q.type, <<>>, <<>>, None, None, None) /\ frames = <<f>> \o (Path(q.data) \o Submitted)
    BY <1>4 DEF At, Path
  <2> HIDE DEF f
  <2>3. frames' = Path(q.data) \o Submitted /\ Untouched /\ r' = Request(q.type, q.path, <<>>, None, None, None)
    <3>1. r.type = q.type
      BY <2>2 DEF Request
    <3>2. frames' = Path(q.data) \o Submitted /\ SetArg(f) /\ Untouched
      BY <1>1, <1>2, <2>1, <2>2, <3>1, ArgumentIs
    <3> QED
      BY <1>1, <2>1, <2>2, <3>2 DEF SetArg, Request
  <2> QED
    BY <1>1, <2>3 DEF Linking, At
<1>5. CASE At(q, <<r, frames>>, q.path, <<>>, None, None, None, Path(q.data) \o Submitted)
  <2> DEFINE f == String("path", q.data)
  <2>1. f \in Frames /\ f.type = "path" /\ GetData(f) = q.data
    BY <1>3
  <2>2. r = Request(q.type, q.path, <<>>, None, None, None) /\ frames = <<f>> \o Submitted
    BY <1>5 DEF At, Path
  <2> HIDE DEF f
  <2>3. frames' = Submitted /\ SetArg(f) /\ Untouched
    <3>1. r.type = q.type
      BY <2>2 DEF Request
    <3> QED
      BY <1>1, <1>2, <2>1, <2>2, <3>1, ArgumentIs
  <2>4. CASE q.path # <<>>
    <3>1. r' = Request(q.type, q.path, q.data, None, None, None)
      BY <1>1, <2>1, <2>2, <2>3, <2>4 DEF SetArg, Request
    <3>2. Seen(q) = q
      BY <2>4 DEF Seen
    <3> QED
      BY <1>1, <2>3, <3>1, <3>2 DEF Whole
  <2>5. CASE q.path = <<>>    \* the second path takes the place of the first
    <3>1. r' = Request("link", q.data, <<>>, None, None, None)
      BY <1>1, <2>1, <2>2, <2>3, <2>5 DEF SetArg, Request
    <3>2. Seen(q) = Request("link", q.data, <<>>, None, None, None)
      <4>1. q.type = "link" /\ q.n = None /\ q.offset = None /\ q.fd = None
        BY <1>1 DEF Request
      <4> QED
        BY <2>5, <4>1 DEF Seen
    <3> QED
      BY <2>3, <3>1, <3>2 DEF Whole
  <2> QED
    BY <2>4, <2>5
<1> QED
  BY <1>4, <1>5 DEF Linking

LEMMA WritingMoves ==
  ASSUME NEW q, Asks(q), Writing(q, <<r, frames>>), HandleArgument
  PROVE  Untouched /\ (Writing(q, <<r', frames'>>) \/ Whole(q, <<r', frames'>>))
<1> DEFINE n       == Blocks(Len(q.data))
           last    == Left(q) \o Submitted
           Some(k) == SubSeq(q.data, 1, k * BlockSize)
           left    == SubSeq(q.data, n * BlockSize + 1, Len(q.data))
<1>1. /\ q.type = "write" /\ "write" \in Types /\ q.path \in Strings /\ Len(q.path) <= MaxLen
      /\ q.data \in Strings /\ n \in Nat
      /\ q = Request(q.type, q.path, q.data, q.n, q.offset, None)
  BY BlocksFit DEF Asks, Writing, Types, Strings
<1>2. /\ Rest(q) \in Seq(Frames) /\ Path(q.path) \o Rest(q) \in Seq(Frames)
      /\ Submitted \in Seq(Frames) /\ last \in Seq(Frames)
      /\ \A k \in 0 .. n : BlocksFrom(q, k) \o last \in Seq(Frames)
  <2>1. Rest(q) \in Seq(Frames) /\ Path(q.path) \in Seq(Frames) /\ Submitted \in Seq(Frames)
        /\ Left(q) \in Seq(Frames)
    BY <1>1, EncodeIs, FrameIs, WritesAre
  <2>2. last \in Seq(Frames) /\ Path(q.path) \o Rest(q) \in Seq(Frames)
    BY <2>1, ConcatProperties
  <2>3. ASSUME NEW k \in 0 .. n PROVE BlocksFrom(q, k) \in Seq(Frames)
    <3>1. k \in Nat /\ k <= n
      BY <1>1
    <3> QED
      BY <1>1, <3>1, NextBlock
  <2> HIDE DEF last, n
  <2> QED
    BY <2>1, <2>2, <2>3, ConcatProperties
<1>3. /\ "path" \in ArgMask["write"] /\ "offset" \in ArgMask["write"]
      /\ "io_count" \in ArgMask["write"] /\ "data" \in ArgMask["write"]
  BY DEF ArgMask
<1>4. CASE /\ q.offset # None
           /\ At(q, <<r, frames>>, <<>>, <<>>, None, None, None, Offset(q) \o (Path(q.path) \o Rest(q)))
  <2> DEFINE f == Int64("offset", q.offset)
  <2>1. f \in Frames /\ f.type = "offset" /\ GetU64(f) = q.offset /\ Offset(q) = <<f>>
    BY <1>4, PartsAre, FrameIs, IntIs
  <2>2. r = Request(q.type, <<>>, <<>>, None, None, None) /\ frames = <<f>> \o (Path(q.path) \o Rest(q))
    BY <1>4, <2>1 DEF At
  <2>3. r.type = "write"
    BY <1>1, <2>2 DEF Request
  <2> HIDE DEF f
  <2>4. frames' = Path(q.path) \o Rest(q) /\ SetArg(f) /\ Untouched
    BY <1>2, <1>3, <2>1, <2>2, <2>3, ArgumentIs
  <2>5. r' = Request(q.type, <<>>, <<>>, None, q.offset, None)
    BY <2>1, <2>2, <2>4 DEF SetArg, Request
  <2> QED
    BY <1>1, <2>4, <2>5 DEF Writing, At
<1>5. CASE At(q, <<r, frames>>, <<>>, <<>>, None, q.offset, None, Path(q.path) \o Rest(q))
  <2> DEFINE f == String("path", q.path)
  <2>1. f \in Frames /\ f.type = "path" /\ GetData(f) = q.path
    BY <1>1, FrameIs, TextIs
  <2>2. r = Request(q.type, <<>>, <<>>, None, q.offset, None) /\ frames = <<f>> \o Rest(q)
    BY <1>5 DEF At, Path
  <2>3. r.type = "write"
    BY <1>1, <2>2 DEF Request
  <2> HIDE DEF f
  <2>4. frames' = Rest(q) /\ SetArg(f) /\ Untouched
    BY <1>2, <1>3, <2>1, <2>2, <2>3, ArgumentIs
  <2>5. r' = Request(q.type, q.path, <<>>, None, q.offset, None)
    BY <2>1, <2>2, <2>4 DEF SetArg, Request
  <2>6. At(q, <<r', frames'>>, q.path, <<>>, None, q.offset, None, Rest(q))
    BY <2>4, <2>5 DEF At
  <2> QED
    BY <1>1, <2>4, <2>6, WriteStageIs
<1>6. CASE n # 0 /\ At(q, <<r, frames>>, q.path, <<>>, None, q.offset, None, Rest(q))
  <2> DEFINE f == Int32("io_count", q.n)
  <2>1. Count(q) = <<f>> /\ q.n \in Nat /\ q.n \in 0 .. IntMod - 1
    BY <1>1, <1>6, WritesAre
  <2>2. f \in Frames /\ f.type = "io_count" /\ GetU64(f) = q.n
    BY <2>1, FrameIs, IntIs
  <2>3. r = Request(q.type, q.path, <<>>, None, q.offset, None) /\ frames = <<f>> \o (BlocksFrom(q, 0) \o last)
    BY <1>6, <2>1 DEF At, Rest
  <2>4. r.type = "write" /\ 0 \in 0 .. n
    BY <1>1, <2>3 DEF Request
  <2> HIDE DEF f, last, n
  <2>5. frames' = BlocksFrom(q, 0) \o last /\ SetArg(f) /\ Untouched
    BY <1>2, <1>3, <2>2, <2>3, <2>4, ArgumentIs
  <2>6. r' = Request(q.type, q.path, <<>>, q.n, q.offset, None)
    BY <2>2, <2>3, <2>5 DEF SetArg, Request
  <2>7. Some(0) = <<>>
    <3>1. 0 * BlockSize = 0
      BY CodecAssumption
    <3> QED
      BY <3>1, SubSeqEmpty
  <2>8. At(q, <<r', frames'>>, q.path, Some(0), q.n, q.offset, None, BlocksFrom(q, 0) \o last)
    BY <2>5, <2>6, <2>7 DEF At
  <2> QED
    BY <1>1, <2>4, <2>5, <2>8, WriteStageIs DEF last, n
<1>7. ASSUME NEW k \in 0 .. n - 1,
             At(q, <<r, frames>>, q.path, Some(k), q.n, q.offset, None, BlocksFrom(q, k) \o last)
      PROVE  Untouched /\ (Writing(q, <<r', frames'>>) \/ Whole(q, <<r', frames'>>))
  <2> DEFINE f == Block(q, k + 1)
  <2>1. k \in Nat /\ k < n /\ k + 1 \in 1 .. n /\ k + 1 \in Nat /\ k <= n /\ k + 1 <= n /\ k + 1 \in 0 .. n
        /\ k + 1 - 1 = k
    BY <1>1
  <2>2. f \in Frames /\ f.type = "data" /\ Some(k) \o GetData(f) = Some(k + 1)
    <3>1. f \in Frames /\ f.type = "data" /\ Some(k + 1 - 1) \o GetData(f) = Some(k + 1)
      <4>1. PICK m \in 1 .. n : m = k + 1
        BY <2>1
      <4>2. Block(q, m) \in Frames /\ Block(q, m).type = "data" /\ Some(m - 1) \o GetData(Block(q, m)) = Some(m)
        BY <1>1, Cuts
      <4> HIDE DEF Some
      <4> QED
        BY ONLY <4>1, <4>2 DEF f
    <3> HIDE DEF f, Some
    <3> QED
      BY <2>1, <3>1
  <2>3. frames = <<f>> \o (BlocksFrom(q, k + 1) \o last)
    <3>1. BlocksFrom(q, k) = <<f>> \o BlocksFrom(q, k + 1) /\ BlocksFrom(q, k + 1) \in Seq(Frames)
      BY <1>1, <2>1, NextBlock
    <3>2. <<f>> \in Seq(Frames)
      BY <2>2
    <3>3. frames = BlocksFrom(q, k) \o last
      BY <1>7 DEF At
    <3> HIDE DEF f, last
    <3> QED
      BY <1>2, <3>1, <3>2, <3>3, Three, SMTT(30)
  <2>4. r = Request(q.type, q.path, Some(k), q.n, q.offset, None)
    BY <1>7 DEF At
  <2>5. r.type = "write"
    BY <1>1, <2>4 DEF Request
  <2> HIDE DEF f, last, n, Some
  <2>6. frames' = BlocksFrom(q, k + 1) \o last /\ SetArg(f) /\ Untouched
    BY <1>2, <1>3, <2>1, <2>2, <2>3, <2>5, ArgumentIs
  <2>7. r' = Request(q.type, q.path, Some(k) \o GetData(f), q.n, q.offset, None)
    BY <2>2, <2>4, <2>6 DEF SetArg, Request
  <2>8. At(q, <<r', frames'>>, q.path, Some(k + 1), q.n, q.offset, None, BlocksFrom(q, k + 1) \o last)
    BY <2>2, <2>6, <2>7 DEF At
  <2> QED
    BY <1>1, <2>1, <2>6, <2>8, WriteStageIs DEF last, n, Some
<1>8. CASE Left(q) # <<>> /\ At(q, <<r, frames>>, q.path, Some(n), q.n, q.offset, None, last)
  <2> DEFINE f == String("data", left)
  <2>1. Left(q) = <<f>> /\ left \in Strings /\ Len(left) <= MaxLen /\ Some(n) \o left = q.data
    BY <1>1, <1>8, WritesAre
  <2>2. f \in Frames /\ f.type = "data" /\ GetData(f) = left
    BY <2>1, FrameIs, TextIs
  <2>3. r = Request(q.type, q.path, Some(n), q.n, q.offset, None) /\ frames = <<f>> \o Submitted
    BY <1>8, <2>1 DEF At
  <2>4. r.type = "write"
    BY <1>1, <2>3 DEF Request
  <2> HIDE DEF f, left, n, Some, last
  <2>5. frames' = Submitted /\ SetArg(f) /\ Untouched
    BY <1>2, <1>3, <2>2, <2>3, <2>4, ArgumentIs
  <2>6. r' = Request(q.type, q.path, Some(n) \o GetData(f), q.n, q.offset, None)
    BY <2>2, <2>3, <2>5 DEF SetArg, Request
  <2> QED
    BY <1>1, <2>1, <2>2, <2>5, <2>6, SeenIs DEF Whole
<1> QED
  BY <1>4, <1>5, <1>6, <1>7, <1>8 DEF Writing

----------------------------------------------------------------------------
(* The invariant of the server's side.                                     *)

\* The answer's frames are of these; whatever its length, a file is data, and no
\* number in them makes the client throw.
Results == {Int32("result", n) : n \in 0 .. IntMod - 1}
Answers == {Int64("stat_size", n) : n \in Nat} \cup {String("recv_data", s) : s \in Strings} \cup Results

LEMMA AnswersAre == \A f \in Answers : ~Throws(f)
<1>1. ASSUME NEW n \in Nat PROVE ~Throws(Int64("stat_size", n))
  BY IntIs DEF Throws
<1>2. ASSUME NEW s \in Strings PROVE ~Throws(String("recv_data", s))
  BY DEF String, Payload, Throws
<1>3. ASSUME NEW n \in 0 .. IntMod - 1 PROVE ~Throws(Int32("result", n))
  <2>1. n \in Nat /\ n < IntMod
    BY CodecAssumption
  <2> QED
    BY <2>1, IntIs DEF Throws, IsU32
<1> QED
  BY <1>1, <1>2, <1>3 DEF Answers, Results

LEMMA AnswersPop ==
  ASSUME answer \in Seq(Answers), NextAnswer, status = "running"
  PROVE  answer' \in Seq(Answers) /\ status' = "running" /\ Head(answer) \in Answers
<1>1. answer # <<>> /\ answer' = Tail(answer)
  BY DEF NextAnswer
<1>2. Head(answer) \in Answers /\ Tail(answer) \in Seq(Answers)
  BY <1>1, HeadTailProperties
<1> QED
  BY <1>1, <1>2, AnswersAre DEF NextAnswer

Sending ==
  /\ asked \in Requests /\ status = "running" /\ called \in BOOLEAN /\ answer \in Seq(Answers)
  /\ \/ ~called /\ r = NoArgs /\ frames = Begin(asked) \o Arguments(asked)
     \/ ~called /\ Begun(asked, <<r, frames>>)
     \/ ~called /\ Whole(asked, <<r, frames>>)
     \/ called /\ r = Seen(asked) /\ frames = <<>>

\* The first stage of every request.
LEMMA FirstStage ==
  ASSUME NEW q, Asks(q), NEW p, p = <<Request(q.type, <<>>, <<>>, None, None, None), Arguments(q)>>
  PROVE  Begun(q, p) \/ Whole(q, p)
<1>1. q.type \in Types
  BY DEF Asks
<1>2. CASE q.type \in {"stat", "list", "read"}
  BY <1>2 DEF Arguments, At, Looking, Begun
<1>3. CASE q.type = "write"
  <2>1. At(q, p, <<>>, <<>>, None, None, None, Offset(q) \o (Path(q.path) \o Rest(q)))
    BY <1>3 DEF Arguments, At
  <2> QED
    BY <1>3, <2>1, WriteStageIs DEF Begun
<1>4. CASE q.type = "open"
  <2>1. At(q, p, <<>>, <<>>, None, None, None, Fd(q) \o (Path(q.path) \o Submitted))
    BY <1>4 DEF Arguments, At
  <2> QED
    BY <1>4, <2>1, StageIs DEF Begun
<1>5. CASE q.type = "close"
  <2>1. At(q, p, <<>>, <<>>, None, None, None, Fd(q) \o Submitted)
    BY <1>5 DEF Arguments, At
  <2> QED
    BY <1>5, <2>1, StageIs DEF Begun
<1>6. CASE q.type = "link"
  BY <1>6 DEF Arguments, At, Linking, Begun
<1> QED
  BY <1>1, <1>2, <1>3, <1>4, <1>5, <1>6 DEF Types

\* What the next frame is, where the server has come to.
LEMMA HeadIs ==
  ASSUME ShortPaths, Sending
  PROVE  /\ Asks(asked) /\ frames \in Seq(Frames)
         /\ ~called /\ r = NoArgs /\ frames = Begin(asked) \o Arguments(asked) =>
              /\ Head(frames) = Header("request", asked.type) /\ Tail(frames) = Arguments(asked)
         /\ ~called /\ Begun(asked, <<r, frames>>) =>
              Head(frames).type \notin {"request", "submit"}
         /\ ~called /\ Whole(asked, <<r, frames>>) =>
              Head(frames).type = "submit" /\ Tail(frames) = <<>>
<1>1. Asks(asked)
  BY AskedIs DEF Sending
<1>2. /\ Begin(asked) = <<Header("request", asked.type)>> /\ Header("request", asked.type) \in Frames
      /\ Arguments(asked) \in Seq(Frames)
  BY <1>1, EncodeIs, FrameIs DEF Begin, Asks
<1>3. ASSUME frames = Begin(asked) \o Arguments(asked)
      PROVE  /\ frames \in Seq(Frames)
             /\ Head(frames) = Header("request", asked.type) /\ Tail(frames) = Arguments(asked)
  BY <1>2, <1>3, Pop
<1>4. ASSUME Begun(asked, <<r, frames>>)
      PROVE  frames \in Seq(Frames) /\ Head(frames).type \notin {"request", "submit"}
  <2>1. PICK f \in Frames, s \in Seq(Frames) : frames = <<f>> \o s /\ f.type \in ArgMask[asked.type]
    <3>1. PICK p : p = <<r, frames>>
      OBVIOUS
    <3>2. Begun(asked, p) /\ p[2] = frames
      BY <1>4, <3>1
    <3> QED
      BY <1>1, <3>2, BegunHead
  <2>2. Head(frames) = f /\ frames \in Seq(Frames)
    BY <2>1, Pop
  <2>3. \A type \in Types : ArgMask[type] \cap {"request", "submit"} = {}
    BY DEF ArgMask, Types
  <2> QED
    BY <1>1, <2>1, <2>2, <2>3 DEF Asks
<1>5. ASSUME Whole(asked, <<r, frames>>)
      PROVE  frames \in Seq(Frames) /\ Head(frames).type = "submit" /\ Tail(frames) = <<>>
  <2>1. frames = <<Header("submit", 0)>> /\ Header("submit", 0) \in Frames
    BY <1>5 DEF Whole, Submitted, Frames
  <2> QED
    BY <2>1 DEF Header
<1>6. frames = <<>> => frames \in Seq(Frames)
  OBVIOUS
<1> QED
  BY <1>1, <1>3, <1>4, <1>5, <1>6 DEF Sending

LEMMA SendingStarts == ASSUME ShortPaths, Init PROVE Sending
<1>1. Asks(asked)
  BY AskedIs DEF Init
<1> QED
  BY <1>1, EncodeIs, EmptySeq DEF Init, Sending

LEMMA SendingKeeps ==
  ASSUME ShortPaths, Sending, [Next]_vars
  PROVE  Sending'
<1>1. Asks(asked) /\ asked \in Requests
  BY HeadIs DEF Sending
<1>2. CASE HandleRequest
  <2>1. ~called /\ Head(frames).type = "request" /\ frames # <<>>
    BY <1>2 DEF HandleRequest, NextFrame
  <2>2. ~Begun(asked, <<r, frames>>) /\ ~Whole(asked, <<r, frames>>)
    BY <2>1, HeadIs
  <2>3. Head(frames) = Header("request", asked.type) /\ Tail(frames) = Arguments(asked)
    BY <2>1, <2>2, HeadIs DEF Sending
  <2>4. frames' = Arguments(asked) /\ r' = [NoArgs EXCEPT !.type = asked.type]
    BY <1>2, <2>3 DEF HandleRequest, NextFrame, Header
  <2>5. r' = Request(asked.type, <<>>, <<>>, None, None, None)
    BY <2>4 DEF NoArgs, Request
  <2>6. Begun(asked, <<r', frames'>>) \/ Whole(asked, <<r', frames'>>)
    BY <1>1, <2>4, <2>5, FirstStage
  <2>7. UNCHANGED <<asked, status, called, answer>>
    BY <1>2 DEF HandleRequest
  <2> QED
    BY <2>1, <2>6, <2>7 DEF Sending
<1>3. CASE HandleArgument
  <2>1. ~called /\ Head(frames).type \notin {"request", "submit"} /\ frames # <<>>
    BY <1>3 DEF HandleArgument, NextFrame
  <2>2. Begun(asked, <<r, frames>>)
    <3>1. ~Whole(asked, <<r, frames>>)
      BY <2>1, HeadIs
    <3>2. ~(r = NoArgs /\ frames = Begin(asked) \o Arguments(asked))
      BY <2>1, HeadIs DEF Header
    <3> QED
      BY <2>1, <3>1, <3>2 DEF Sending
  <2>3. Untouched /\ (Begun(asked, <<r', frames'>>) \/ Whole(asked, <<r', frames'>>))
    BY <1>1, <1>3, <2>2, LookingMoves, WritingMoves, OpeningMoves, LinkingMoves DEF Begun
  <2> QED
    BY <2>1, <2>3 DEF Sending, Untouched
<1>4. CASE HandleSubmit
  <2>1. ~called /\ Head(frames).type = "submit" /\ frames # <<>> /\ frames' = Tail(frames)
    BY <1>4 DEF HandleSubmit, NextFrame
  <2>2. Whole(asked, <<r, frames>>)
    <3>1. ~Begun(asked, <<r, frames>>)
      BY <2>1, HeadIs
    <3>2. ~(r = NoArgs /\ frames = Begin(asked) \o Arguments(asked))
      BY <2>1, HeadIs DEF Header
    <3> QED
      BY <2>1, <3>1, <3>2 DEF Sending
  <2>3. frames' = <<>> /\ r = Seen(asked)
    BY <2>1, <2>2, HeadIs DEF Whole
  <2>4. called' /\ UNCHANGED <<asked, r, status>>
    BY <1>4 DEF HandleSubmit
  <2>5. answer' \in Seq(Answers)
    <3>1. ByteMod - 1 \in 0 .. IntMod - 1 /\ 0 \in 0 .. IntMod - 1
      BY CodecAssumption
    <3>2. \A err \in {0, ByteMod - 1} : Int32("result", err) \in Answers
      BY <3>1 DEF Answers, Results
    <3>3. ASSUME NEW len \in SlurpSizes
          PROVE  Int64("stat_size", len) \in Answers /\ String("recv_data", Text("file", len)) \in Answers
      <4>1. len \in Nat
        BY CodecAssumption
      <4> QED
        BY <4>1, TextOf DEF Answers
    <3>4. CASE \E err \in {0, ByteMod - 1} : answer' = <<Int32("result", err)>>
      BY <3>2, <3>4
    <3>5. CASE \E len \in SlurpSizes :
                 answer' = << Int64("stat_size", len), String("recv_data", Text("file", len)), Int32("result", 0) >>
      BY <3>2, <3>3, <3>5
    <3> QED
      BY <1>4, <3>4, <3>5 DEF HandleSubmit
  <2> QED
    BY <2>3, <2>4, <2>5 DEF Sending
<1>5. CASE HandleSize \/ HandleData \/ HandleResult
  <2>1. NextAnswer /\ UNCHANGED <<asked, frames, r, called>>
    BY <1>5 DEF HandleSize, HandleData, HandleResult
  <2>2. answer' \in Seq(Answers) /\ status' = "running"
    BY <2>1, AnswersPop DEF Sending
  <2> QED
    BY <2>1, <2>2 DEF Sending
<1>6. CASE Done \/ UNCHANGED vars
  <2>1. UNCHANGED <<asked, frames, r, status, called, answer>>
    BY <1>6 DEF Done, vars
  <2> QED
    BY <2>1 DEF Sending
<1> QED
  BY <1>2, <1>3, <1>4, <1>5, <1>6 DEF Next

----------------------------------------------------------------------------
(* The answer.                                                             *)

Answering ==
  \/ /\ ~called /\ answer = <<>> /\ result = -1 /\ data = <<>> /\ file = <<>>
  \/ /\ called /\ result = -1 /\ data = <<>>
     /\ file \in Strings /\ Len(file) <= MaxLen
     /\ \E n \in Nat, d \in Results :
          \/ answer = <<Int64("stat_size", n), String("recv_data", file), d>>
          \/ answer = <<String("recv_data", file), d>>
  \/ /\ called /\ result = -1 /\ data = file
     /\ \E d \in Results : answer = <<d>>
  \/ /\ called /\ answer = <<>> /\ data = file /\ result \in Nat

LEMMA AnswerFrames ==
  /\ \A n \in Nat : LET f == Int64("stat_size", n) IN f.type = "stat_size" /\ f.size = f.bytes
  /\ \A s \in Strings : Len(s) <= MaxLen =>
       LET f == String("recv_data", s) IN f.type = "recv_data" /\ f.size = f.bytes /\ GetData(f) = s
  /\ \A f \in Results : f.type = "result" /\ f.size = f.bytes /\ GetU64(f) \in Nat /\ ~Throws(f)
<1>1. \A n \in Nat : LET f == Int64("stat_size", n) IN f.type = "stat_size" /\ f.size = f.bytes
  BY IntIs
<1>2. \A s \in Strings : Len(s) <= MaxLen =>
        LET f == String("recv_data", s) IN f.type = "recv_data" /\ f.size = f.bytes /\ GetData(f) = s
  BY TextIs
<1>3. \A f \in Results : f.type = "result" /\ f.size = f.bytes /\ GetU64(f) \in Nat /\ ~Throws(f)
  <2>1. \A n \in 0 .. IntMod - 1 : n \in Nat
    BY CodecAssumption
  <2> QED
    BY <2>1, AnswersAre, IntIs DEF Results, Answers
<1> QED
  BY <1>1, <1>2, <1>3

LEMMA AnsweringKeeps ==
  ASSUME ShortFiles, Answering, [Next]_vars
  PROVE  Answering'
<1>1. CASE HandleSubmit
  <2>1. ~called /\ called' /\ answer = <<>> /\ UNCHANGED <<data, result>> /\ result = -1 /\ data = <<>> /\ file = <<>>
    BY <1>1 DEF HandleSubmit, NextFrame, Answering
  <2>2. ByteMod - 1 \in 0 .. IntMod - 1 /\ 0 \in 0 .. IntMod - 1 /\ 0 \in Nat
    BY CodecAssumption
  <2>3. CASE \E err \in {0, ByteMod - 1} : answer' = <<Int32("result", err)>> /\ UNCHANGED file
    BY <2>1, <2>2, <2>3 DEF Answering, Results
  <2>4. CASE \E len \in SlurpSizes :
               /\ file' = Text("file", len)
               /\ answer' = << Int64("stat_size", len), String("recv_data", Text("file", len)), Int32("result", 0) >>
    <3>1. PICK len \in SlurpSizes :
            /\ file' = Text("file", len)
            /\ answer' = << Int64("stat_size", len), String("recv_data", Text("file", len)), Int32("result", 0) >>
      BY <2>4
    <3>2. len \in Nat /\ len <= MaxLen
      BY CodecAssumption DEF ShortFiles
    <3>3. file' \in Strings /\ Len(file') <= MaxLen
      BY <3>1, <3>2, TextOf
    <3>4. Int32("result", 0) \in Results
      BY <2>2 DEF Results
    <3>5. answer' = << Int64("stat_size", len), String("recv_data", file'), Int32("result", 0) >>
      BY <3>1
    <3> QED
      BY <2>1, <3>2, <3>3, <3>4, <3>5 DEF Answering
  <2> QED
    BY <1>1, <2>3, <2>4 DEF HandleSubmit
<1>2. CASE HandleSize
  <2>1. /\ result = -1 /\ answer # <<>> /\ answer' = Tail(answer) /\ Head(answer).type = "stat_size"
        /\ UNCHANGED <<called, file, data, result>>
    BY <1>2 DEF HandleSize, NextAnswer
  <2>2. PICK n \in Nat, d \in Results : /\ answer = <<Int64("stat_size", n), String("recv_data", file), d>>
                                        /\ called /\ data = <<>> /\ file \in Strings /\ Len(file) <= MaxLen
    <3>1. ASSUME NEW d \in Results, answer = <<d>> PROVE FALSE
      BY <2>1, <3>1, AnswerFrames
    <3>2. ASSUME NEW d \in Results, answer = <<String("recv_data", file), d>>, file \in Strings, Len(file) <= MaxLen
          PROVE  FALSE
      BY <2>1, <3>2, AnswerFrames
    <3> QED
      BY <2>1, <3>1, <3>2 DEF Answering
  <2>3. answer' = <<String("recv_data", file), d>>
    BY <2>1, <2>2
  <2> QED
    BY <2>1, <2>2, <2>3 DEF Answering
<1>3. CASE HandleData
  <2>1. /\ result = -1 /\ answer # <<>> /\ answer' = Tail(answer) /\ Head(answer).type = "recv_data"
        /\ data' = data \o GetData(Head(answer))
        /\ UNCHANGED <<called, file, result>>
    BY <1>3 DEF HandleData, NextAnswer
  <2>2. PICK d \in Results : /\ answer = <<String("recv_data", file), d>>
                             /\ called /\ data = <<>> /\ file \in Strings /\ Len(file) <= MaxLen
    <3>1. ASSUME NEW d \in Results, answer = <<d>> PROVE FALSE
      BY <2>1, <3>1, AnswerFrames
    <3>2. ASSUME NEW n \in Nat, NEW d \in Results, answer = <<Int64("stat_size", n), String("recv_data", file), d>>
          PROVE  FALSE
      BY <2>1, <3>2, AnswerFrames
    <3> QED
      BY <2>1, <3>1, <3>2 DEF Answering
  <2>3. answer' = <<d>> /\ data' = <<>> \o file
    BY <2>1, <2>2, AnswerFrames
  <2>4. <<>> \o file = file
    BY <2>2, ConcatEmptySeq DEF Strings
  <2> QED
    BY <2>1, <2>2, <2>3, <2>4 DEF Answering
<1>4. CASE HandleResult
  <2>1. /\ result = -1 /\ answer # <<>> /\ answer' = Tail(answer) /\ Head(answer).type = "result"
        /\ result' = IF Throws(Head(answer)) THEN result ELSE GetU64(Head(answer))
        /\ UNCHANGED <<called, file, data>>
    BY <1>4 DEF HandleResult, NextAnswer
  <2>2. PICK d \in Results : answer = <<d>> /\ called /\ data = file
    <3>1. ASSUME NEW d \in Results, answer = <<String("recv_data", file), d>>, file \in Strings, Len(file) <= MaxLen
          PROVE  FALSE
      BY <2>1, <3>1, AnswerFrames
    <3>2. ASSUME NEW n \in Nat, NEW d \in Results, answer = <<Int64("stat_size", n), String("recv_data", file), d>>
          PROVE  FALSE
      BY <2>1, <3>2, AnswerFrames
    <3> QED
      BY <2>1, <3>1, <3>2 DEF Answering
  <2>3. answer' = <<>> /\ result' \in Nat
    BY <2>1, <2>2, AnswerFrames
  <2> QED
    BY <2>1, <2>2, <2>3 DEF Answering
<1>5. CASE HandleRequest \/ HandleArgument \/ Done \/ UNCHANGED vars
  <2>1. UNCHANGED <<called, answer, file, data, result>>
    BY <1>5 DEF HandleRequest, HandleArgument, Done, vars
  <2> QED
    BY <2>1 DEF Answering
<1> QED
  BY <1>1, <1>2, <1>3, <1>4, <1>5 DEF Next

LEMMA AnsweringStarts == Init => Answering
  BY DEF Init, Answering

----------------------------------------------------------------------------
(* The theorems.                                                           *)

\* Whatever form the numbers of a request take and however many frames its data
\* is cut into, the handler gets the request that was made, none of its frames is
\* refused and no number makes a side throw.  A link with an empty first path is
\* the exception: its handler sees the second path as the first.
THEOREM RequestsArrive == ASSUME ShortPaths PROVE Spec => []RequestArrives
<1>1. Sending => RequestArrives
  BY DEF Sending, RequestArrives
<1> QED
  BY SendingStarts, SendingKeeps, <1>1, PTL DEF Spec

\* A read that succeeds gives the client what the file holds.
THEOREM FilesArrive == ASSUME ShortFiles PROVE Spec => []FileArrives
<1>1. Answering => FileArrives
  BY DEF Answering, FileArrives
<1> QED
  BY AnsweringStarts, AnsweringKeeps, <1>1, PTL DEF Spec

\* No frame is longer than its length field can say.
THEOREM LengthsStored == ASSUME ShortPaths, ShortFiles PROVE Spec => []LengthStored
<1>1. Sending /\ Answering => LengthStored
  <2> SUFFICES ASSUME Sending, Answering
               PROVE  LengthStored
    OBVIOUS
  <2>1. \A k \in DOMAIN frames : frames[k].size = frames[k].bytes
    <3>1. frames \in Seq(Frames)
      BY HeadIs
    <3> QED
      BY <3>1, FrameIs
  <2>2. \A k \in DOMAIN answer : answer[k].size = answer[k].bytes
    <3>1. ASSUME NEW n \in Nat, NEW d \in Results, file \in Strings, Len(file) <= MaxLen,
                 answer \in {<<Int64("stat_size", n), String("recv_data", file), d>>, <<String("recv_data", file), d>>}
          PROVE  \A k \in DOMAIN answer : answer[k].size = answer[k].bytes
      BY <3>1, AnswerFrames
    <3>2. ASSUME NEW d \in Results, answer = <<d>>
          PROVE  \A k \in DOMAIN answer : answer[k].size = answer[k].bytes
      BY <3>2, AnswerFrames
    <3>3. answer = <<>> => \A k \in DOMAIN answer : answer[k].size = answer[k].bytes
      OBVIOUS
    <3> QED
      BY <3>1, <3>2, <3>3 DEF Answering
  <2> QED
    BY <2>1, <2>2 DEF LengthStored
<1> QED
  BY SendingStarts, SendingKeeps, AnsweringStarts, AnsweringKeeps, <1>1, PTL DEF Spec
=============================================================================
