------------------------------ MODULE TftpProofs ------------------------------
(***************************************************************************)
(* Proofs about Tftp, for blocks and block numbers of any size and any     *)
(* number of clients:                                                      *)
(* - neither end holds a damaged file, whatever the network does           *)
(*   (FilesCorrect, for files of one name);                                *)
(* - a write that is done is stored, whatever the network does             *)
(*   (WriteCorrect, for one transfer);                                     *)
(* - neither end stops as long as datagrams come in order and once         *)
(*   (ProtocolCorrect, for any number of transfers).                       *)
(***************************************************************************)
EXTENDS Tftp, SequenceTheorems, TLAPS

-------------------------------------------------------------------------------
(* Files and their blocks.                                                 *)

\* The lesser of two numbers.
LEMMA MinTwo == ASSUME NEW x \in Int, NEW y \in Int
                PROVE  Min({x, y}) = IF x <= y THEN x ELSE y
<1>1. \E z \in {x, y} : \A w \in {x, y} : z <= w
  <2>1. CASE x <= y
    BY <2>1
  <2>2. CASE y <= x
    BY <2>2
  <2> QED
    BY <2>1, <2>2
<1>2. Min({x, y}) \in {x, y} /\ \A w \in {x, y} : Min({x, y}) <= w
  BY <1>1 DEF Min
<1> QED
  BY <1>2

\* Multiples of the block size are ordered like their factors.
LEMMA Multiples == ASSUME NEW a \in Int, NEW b \in Int, a <= b
                   PROVE  a * BlockSize <= b * BlockSize
<1>1. (b - a) * BlockSize >= 0
  BY BlockSizeAssumption
<1>2. b * BlockSize = a * BlockSize + (b - a) * BlockSize
  BY BlockSizeAssumption
<1> QED
  BY <1>1, <1>2, BlockSizeAssumption

\* Bytes of the first j blocks of a file of n bytes.
Cut(j, n) == IF j * BlockSize <= n THEN j * BlockSize ELSE n

\* A file of a legal size has as many blocks as block_count says: each but the
\* last is full, and uint16_t does not wrap.
LEMMA CountFacts ==
    ASSUME NEW n \in Nat, legal_size(n)
    PROVE  /\ block_count(n) \in 1 .. UINT16_MAX
           /\ \A k \in Nat : k < block_count(n) <=> k * BlockSize <= n
<1>1. BlockSize \in Nat \ {0} /\ Uint16 \in Nat /\ Uint16 >= 3
  BY BlockSizeAssumption, Uint16Assumption
<1> DEFINE q == (n + BlockSize) \div BlockSize
<1>2. q \in Int /\ q * BlockSize <= n + BlockSize /\ n + BlockSize < (q + 1) * BlockSize
  BY <1>1
<1>3. (q + 1) * BlockSize = q * BlockSize + BlockSize
  BY <1>1, <1>2
<1> HIDE DEF q
<1>4. q >= 1
  <2>1. ASSUME q + 1 <= 1 PROVE FALSE
    <3>1. (q + 1) * BlockSize <= 1 * BlockSize
      BY <1>2, <2>1, Multiples
    <3> QED
      BY <1>1, <1>2, <3>1
  <2> QED
    BY <1>2, <2>1
<1>5. q <= Uint16 - 1
  <2>1. n <= BlockSize * (Uint16 - 2)
    BY <1>1 DEF legal_size, UINT16_MAX
  <2>2. BlockSize * (Uint16 - 2) = Uint16 * BlockSize - 2 * BlockSize
    BY <1>1
  <2>3. ASSUME Uint16 <= q PROVE FALSE
    <3>1. Uint16 * BlockSize <= q * BlockSize
      BY <1>1, <1>2, <2>3, Multiples
    <3> QED
      BY <1>1, <1>2, <2>1, <2>2, <3>1
  <2> QED
    BY <1>1, <1>2, <2>3
<1>6. block_count(n) = q
  BY <1>1, <1>2, <1>4, <1>5 DEF block_count, uint16_t, q
<1>7. ASSUME NEW k \in Nat PROVE k < q <=> k * BlockSize <= n
  <2>1. CASE k < q
    <3>1. (k + 1) * BlockSize <= q * BlockSize
      BY <1>2, <2>1, Multiples
    <3>2. (k + 1) * BlockSize = k * BlockSize + BlockSize
      BY <1>1
    <3> QED
      BY <1>1, <1>2, <2>1, <3>1, <3>2
  <2>2. CASE q <= k
    <3>1. q * BlockSize <= k * BlockSize
      BY <1>2, <2>2, Multiples
    <3> QED
      BY <1>1, <1>2, <1>3, <2>2, <3>1
  <2> QED
    BY <1>2, <2>1, <2>2
<1>8. q \in 1 .. UINT16_MAX
  BY <1>1, <1>2, <1>4, <1>5 DEF UINT16_MAX
<1> QED
  BY <1>6, <1>7, <1>8

\* Where a block begins and ends.
LEMMA BlockSpan ==
    ASSUME NEW d, NEW k \in Nat
    PROVE  BlockOf(d, k + 1) = SubSeq(d, k * BlockSize + 1, Min({(k + 1) * BlockSize, Len(d)}))
<1>1. (k + 1) - 1 = k
  OBVIOUS
<1> QED
  BY <1>1, Zenon DEF BlockOf

\* A block that begins within the file: its length, and what it adds to those
\* before it.
LEMMA BlockFacts ==
    ASSUME NEW S, NEW d \in Seq(S), NEW k \in Nat, k * BlockSize <= Len(d)
    PROVE  /\ BlockOf(d, k + 1) \in Seq(S)
           /\ Len(BlockOf(d, k + 1)) = IF (k + 1) * BlockSize <= Len(d) THEN BlockSize
                                       ELSE Len(d) - k * BlockSize
           /\ SubSeq(d, 1, k * BlockSize) \o BlockOf(d, k + 1) = SubSeq(d, 1, Cut(k + 1, Len(d)))
<1>1. BlockSize \in Nat \ {0} /\ Len(d) \in Nat
  BY BlockSizeAssumption
<1> DEFINE a == k * BlockSize
           b == Cut(k + 1, Len(d))
<1>2. a \in Nat /\ (k + 1) * BlockSize = a + BlockSize
  BY <1>1
<1>3. BlockOf(d, k + 1) = SubSeq(d, a + 1, b)
  <2>1. Min({(k + 1) * BlockSize, Len(d)}) = b
    BY <1>1, <1>2, MinTwo DEF Cut
  <2> QED
    BY <2>1, BlockSpan
<1>4. b = IF a + BlockSize <= Len(d) THEN a + BlockSize ELSE Len(d)
  BY <1>2 DEF Cut
<1> HIDE DEF a, b
<1>5. a <= b /\ b <= Len(d) /\ b \in Nat
  BY <1>1, <1>2, <1>4 DEF a
<1>6. SubSeq(d, a + 1, b) \in Seq(S) /\ Len(SubSeq(d, a + 1, b)) = b - a
  <2>1. \A i \in (a + 1) .. b : d[i] \in S
    BY <1>1, <1>2, <1>5
  <2> QED
    BY <1>2, <1>5, <2>1, SubSeqProperties
<1>7. SubSeq(d, 1, a) \o SubSeq(d, a + 1, b) = SubSeq(d, 1, b)
  BY <1>1, <1>2, <1>5, ConcatAdjacentSubSeq
<1>8. Len(BlockOf(d, k + 1)) = IF (k + 1) * BlockSize <= Len(d) THEN BlockSize ELSE Len(d) - a
  BY <1>1, <1>2, <1>3, <1>4, <1>6
<1> QED
  BY <1>3, <1>6, <1>7, <1>8 DEF a, b

\* The first elements of a sequence are a prefix of it.
LEMMA PrefixOf ==
    ASSUME NEW S, NEW d \in Seq(S), NEW j \in 0 .. Len(d)
    PROVE  IsPrefix(SubSeq(d, 1, j), d)
<1>1. SubSeq(d, 1, j) \in Seq(S) /\ Len(SubSeq(d, 1, j)) = j
  OBVIOUS
<1>2. SubSeq(SubSeq(d, 1, j), 1, j) = SubSeq(d, 1, j)
  BY <1>1, SubSeqFull
<1> QED
  BY <1>1, <1>2 DEF IsPrefix

\* An element of a sequence, and those that are left without it.
LEMMA Removed ==
    ASSUME NEW S, NEW s \in Seq(S), NEW i \in DOMAIN s
    PROVE  RemoveAt(s, i) \in Seq(S) /\ s[i] \in S
<1>1. i \in 1 .. Len(s) /\ \A j \in 1 .. Len(s) : s[j] \in S
  OBVIOUS
<1>2. SubSeq(s, 1, i - 1) \in Seq(S) /\ SubSeq(s, i + 1, Len(s)) \in Seq(S)
  <2>1. (\A j \in 1 .. (i - 1) : s[j] \in S) /\ \A j \in (i + 1) .. Len(s) : s[j] \in S
    BY <1>1
  <2> QED
    BY <1>1, <2>1, SubSeqProperties
<1> QED
  BY <1>1, <1>2, ConcatProperties DEF RemoveAt

(***************************************************************************)
(* The invariant: what each end has of a file, and what is on its way, are *)
(* whole blocks of that file.                                              *)
(***************************************************************************)

\* All transfers are of files of one name.  Transfers share a local port, so
\* with two names a late block of one could be taken for the other's.
OneName == \A f, g \in Files : f = g

Bytes == (Clients \cup {"server"}) \X Files \X Nat

Transfers ==
    [op : {"idle", "read", "write"}, file : Files \cup {NoFile}, data : Seq(Bytes),
     last : 0 .. UINT16_MAX, done : BOOLEAN]

Sessions == [read : BOOLEAN, file : Files, data : Seq(Bytes)]

\* The datagrams of a file, and of all that may be on its way.
Blocks(d) == {Data(n, BlockOf(d, n)) : n \in 1 .. block_count(Len(d))}

Acks == {Ack(n) : n \in 0 .. UINT16_MAX}

Requests(c) ==
    {Rrq(f) : f \in Files} \cup {Wrq(f) : f \in Files} \cup Acks
      \cup UNION {Blocks(Content(c, p[1], p[2])) : p \in Files \X WriteSizes}

Existing == {f \in Files : files[f] # NoFile}

Replies == {Error} \cup Acks \cup UNION {Blocks(files[f]) : f \in Existing}

\* A file that the server had or a client has written.
IsFile(d, f) ==
    \/ \E n \in FileSizes : d = Content("server", f, n)
    \/ \E c \in Clients, n \in WriteSizes : d = Content(c, f, n)

\* Its first j blocks.
Received(d, j) == SubSeq(d, 1, Cut(j, Len(d)))

FilesTyped == files \in [Files -> {NoFile} \cup Seq(Bytes)]

\* A reader has the blocks it has acknowledged, a writer what it was given.
Reading(c) ==
    \/ client[c].last = 0 /\ client[c].data = <<>> /\ ~client[c].done
    \/ LET d == files[client[c].file] IN
       /\ client[c].file \in Existing
       /\ client[c].last \in 1 .. block_count(Len(d))
       /\ client[c].data = Received(d, client[c].last)
       /\ client[c].done <=> client[c].last = block_count(Len(d))

Writing(c) == \E n \in WriteSizes : client[c].data = Content(c, client[c].file, n)

ClientSound(c) ==
    /\ client[c] \in Transfers
    /\ client[c].op # "idle" => client[c].file \in Files
    /\ client[c].op = "read" => Reading(c)
    /\ client[c].op = "write" => Writing(c)

\* The server serves a file as it is, and collects full blocks of one writer.
Serving(c) == session[c].file \in Existing /\ session[c].data = files[session[c].file]

Collecting(c) ==
    \E k \in Nat : /\ session[c].data = Content(c, session[c].file, k * BlockSize)
                   /\ (k = 0 \/ \E n \in WriteSizes : k * BlockSize <= n)

SessionSound(c) ==
    session[c] # NoSession =>
      /\ session[c] \in Sessions
      /\ session[c].read => Serving(c)
      /\ ~session[c].read => Collecting(c)

DatagramsSound ==
    /\ DOMAIN toServer = Clients /\ DOMAIN toClient = Clients
    /\ \A c \in Clients : toServer[c] \in Seq(Requests(c)) /\ toClient[c] \in Seq(Replies)

Ends == failed \in [Clients -> Failures] /\ serverDown \in ServerFailures

IInv ==
    /\ DOMAIN client = Clients /\ \A c \in Clients : ClientSound(c)
    /\ DOMAIN session = Clients /\ \A c \in Clients : SessionSound(c)
    /\ FilesTyped /\ FilesWhole
    /\ DatagramsSound /\ Ends

\* The bytes of a file, and of its beginnings.
LEMMA ContentFacts ==
    ASSUME NEW maker \in Clients \cup {"server"}, NEW f \in Files, NEW n \in Nat
    PROVE  /\ Content(maker, f, n) \in Seq(Bytes)
           /\ Len(Content(maker, f, n)) = n
           /\ \A j \in 0 .. n : SubSeq(Content(maker, f, n), 1, j) = Content(maker, f, j)
<1>1. ASSUME NEW j \in Nat PROVE Content(maker, f, j) \in Seq(Bytes) /\ Len(Content(maker, f, j)) = j
  <2>1. \A i \in 1 .. j : <<maker, f, i>> \in Bytes
    BY DEF Bytes
  <2> QED
    BY <2>1 DEF Content
<1>2. ASSUME NEW j \in 0 .. n PROVE SubSeq(Content(maker, f, n), 1, j) = Content(maker, f, j)
  <2>1. Content(maker, f, j) \in Seq(Bytes) /\ Len(Content(maker, f, j)) = j
    BY <1>1
  <2>2. \A i \in 1 .. j : Content(maker, f, j)[i] = Content(maker, f, n)[i]
    BY DEF Content
  <2>3. /\ SubSeq(Content(maker, f, n), 1, j) \in Seq(Bytes)
        /\ Len(SubSeq(Content(maker, f, n), 1, j)) = j
        /\ \A i \in 1 .. j : SubSeq(Content(maker, f, n), 1, j)[i] = Content(maker, f, n)[i]
    BY <1>1
  <2> QED
    BY <2>1, <2>2, <2>3, SeqEqual
<1> QED
  BY <1>1, <1>2

\* A file is not too long for its blocks to be numbered.
LEMMA FileFacts ==
    ASSUME NEW d, NEW f \in Files, IsFile(d, f)
    PROVE  d \in Seq(Bytes) /\ Len(d) \in Nat /\ legal_size(Len(d))
<1>1. PICK maker \in Clients \cup {"server"}, n \in FileSizes \cup WriteSizes : d = Content(maker, f, n)
  BY DEF IsFile
<1>2. n \in Nat /\ legal_size(n)
  BY FaultAssumption
<1> QED
  BY <1>1, <1>2, ContentFacts

\* The files of the server are such files.
LEMMA ExistingFacts ==
    ASSUME IInv, NEW f \in Existing
    PROVE  f \in Files /\ files[f] \in Seq(Bytes) /\ Len(files[f]) \in Nat /\ legal_size(Len(files[f]))
<1>1. f \in Files /\ IsFile(files[f], f)
  BY DEF IInv, Existing, FilesWhole, IsFile
<1> QED
  BY <1>1, FileFacts

\* What a datagram for the server may say.
LEMMA RequestKinds ==
    ASSUME NEW c \in Clients, NEW m \in Requests(c)
    PROVE  /\ m.op \in {"rrq", "wrq", "ack", "data"}
           /\ m.op \in {"rrq", "wrq"} => m.file \in Files
           /\ m.op = "ack" => m.block \in 0 .. UINT16_MAX
           /\ m.op = "data" => \E f \in Files, n \in WriteSizes, k \in Nat :
                /\ k * BlockSize <= n
                /\ m.block = k + 1 /\ m.bytes = BlockOf(Content(c, f, n), k + 1)
<1>1. CASE \E f \in Files : m = Rrq(f) \/ m = Wrq(f)
  BY <1>1 DEF Rrq, Wrq
<1>2. CASE m \in Acks
  BY <1>2 DEF Acks, Ack
<1>3. ASSUME NEW f \in Files, NEW n \in WriteSizes, m \in Blocks(Content(c, f, n))
      PROVE  /\ m.op = "data"
             /\ \E k \in Nat : /\ k * BlockSize <= n
                               /\ m.block = k + 1 /\ m.bytes = BlockOf(Content(c, f, n), k + 1)
  <2>1. n \in Nat /\ legal_size(n)
    BY FaultAssumption
  <2>2. Len(Content(c, f, n)) = n
    BY <2>1 DEF Content
  <2>3. PICK b \in 1 .. block_count(n) : m = Data(b, BlockOf(Content(c, f, n), b))
    BY <1>3, <2>2 DEF Blocks
  <2>4. block_count(n) \in 1 .. UINT16_MAX /\ \A k \in Nat : k < block_count(n) <=> k * BlockSize <= n
    BY <2>1, CountFacts
  <2>5. /\ m.op = "data" /\ m.block = b /\ m.bytes = BlockOf(Content(c, f, n), b)
    BY <2>3 DEF Data
  <2>6. b - 1 \in Nat /\ b = (b - 1) + 1 /\ (b - 1) * BlockSize <= n
    BY <2>3, <2>4
  <2> QED
    BY <2>5, <2>6
<1>4. CASE m \in UNION {Blocks(Content(c, p[1], p[2])) : p \in Files \X WriteSizes}
  <2>1. PICK p \in Files \X WriteSizes : m \in Blocks(Content(c, p[1], p[2]))
    BY <1>4
  <2>2. p[1] \in Files /\ p[2] \in WriteSizes
    OBVIOUS
  <2> QED
    BY <2>1, <2>2, <1>3
<1> QED
  BY <1>1, <1>2, <1>4 DEF Requests

\* What a datagram for a client may say.
LEMMA ReplyKinds ==
    ASSUME IInv, NEW m \in Replies
    PROVE  /\ m.op \in {"error", "ack", "data"}
           /\ m.op = "ack" => m.block \in 0 .. UINT16_MAX
           /\ m.op = "data" => \E f \in Existing, k \in Nat :
                /\ k * BlockSize <= Len(files[f]) /\ k < block_count(Len(files[f]))
                /\ m.block = k + 1 /\ m.bytes = BlockOf(files[f], k + 1)
<1>1. CASE m = Error
  BY <1>1 DEF Error
<1>2. CASE m \in Acks
  BY <1>2 DEF Acks, Ack
<1>3. CASE m \in UNION {Blocks(files[f]) : f \in Existing}
  <2>1. PICK f \in Existing : m \in Blocks(files[f])
    BY <1>3
  <2>2. PICK b \in 1 .. block_count(Len(files[f])) : m = Data(b, BlockOf(files[f], b))
    BY <2>1 DEF Blocks
  <2>3. /\ block_count(Len(files[f])) \in 1 .. UINT16_MAX
        /\ \A k \in Nat : k < block_count(Len(files[f])) <=> k * BlockSize <= Len(files[f])
    BY ExistingFacts, CountFacts
  <2>4. m.op = "data" /\ m.block = b /\ m.bytes = BlockOf(files[f], b)
    BY <2>2 DEF Data
  <2>5. /\ b - 1 \in Nat /\ b = (b - 1) + 1
        /\ (b - 1) * BlockSize <= Len(files[f]) /\ (b - 1) < block_count(Len(files[f]))
    BY <2>2, <2>3
  <2> QED
    BY <2>4, <2>5
<1> QED
  BY <1>1, <1>2, <1>3 DEF Replies

\* The number of the block that the server expects after k full ones.
LEMMA ExpectedNext ==
    ASSUME NEW c \in Clients, NEW f \in Files, NEW k \in Nat, k < UINT16_MAX
    PROVE  Expected(Content(c, f, k * BlockSize)) = k + 1
<1>1. BlockSize \in Nat \ {0} /\ Uint16 \in Nat /\ Uint16 >= 3
  BY BlockSizeAssumption, Uint16Assumption
<1>2. k * BlockSize \in Nat /\ (k * BlockSize) \div BlockSize = k
  BY <1>1
<1>3. Len(Content(c, f, k * BlockSize)) = k * BlockSize
  BY <1>2, ContentFacts
<1>4. (1 + k) % Uint16 = k + 1
  BY <1>1 DEF UINT16_MAX
<1> QED
  BY <1>2, <1>3, <1>4 DEF Expected, uint16_t

\* What a block adds to the full ones before it: the last block of a file is
\* shorter, and completes it.
LEMMA Appended ==
    ASSUME NEW c \in Clients, NEW f \in Files, NEW n \in WriteSizes, NEW k \in Nat,
           k * BlockSize <= n
    PROVE  LET bytes == BlockOf(Content(c, f, n), k + 1)
               data  == Content(c, f, k * BlockSize) \o bytes
           IN  /\ k < block_count(n) /\ block_count(n) \in 1 .. UINT16_MAX
               /\ data \in Seq(Bytes) /\ bytes \in Seq(Bytes)
               /\ IF k + 1 < block_count(n)
                  THEN /\ Len(bytes) = BlockSize /\ (k + 1) * BlockSize <= n
                       /\ data = Content(c, f, (k + 1) * BlockSize)
                  ELSE /\ Len(bytes) < BlockSize /\ k + 1 = block_count(n)
                       /\ data = Content(c, f, n)
<1> DEFINE d == Content(c, f, n)
           bytes == BlockOf(d, k + 1)
           data == Content(c, f, k * BlockSize) \o bytes
<1>1. BlockSize \in Nat \ {0} /\ Uint16 \in Nat /\ Uint16 >= 3
  BY BlockSizeAssumption, Uint16Assumption
<1>2. n \in Nat /\ legal_size(n)
  BY FaultAssumption
<1>3. block_count(n) \in 1 .. UINT16_MAX /\ \A j \in Nat : j < block_count(n) <=> j * BlockSize <= n
  BY <1>2, CountFacts
<1>4. d \in Seq(Bytes) /\ Len(d) = n
  BY <1>2, ContentFacts
<1>5. Content(c, f, k * BlockSize) = SubSeq(d, 1, k * BlockSize)
  <2>1. k * BlockSize \in 0 .. n
    BY <1>1, <1>2
  <2> QED
    BY <1>2, <2>1, ContentFacts
<1> HIDE DEF d
<1>6. /\ bytes \in Seq(Bytes)
      /\ Len(bytes) = IF (k + 1) * BlockSize <= n THEN BlockSize ELSE n - k * BlockSize
      /\ data = SubSeq(d, 1, Cut(k + 1, n))
  BY <1>4, <1>5, BlockFacts
<1> HIDE DEF bytes, data
<1>7. Cut(k + 1, n) \in 0 .. n
  BY <1>1, <1>2 DEF Cut
<1>8. data = Content(c, f, Cut(k + 1, n))
  BY <1>2, <1>6, <1>7, ContentFacts DEF d
<1>9. data \in Seq(Bytes)
  BY <1>7, <1>8, ContentFacts
<1>10. (k + 1) * BlockSize = k * BlockSize + BlockSize /\ k * BlockSize \in Nat
  BY <1>1
<1>11. k < block_count(n) /\ (k + 1 < block_count(n) <=> (k + 1) * BlockSize <= n)
  BY <1>3
<1>12. CASE k + 1 < block_count(n)
  BY <1>3, <1>6, <1>8, <1>9, <1>11, <1>12 DEF Cut, bytes, data, d
<1>13. CASE ~(k + 1 < block_count(n))
  <2>1. k + 1 = block_count(n)
    BY <1>3, <1>11, <1>13, <1>1 DEF UINT16_MAX
  <2>2. Len(bytes) < BlockSize
    BY <1>1, <1>2, <1>6, <1>10, <1>11, <1>13
  <2>3. data = Content(c, f, n)
    BY <1>8, <1>11, <1>13 DEF Cut
  <2> QED
    BY <1>3, <1>6, <1>9, <1>11, <1>13, <2>1, <2>2, <2>3 DEF bytes, data, d
<1> QED
  BY <1>12, <1>13

\* What the server has when the block that it expects has come.
LEMMA Collected ==
    ASSUME IInv, OneName, NEW c \in Clients, NEW m \in Requests(c), m.op = "data",
           session[c] # NoSession, ~session[c].read, IsExpected(session[c].data, m.block)
    PROVE  LET data == session[c].data \o m.bytes
           IN  /\ data \in Seq(Bytes)
               /\ Expected(session[c].data) \in 0 .. UINT16_MAX
               /\ \/ /\ Len(m.bytes) < BlockSize
                     /\ \E n \in WriteSizes : data = Content(c, session[c].file, n)
                  \/ /\ ~(Len(m.bytes) < BlockSize)
                     /\ \E k \in Nat : /\ data = Content(c, session[c].file, k * BlockSize)
                                       /\ \E n \in WriteSizes : k * BlockSize <= n
<1> DEFINE f == session[c].file
<1>1. f \in Files
  BY DEF IInv, SessionSound, Sessions
<1>2. PICK k \in Nat : /\ session[c].data = Content(c, f, k * BlockSize)
                       /\ k = 0 \/ \E n \in WriteSizes : k * BlockSize <= n
  BY DEF IInv, SessionSound, Collecting
<1>3. PICK n \in WriteSizes, j \in Nat : /\ j * BlockSize <= n /\ m.block = j + 1
                                         /\ m.bytes = BlockOf(Content(c, f, n), j + 1)
  <2>1. \E g \in Files, n \in WriteSizes, j \in Nat :
          /\ j * BlockSize <= n
          /\ m.block = j + 1 /\ m.bytes = BlockOf(Content(c, g, n), j + 1)
    BY RequestKinds
  <2> QED
    BY <1>1, <2>1 DEF OneName
<1> HIDE DEF f
<1>4. Uint16 \in Nat /\ Uint16 >= 3 /\ BlockSize \in Nat \ {0}
  BY BlockSizeAssumption, Uint16Assumption
<1>5. k < UINT16_MAX
  <2>1. ASSUME NEW x \in WriteSizes, k * BlockSize <= x PROVE k < UINT16_MAX
    <3>1. k < block_count(x) /\ block_count(x) \in 1 .. UINT16_MAX
      BY <1>1, <2>1, Appended
    <3> QED
      BY <1>4, <3>1 DEF UINT16_MAX
  <2> QED
    BY <1>2, <1>4, <2>1 DEF UINT16_MAX
<1>6. Expected(session[c].data) = k + 1 /\ k + 1 \in 0 .. UINT16_MAX
  BY <1>1, <1>2, <1>4, <1>5, ExpectedNext DEF UINT16_MAX
<1>7. j = k
  <2>1. m.block = Expected(session[c].data)
    BY DEF IsExpected
  <2> QED
    BY <1>3, <1>6, <2>1
<1> DEFINE data == session[c].data \o m.bytes
<1>8. /\ data \in Seq(Bytes)
      /\ IF k + 1 < block_count(n)
         THEN /\ Len(m.bytes) = BlockSize /\ (k + 1) * BlockSize <= n
              /\ data = Content(c, f, (k + 1) * BlockSize)
         ELSE /\ Len(m.bytes) < BlockSize /\ k + 1 = block_count(n)
              /\ data = Content(c, f, n)
  <2>1. m.bytes = BlockOf(Content(c, f, n), k + 1) /\ k * BlockSize <= n
    BY <1>3, <1>7
  <2>2. data = Content(c, f, k * BlockSize) \o BlockOf(Content(c, f, n), k + 1)
    BY <1>2, <2>1
  <2> QED
    BY <1>1, <2>1, <2>2, Appended, Zenon
<1> HIDE DEF data
<1>9. CASE k + 1 < block_count(n)
  <2>1. k + 1 \in Nat /\ ~(Len(m.bytes) < BlockSize)
    BY <1>4, <1>8, <1>9
  <2> QED
    BY <1>6, <1>8, <1>9, <2>1 DEF data, f
<1>10. CASE ~(k + 1 < block_count(n))
  BY <1>6, <1>8, <1>10 DEF data, f
<1> QED
  BY <1>9, <1>10

\* A datagram that is taken, and those that are left.
LEMMA Taken ==
    ASSUME IInv, NEW c \in Clients
    PROVE  /\ \A i \in Deliverable(toServer[c]) \cup DOMAIN toServer[c] :
                /\ toServer[c][i] \in Requests(c)
                /\ RemoveAt(toServer[c], i) \in Seq(Requests(c))
           /\ \A i \in Deliverable(toClient[c]) \cup DOMAIN toClient[c] :
                /\ toClient[c][i] \in Replies
                /\ RemoveAt(toClient[c], i) \in Seq(Replies)
<1>1. toServer[c] \in Seq(Requests(c)) /\ toClient[c] \in Seq(Replies)
  BY DEF IInv, DatagramsSound
<1>2. /\ Deliverable(toServer[c]) \subseteq DOMAIN toServer[c]
      /\ Deliverable(toClient[c]) \subseteq DOMAIN toClient[c]
  BY DEF Deliverable
<1> QED
  BY <1>1, <1>2, Removed

(***************************************************************************)
(* Files only appear.                                                      *)
(***************************************************************************)

Grown == \A f \in Existing : f \in Existing' /\ files'[f] = files[f]

\* A block that the server takes, step by step.
LEMMA DataStep ==
    ASSUME IInv, OneName, NEW c \in Clients, NEW m \in Requests(c), m.op = "data", OnData(c, m)
    PROVE  /\ FilesTyped' /\ FilesWhole' /\ Grown
           /\ DOMAIN session' = Clients
           /\ \A x \in Clients \ {c} : session'[x] = session[x]
           /\ session'[c] = NoSession \/ session'[c] = session[c]
              \/ /\ session'[c] \in Sessions /\ ~session'[c].read
                 /\ \E k \in Nat :
                      /\ session'[c].data = Content(c, session'[c].file, k * BlockSize)
                      /\ \E n \in WriteSizes : k * BlockSize <= n
           /\ serverDown' \in ServerFailures
           /\ toClient' = toClient \/ \E a \in Acks : toClient' = [toClient EXCEPT ![c] = Append(@, a)]
<1>1. DOMAIN session = Clients /\ FilesTyped /\ FilesWhole /\ serverDown \in ServerFailures
  BY DEF IInv, Ends
<1>2. UNCHANGED files => FilesTyped' /\ FilesWhole' /\ Grown
  BY <1>1 DEF FilesTyped, FilesWhole, Grown, Existing
<1>3. CASE \E why \in {"no session", "not a write", "block order"} : ServerFails(why)
  BY <1>1, <1>2, <1>3 DEF ServerFails, ServerFailures
<1>4. CASE /\ session[c] # NoSession /\ ~session[c].read /\ IsExpected(session[c].data, m.block)
           /\ ~\E why \in {"no session", "not a write", "block order"} : ServerFails(why)
  <2> DEFINE data == session[c].data \o m.bytes
             f == session[c].file
  <2>1. /\ data \in Seq(Bytes)
        /\ Expected(session[c].data) \in 0 .. UINT16_MAX
        /\ \/ /\ Len(m.bytes) < BlockSize
              /\ \E n \in WriteSizes : data = Content(c, f, n)
           \/ /\ ~(Len(m.bytes) < BlockSize)
              /\ \E k \in Nat : /\ data = Content(c, f, k * BlockSize)
                                /\ \E n \in WriteSizes : k * BlockSize <= n
    BY <1>4, Collected
  <2>2. session[c] \in Sessions /\ f \in Files
    BY <1>4 DEF IInv, SessionSound, Sessions
  <2>3. /\ ServerReplies(c, Ack(Expected(session[c].data)))
        /\ IF Len(m.bytes) < BlockSize
           THEN /\ files' = IF files[f] = NoFile THEN [files EXCEPT ![f] = data] ELSE files
                /\ session' = [session EXCEPT ![c] = NoSession]
           ELSE /\ session' = [session EXCEPT ![c].data = data]
                /\ UNCHANGED files
        /\ UNCHANGED serverDown
    BY <1>4 DEF OnData
  <2> HIDE DEF data, f
  <2>4. \E a \in Acks : toClient' = [toClient EXCEPT ![c] = Append(@, a)]
    BY <2>1, <2>3 DEF ServerReplies, Acks
  <2>5. CASE Len(m.bytes) < BlockSize
    <3>1. session' = [session EXCEPT ![c] = NoSession]
      BY <2>3, <2>5
    <3>2. CASE files[f] = NoFile
      <4>1. files' = [files EXCEPT ![f] = data]
        BY <2>3, <2>5, <3>2
      <4>2. FilesTyped'
        BY <1>1, <2>1, <4>1 DEF FilesTyped
      <4>3. files'[f] = data /\ \A g \in Files \ {f} : files'[g] = files[g]
        BY <1>1, <2>2, <4>1 DEF FilesTyped
      <4>4. \E n \in WriteSizes : data = Content(c, f, n)
        BY <2>1, <2>5
      <4>5. FilesWhole'
        BY <1>1, <4>3, <4>4 DEF FilesWhole
      <4>6. Grown
        BY <3>2, <4>3 DEF Grown, Existing
      <4> QED
        BY <1>1, <2>3, <2>4, <3>1, <4>2, <4>5, <4>6
    <3>3. CASE files[f] # NoFile
      BY <1>1, <1>2, <2>3, <2>4, <2>5, <3>1, <3>3
    <3> QED
      BY <3>2, <3>3
  <2>6. CASE ~(Len(m.bytes) < BlockSize)
    <3>1. session' = [session EXCEPT ![c].data = data] /\ UNCHANGED files
      BY <2>3, <2>6
    <3>2. session'[c] = [session[c] EXCEPT !.data = data]
      BY <1>1, <3>1
    <3>3. session'[c] \in Sessions /\ session'[c].read = session[c].read
          /\ session'[c].file = f /\ session'[c].data = data
      BY <2>1, <2>2, <3>2 DEF Sessions, f
    <3>4. \E k \in Nat : /\ data = Content(c, f, k * BlockSize)
                         /\ \E n \in WriteSizes : k * BlockSize <= n
      BY <2>1, <2>6
    <3> QED
      BY <1>1, <1>2, <1>4, <2>3, <2>4, <3>1, <3>3, <3>4
  <2> QED
    BY <2>5, <2>6
<1> QED
  BY <1>3, <1>4 DEF OnData

\* What may be on its way to a client stays so.
LEMMA RepliesGrow == ASSUME Grown PROVE Replies \subseteq Replies'
<1>1. \A f \in Existing : f \in Existing' /\ Blocks(files[f]) = Blocks(files'[f])
  BY DEF Grown
<1>2. UNION {Blocks(files[f]) : f \in Existing} \subseteq UNION {Blocks(files'[f]) : f \in Existing'}
  BY <1>1
<1> QED
  BY <1>2 DEF Replies

\* A new state of a session.
Renewed(c) ==
    /\ session'[c] \in Sessions
    /\ session'[c].read => session'[c].file \in Existing /\ session'[c].data = files[session'[c].file]
    /\ ~session'[c].read =>
         \E k \in Nat : /\ session'[c].data = Content(c, session'[c].file, k * BlockSize)
                        /\ (k = 0 \/ \E n \in WriteSizes : k * BlockSize <= n)

\* What the server does with a datagram other than a block.
LEMMA RequestStep ==
    ASSUME IInv, NEW c \in Clients, NEW m \in Requests(c),
           \/ m.op = "rrq" /\ OnRrq(c, m.file)
           \/ m.op = "wrq" /\ OnWrq(c, m.file)
           \/ m.op = "ack" /\ OnAck(c, m.block)
    PROVE  /\ UNCHANGED files /\ serverDown' \in ServerFailures
           /\ DOMAIN session' = Clients
           /\ \A x \in Clients \ {c} : session'[x] = session[x]
           /\ session'[c] = NoSession \/ session'[c] = session[c] \/ Renewed(c)
           /\ toClient' = toClient \/ \E r \in Replies : toClient' = [toClient EXCEPT ![c] = Append(@, r)]
<1>1. DOMAIN session = Clients /\ serverDown \in ServerFailures
  BY DEF IInv, Ends
<1>2. Error \in Replies /\ Ack(0) \in Replies
  BY Uint16Assumption DEF Replies, Acks, UINT16_MAX
<1>3. ASSUME NEW f \in Existing, NEW n \in 1 .. block_count(Len(files[f]))
      PROVE  Data(n, BlockOf(files[f], n)) \in Replies
  BY DEF Replies, Blocks
<1>4. CASE m.op = "rrq" /\ OnRrq(c, m.file)
  <2>1. m.file \in Files
    BY <1>4, RequestKinds
  <2>2. CASE files[m.file] = NoFile
    BY <1>1, <1>2, <1>4, <2>2 DEF OnRrq, ServerReplies
  <2>3. CASE files[m.file] # NoFile
    <3>1. m.file \in Existing
      BY <2>1, <2>3 DEF Existing
    <3>2. /\ session' = [session EXCEPT ![c] = [read |-> TRUE, file |-> m.file, data |-> files[m.file]]]
          /\ toClient' = [toClient EXCEPT ![c] = Append(@, Data(1, BlockOf(files[m.file], 1)))]
          /\ UNCHANGED <<files, serverDown>>
      BY <1>4, <2>3 DEF OnRrq, ServerReplies
    <3>3. files[m.file] \in Seq(Bytes) /\ block_count(Len(files[m.file])) \in 1 .. UINT16_MAX
      BY <3>1, ExistingFacts, CountFacts
    <3>4. Data(1, BlockOf(files[m.file], 1)) \in Replies
      BY <1>3, <3>1, <3>3
    <3>5. session'[c] = [read |-> TRUE, file |-> m.file, data |-> files[m.file]]
      BY <1>1, <3>2
    <3>6. Renewed(c)
      BY <2>1, <3>1, <3>3, <3>5 DEF Renewed, Sessions
    <3> QED
      BY <1>1, <3>2, <3>4, <3>6
  <2> QED
    BY <2>2, <2>3
<1>5. CASE m.op = "wrq" /\ OnWrq(c, m.file)
  <2>1. m.file \in Files
    BY <1>5, RequestKinds
  <2>2. CASE files[m.file] # NoFile
    BY <1>1, <1>2, <1>5, <2>2 DEF OnWrq, ServerReplies
  <2>3. CASE files[m.file] = NoFile
    <3>1. /\ session' = [session EXCEPT ![c] = [read |-> FALSE, file |-> m.file, data |-> <<>>]]
          /\ toClient' = [toClient EXCEPT ![c] = Append(@, Ack(0))]
          /\ UNCHANGED <<files, serverDown>>
      BY <1>5, <2>3 DEF OnWrq, ServerReplies
    <3>2. session'[c] = [read |-> FALSE, file |-> m.file, data |-> <<>>]
      BY <1>1, <3>1
    <3>3. Content(c, m.file, 0) = <<>> /\ 0 * BlockSize = 0
      BY BlockSizeAssumption DEF Content
    <3>4. Renewed(c)
      BY <2>1, <3>2, <3>3 DEF Renewed, Sessions
    <3> QED
      BY <1>1, <1>2, <3>1, <3>4
  <2> QED
    BY <2>2, <2>3
<1>6. CASE m.op = "ack" /\ OnAck(c, m.block)
  <2> DEFINE n == m.block
  <2>1. CASE \E why \in {"no session", "ack range", "not a read"} : ServerFails(why)
    BY <1>1, <2>1 DEF ServerFails, ServerFailures
  <2>2. CASE session' = [session EXCEPT ![c] = NoSession] /\ UNCHANGED <<files, serverDown, toClient>>
    BY <1>1, <2>2
  <2>3. CASE /\ session[c] # NoSession /\ n \in 1 .. SessionCount(c) - 1 /\ session[c].read
             /\ ServerReplies(c, Data(n + 1, BlockOf(session[c].data, n + 1)))
             /\ UNCHANGED <<session, files, serverDown>>
    <3>1. session[c].file \in Existing /\ session[c].data = files[session[c].file]
      BY <2>3 DEF IInv, SessionSound, Serving
    <3>2. block_count(Len(files[session[c].file])) \in 1 .. UINT16_MAX
      BY <3>1, ExistingFacts, CountFacts
    <3>3. n + 1 \in 1 .. block_count(Len(files[session[c].file]))
      BY <2>3, <3>1, <3>2 DEF SessionCount
    <3>4. Data(n + 1, BlockOf(session[c].data, n + 1)) \in Replies
      BY <1>3, <3>1, <3>3
    <3> QED
      BY <1>1, <2>3, <3>4 DEF ServerReplies
  <2> QED
    BY <1>6, <2>1, <2>2, <2>3 DEF OnAck
<1> QED
  BY <1>4, <1>5, <1>6

\* A datagram at the server.
LEMMA ServerStep ==
    ASSUME IInv, OneName, NEW c \in Clients, ServerReceive(c)
    PROVE  IInv'
<1>1. PICK i \in Deliverable(toServer[c]) :
        LET m == toServer[c][i] IN
        /\ toServer' = [toServer EXCEPT ![c] = RemoveAt(@, i)]
        /\ \/ serverDown # "no" /\ UNCHANGED <<serverVars, toClient>>
           \/ /\ serverDown = "no"
              /\ \/ m.op = "rrq" /\ OnRrq(c, m.file)
                 \/ m.op = "wrq" /\ OnWrq(c, m.file)
                 \/ m.op = "ack" /\ OnAck(c, m.block)
                 \/ m.op = "data" /\ OnData(c, m)
        /\ UNCHANGED <<clientVars, faults>>
  BY DEF ServerReceive
<1> DEFINE m == toServer[c][i]
<1>2. m \in Requests(c) /\ RemoveAt(toServer[c], i) \in Seq(Requests(c))
  BY Taken
<1> HIDE DEF m
<1>3. /\ FilesTyped' /\ FilesWhole' /\ Grown /\ serverDown' \in ServerFailures
      /\ DOMAIN session' = Clients
      /\ \A x \in Clients \ {c} : session'[x] = session[x]
      /\ session'[c] = NoSession \/ session'[c] = session[c] \/ Renewed(c)
      /\ toClient' = toClient \/ \E r \in Replies : toClient' = [toClient EXCEPT ![c] = Append(@, r)]
  <2>1. CASE UNCHANGED files
    <3>1. FilesTyped' /\ FilesWhole' /\ Grown
      BY <2>1 DEF IInv, FilesTyped, FilesWhole, Grown, Existing
    <3>2. CASE UNCHANGED <<serverVars, toClient>>
      BY <3>1, <3>2 DEF serverVars, IInv, Ends
    <3>3. CASE \/ m.op = "rrq" /\ OnRrq(c, m.file)
               \/ m.op = "wrq" /\ OnWrq(c, m.file)
               \/ m.op = "ack" /\ OnAck(c, m.block)
      BY <1>2, <3>1, <3>3, RequestStep
    <3>4. CASE m.op = "data" /\ OnData(c, m)
      <4>1. Acks \subseteq Replies
        BY DEF Replies
      <4> QED
        BY <1>2, <3>4, <4>1, DataStep DEF Renewed
    <3> QED
      BY <1>1, <3>2, <3>3, <3>4 DEF m
  <2>2. CASE ~UNCHANGED files
    <3>1. m.op = "data" /\ OnData(c, m)
      BY <1>1, <2>2 DEF m, serverVars, OnRrq, OnWrq, OnAck, ServerFails
    <3>2. Acks \subseteq Replies
      BY DEF Replies
    <3> QED
      BY <1>2, <3>1, <3>2, DataStep DEF Renewed
  <2> QED
    BY <2>1, <2>2
<1>4. client' = client /\ failed' = failed
  BY <1>1 DEF clientVars
<1>5. DOMAIN client = Clients /\ \A x \in Clients : ClientSound(x)
  BY DEF IInv
<1>6. ASSUME NEW x \in Clients PROVE ClientSound(x)'
  <2>1. ClientSound(x)
    BY <1>5
  <2>2. Reading(x) => Reading(x)'
    BY <1>3, <1>4 DEF Reading, Grown
  <2>3. Writing(x) => Writing(x)'
    BY <1>4 DEF Writing
  <2> QED
    BY <1>4, <2>1, <2>2, <2>3 DEF ClientSound
<1>7. ASSUME NEW x \in Clients PROVE SessionSound(x)'
  <2>1. SessionSound(x)
    BY DEF IInv
  <2>2. CASE session'[x] = session[x]
    <3>1. Serving(x) => Serving(x)'
      BY <1>3, <2>2 DEF Serving, Grown
    <3>2. Collecting(x) => Collecting(x)'
      BY <2>2 DEF Collecting
    <3> QED
      BY <2>1, <2>2, <3>1, <3>2 DEF SessionSound
  <2>3. CASE session'[x] = NoSession
    BY <2>3 DEF SessionSound
  <2>4. CASE x = c /\ Renewed(c)
    BY <1>3, <2>4 DEF SessionSound, Serving, Collecting, Renewed, Grown
  <2> QED
    BY <1>3, <2>2, <2>3, <2>4
<1>8. DatagramsSound'
  <2>1. DatagramsSound
    BY DEF IInv
  <2>2. Replies \subseteq Replies'
    BY <1>3, RepliesGrow
  <2>3. DOMAIN toServer' = Clients /\ \A x \in Clients : toServer'[x] \in Seq(Requests(x))
    BY <1>1, <1>2, <2>1 DEF DatagramsSound
  <2>4. DOMAIN toClient' = Clients /\ \A x \in Clients : toClient'[x] \in Seq(Replies)
    <3>1. CASE toClient' = toClient
      BY <2>1, <3>1 DEF DatagramsSound
    <3>2. ASSUME NEW r \in Replies, toClient' = [toClient EXCEPT ![c] = Append(@, r)]
          PROVE  DOMAIN toClient' = Clients /\ \A x \in Clients : toClient'[x] \in Seq(Replies)
      BY <2>1, <3>2 DEF DatagramsSound
    <3> QED
      BY <1>3, <3>1, <3>2
  <2>5. \A x \in Clients : toClient'[x] \in Seq(Replies')
    BY <2>2, <2>4, SeqMonotonic
  <2>6. \A x \in Clients : Requests(x)' = Requests(x)
    BY DEF Requests, Blocks
  <2> QED
    BY <2>3, <2>4, <2>5, <2>6 DEF DatagramsSound
<1>9. Ends'
  BY <1>3, <1>4 DEF IInv, Ends
<1> QED
  BY <1>3, <1>4, <1>5, <1>6, <1>7, <1>8, <1>9 DEF IInv

(***************************************************************************)
(* The clients, the network.                                               *)
(***************************************************************************)

\* A step of client c or of its datagrams concerns nothing else.
LEMMA ClientKeeps ==
    ASSUME IInv, NEW c \in Clients, UNCHANGED serverVars,
           DOMAIN client' = Clients, \A x \in Clients \ {c} : client'[x] = client[x],
           ClientSound(c)', failed' \in [Clients -> Failures], DatagramsSound'
    PROVE  IInv'
<1>1. session' = session /\ files' = files /\ serverDown' = serverDown
  BY DEF serverVars
<1>2. ASSUME NEW x \in Clients PROVE SessionSound(x)'
  BY <1>1 DEF IInv, SessionSound, Serving, Collecting, Existing
<1>3. ASSUME NEW x \in Clients PROVE ClientSound(x)'
  <2>1. CASE x = c
    BY <2>1
  <2>2. CASE x # c
    BY <1>1, <2>2 DEF IInv, ClientSound, Reading, Writing, Existing
  <2> QED
    BY <2>1, <2>2
<1>4. FilesTyped' /\ FilesWhole' /\ Ends'
  BY <1>1 DEF IInv, FilesTyped, FilesWhole, Ends
<1> QED
  BY <1>1, <1>2, <1>3, <1>4 DEF IInv

\* Datagrams of client c that are those of before, fewer, or one more.
LEMMA DatagramsKept ==
    ASSUME IInv, UNCHANGED files, NEW c \in Clients,
           \/ toServer' = toServer
           \/ \E m \in Requests(c) : toServer' = [toServer EXCEPT ![c] = Append(@, m)]
           \/ \E i \in DOMAIN toServer[c] : toServer' = [toServer EXCEPT ![c] = RemoveAt(@, i)],
           \/ toClient' = toClient
           \/ \E m \in Replies : toClient' = [toClient EXCEPT ![c] = Append(@, m)]
           \/ \E i \in DOMAIN toClient[c] : toClient' = [toClient EXCEPT ![c] = RemoveAt(@, i)]
    PROVE  DatagramsSound'
<1>1. DatagramsSound
  BY DEF IInv
<1>2. Replies' = Replies /\ \A x \in Clients : Requests(x)' = Requests(x)
  BY DEF Replies, Existing, Requests, Blocks
<1>3. DOMAIN toServer' = Clients /\ \A x \in Clients : toServer'[x] \in Seq(Requests(x))
  <2>1. CASE toServer' = toServer
    BY <1>1, <2>1 DEF DatagramsSound
  <2>2. ASSUME NEW m \in Requests(c), toServer' = [toServer EXCEPT ![c] = Append(@, m)]
        PROVE  DOMAIN toServer' = Clients /\ \A x \in Clients : toServer'[x] \in Seq(Requests(x))
    BY <1>1, <2>2 DEF DatagramsSound
  <2>3. ASSUME NEW i \in DOMAIN toServer[c], toServer' = [toServer EXCEPT ![c] = RemoveAt(@, i)]
        PROVE  DOMAIN toServer' = Clients /\ \A x \in Clients : toServer'[x] \in Seq(Requests(x))
    <3>1. RemoveAt(toServer[c], i) \in Seq(Requests(c))
      BY Taken
    <3> QED
      BY <1>1, <2>3, <3>1 DEF DatagramsSound
  <2> QED
    BY <2>1, <2>2, <2>3
<1>4. DOMAIN toClient' = Clients /\ \A x \in Clients : toClient'[x] \in Seq(Replies)
  <2>1. CASE toClient' = toClient
    BY <1>1, <2>1 DEF DatagramsSound
  <2>2. ASSUME NEW m \in Replies, toClient' = [toClient EXCEPT ![c] = Append(@, m)]
        PROVE  DOMAIN toClient' = Clients /\ \A x \in Clients : toClient'[x] \in Seq(Replies)
    BY <1>1, <2>2 DEF DatagramsSound
  <2>3. ASSUME NEW i \in DOMAIN toClient[c], toClient' = [toClient EXCEPT ![c] = RemoveAt(@, i)]
        PROVE  DOMAIN toClient' = Clients /\ \A x \in Clients : toClient'[x] \in Seq(Replies)
    <3>1. RemoveAt(toClient[c], i) \in Seq(Replies)
      BY Taken
    <3> QED
      BY <1>1, <2>3, <3>1 DEF DatagramsSound
  <2> QED
    BY <2>1, <2>2, <2>3
<1> QED
  BY <1>2, <1>3, <1>4 DEF DatagramsSound

\* A request starts a transfer, or starts it again.
LEMMA RequestSent ==
    ASSUME IInv, NEW c \in Clients, NEW f \in Files, UNCHANGED <<serverVars, toClient>>,
           send_rrq(c, f) \/ \E n \in WriteSizes : send_wrq(c, f, Content(c, f, n))
    PROVE  IInv'
<1>1. PICK t : /\ client' = [client EXCEPT ![c] = t] /\ UNCHANGED failed
               /\ \/ /\ t = [op |-> "read", file |-> f, data |-> <<>>, last |-> 0, done |-> FALSE]
                     /\ ClientSends(c, Rrq(f))
                  \/ /\ \E n \in WriteSizes :
                          t = [op |-> "write", file |-> f, data |-> Content(c, f, n), last |-> no_acks,
                               done |-> FALSE]
                     /\ ClientSends(c, Wrq(f))
  BY DEF send_rrq, send_wrq
<1>2. t \in Transfers /\ t.file \in Files
  <2>1. \A n \in WriteSizes : Content(c, f, n) \in Seq(Bytes)
    BY ContentFacts, FaultAssumption
  <2>2. 0 \in 0 .. UINT16_MAX /\ no_acks \in 0 .. UINT16_MAX
    BY Uint16Assumption DEF UINT16_MAX, no_acks
  <2>3. CASE t = [op |-> "read", file |-> f, data |-> <<>>, last |-> 0, done |-> FALSE]
    <3>1. <<>> \in Seq(Bytes)
      OBVIOUS
    <3> QED
      BY <2>2, <2>3, <3>1 DEF Transfers
  <2>4. ASSUME NEW n \in WriteSizes,
               t = [op |-> "write", file |-> f, data |-> Content(c, f, n), last |-> no_acks,
                    done |-> FALSE]
        PROVE  t \in Transfers /\ t.file \in Files
    BY <2>1, <2>2, <2>4 DEF Transfers
  <2> QED
    BY <1>1, <2>3, <2>4
<1>3. DOMAIN client = Clients /\ failed \in [Clients -> Failures]
  BY DEF IInv, Ends
<1>4. client'[c] = t /\ DOMAIN client' = Clients /\ \A x \in Clients \ {c} : client'[x] = client[x]
  BY <1>1, <1>3
<1>5. ClientSound(c)'
  BY <1>1, <1>2, <1>4 DEF ClientSound, Reading, Writing
<1>6. DatagramsSound'
  <2>1. Rrq(f) \in Requests(c) /\ Wrq(f) \in Requests(c)
    BY DEF Requests
  <2>2. \E m \in Requests(c) : toServer' = [toServer EXCEPT ![c] = Append(@, m)]
    BY <1>1, <2>1 DEF ClientSends
  <2> QED
    BY <2>2, DatagramsKept DEF serverVars
<1> QED
  BY <1>1, <1>3, <1>4, <1>5, <1>6, ClientKeeps

\* A block that a writer sends is one of its file.
LEMMA BlockSent ==
    ASSUME IInv, NEW c \in Clients, client[c].op = "write", NEW last \in 0 .. UINT16_MAX,
           last < Count(c)
    PROVE  Data(last + 1, BlockOf(client[c].data, last + 1)) \in Requests(c)
<1>1. PICK n \in WriteSizes : client[c].data = Content(c, client[c].file, n)
  BY DEF IInv, ClientSound, Writing
<1>2. client[c].file \in Files
  BY DEF IInv, ClientSound
<1>3. n \in Nat /\ legal_size(n) /\ Len(client[c].data) = n
  BY <1>1, <1>2, ContentFacts, FaultAssumption
<1>4. block_count(n) \in 1 .. UINT16_MAX
  BY <1>3, CountFacts
<1>5. last + 1 \in 1 .. block_count(n)
  BY <1>3, <1>4 DEF Count
<1>6. Data(last + 1, BlockOf(client[c].data, last + 1)) \in Blocks(Content(c, client[c].file, n))
  BY <1>1, <1>3, <1>5 DEF Blocks
<1>7. <<client[c].file, n>> \in Files \X WriteSizes
  BY <1>2
<1> QED
  BY <1>6, <1>7 DEF Requests

\* A reader takes the block that follows.
LEMMA BlockTaken ==
    ASSUME IInv, OneName, NEW c \in Clients, client[c].op = "read",
           NEW m \in Replies, m.op = "data", NextBlock(c, m),
           client' = [client EXCEPT ![c].data = @ \o m.bytes, ![c].last = m.block,
                                    ![c].done = @ \/ Len(m.bytes) # BlockSize],
           UNCHANGED files
    PROVE  ClientSound(c)' /\ Ack(m.block) \in Requests(c)
<1>1. PICK f \in Existing, k \in Nat :
        /\ k * BlockSize <= Len(files[f]) /\ k < block_count(Len(files[f]))
        /\ m.block = k + 1 /\ m.bytes = BlockOf(files[f], k + 1)
  BY ReplyKinds
<1>2. client[c] \in Transfers /\ client[c].file \in Files /\ Reading(c)
  BY DEF IInv, ClientSound
<1>3. client[c].file = f
  BY <1>1, <1>2 DEF OneName, Existing
<1> DEFINE d == files[f]
<1>4. d \in Seq(Bytes) /\ Len(d) \in Nat /\ legal_size(Len(d))
  BY ExistingFacts
<1>5. block_count(Len(d)) \in 1 .. UINT16_MAX /\ \A j \in Nat : j < block_count(Len(d)) <=> j * BlockSize <= Len(d)
  BY <1>4, CountFacts
<1>6. BlockSize \in Nat \ {0}
  BY BlockSizeAssumption
<1>7. client[c].last = k
  BY <1>1, <1>2 DEF NextBlock, Transfers
<1>8. client[c].data = SubSeq(d, 1, k * BlockSize) /\ ~client[c].done
  <2>1. CASE client[c].last = 0 /\ client[c].data = <<>> /\ ~client[c].done
    <3>1. k * BlockSize = 0
      BY <1>6, <1>7, <2>1
    <3> QED
      BY <1>4, <2>1, <3>1, SubSeqEmpty
  <2>2. CASE /\ client[c].data = Received(d, client[c].last)
             /\ client[c].done <=> client[c].last = block_count(Len(d))
    <3>1. ~client[c].done
      BY <1>1, <1>5, <1>7, <2>2
    <3>2. Cut(k, Len(d)) = k * BlockSize
      BY <1>1 DEF Cut
    <3> QED
      BY <1>7, <2>2, <3>1, <3>2 DEF Received
  <2> QED
    BY <1>2, <1>3, <2>1, <2>2 DEF Reading
<1> HIDE DEF d
<1>9. /\ m.bytes \in Seq(Bytes)
      /\ Len(m.bytes) = IF (k + 1) * BlockSize <= Len(d) THEN BlockSize ELSE Len(d) - k * BlockSize
      /\ client[c].data \o m.bytes = SubSeq(d, 1, Cut(k + 1, Len(d)))
  BY <1>1, <1>4, <1>8, BlockFacts DEF d
<1>10. Len(m.bytes) # BlockSize <=> k + 1 = block_count(Len(d))
  <2>1. k + 1 < block_count(Len(d)) <=> (k + 1) * BlockSize <= Len(d)
    BY <1>5
  <2>2. (k + 1) * BlockSize = k * BlockSize + BlockSize /\ k * BlockSize \in Nat
    BY <1>6
  <2>3. Len(d) \in Nat /\ k + 1 <= block_count(Len(d)) /\ block_count(Len(d)) \in Nat
    BY <1>1, <1>4, <1>5 DEF d
  <2>4. CASE (k + 1) * BlockSize <= Len(d)
    <3>1. k + 1 # block_count(Len(d)) /\ Len(m.bytes) = BlockSize
      BY <1>9, <2>1, <2>3, <2>4
    <3> QED
      BY <3>1
  <2>5. CASE ~((k + 1) * BlockSize <= Len(d))
    <3>1. k + 1 = block_count(Len(d)) /\ Len(m.bytes) = Len(d) - k * BlockSize
      BY <1>9, <2>1, <2>3, <2>5
    <3>2. Len(d) - k * BlockSize # BlockSize
      BY <1>6, <2>2, <2>3, <2>5
    <3> QED
      BY <3>1, <3>2
  <2> QED
    BY <2>4, <2>5
<1>11. k + 1 \in 1 .. block_count(Len(d)) /\ k + 1 \in 0 .. UINT16_MAX
  <2>1. k < block_count(Len(d))
    BY <1>1 DEF d
  <2>2. UINT16_MAX \in Int
    BY Uint16Assumption DEF UINT16_MAX
  <2> QED
    BY <1>5, <2>1, <2>2
<1>12. client'[c] = [client[c] EXCEPT !.data = @ \o m.bytes, !.last = m.block,
                                      !.done = @ \/ Len(m.bytes) # BlockSize]
  BY DEF IInv
<1>13. client[c].data \o m.bytes \in Seq(Bytes)
  BY <1>2, <1>9, ConcatProperties DEF Transfers
<1>14. /\ client'[c] \in Transfers
       /\ client'[c].op = "read" /\ client'[c].file = f
       /\ client'[c].data = Received(d, k + 1) /\ client'[c].last = k + 1
       /\ client'[c].done = (Len(m.bytes) # BlockSize)
  <2>1. client'[c] = [client[c] EXCEPT !.data = client[c].data \o m.bytes, !.last = m.block,
                                       !.done = client[c].done \/ Len(m.bytes) # BlockSize]
    BY <1>12
  <2>2. (client[c].done \/ Len(m.bytes) # BlockSize) \in BOOLEAN
    OBVIOUS
  <2>3. m.block \in 0 .. UINT16_MAX
    BY <1>1, <1>11
  <2>4. PICK e \in BOOLEAN : e = (client[c].done \/ Len(m.bytes) # BlockSize)
    BY <2>2
  <2>5. e = (Len(m.bytes) # BlockSize)
    BY <1>8, <2>4
  <2>6. PICK b \in Seq(Bytes) : b = client[c].data \o m.bytes
    BY <1>13
  <2>7. client'[c] = [client[c] EXCEPT !.data = b, !.last = m.block, !.done = e]
    BY <2>1, <2>4, <2>6
  <2>8. /\ client'[c] \in Transfers
        /\ client'[c].op = client[c].op /\ client'[c].file = client[c].file
        /\ client'[c].data = b /\ client'[c].last = m.block /\ client'[c].done = e
    BY ONLY <1>2, <2>3, <2>4, <2>6, <2>7 DEF Transfers
  <2> QED
    BY <1>1, <1>3, <1>9, <2>5, <2>6, <2>8 DEF Received
<1>15. Reading(c)'
  BY <1>1, <1>10, <1>11, <1>14 DEF Reading, d, Existing
<1>16. Ack(m.block) \in Requests(c)
  BY <1>1, <1>11 DEF Requests, Acks
<1> QED
  BY <1>2, <1>3, <1>14, <1>15, <1>16 DEF ClientSound

\* A client whose machine stops.
LEMMA ClientStops ==
    ASSUME IInv, NEW c \in Clients, NEW why \in Failures, ClientFails(c, why),
           UNCHANGED serverVars, DatagramsSound'
    PROVE  IInv'
<1>1. client' = client /\ failed' \in [Clients -> Failures] /\ files' = files
  BY DEF ClientFails, IInv, Ends, serverVars
<1>2. ClientSound(c)'
  BY <1>1 DEF IInv, ClientSound, Reading, Writing, Existing
<1>3. DOMAIN client' = Clients /\ \A x \in Clients \ {c} : client'[x] = client[x]
  BY <1>1 DEF IInv
<1> QED
  BY <1>1, <1>2, <1>3, ClientKeeps

\* A client without a transfer.
LEMMA Started == Idle \in Transfers
  BY Uint16Assumption DEF Idle, Transfers, UINT16_MAX

\* A client whose transfer is over.
LEMMA ClientIdle ==
    ASSUME IInv, NEW c \in Clients, client' = [client EXCEPT ![c] = Idle],
           UNCHANGED <<failed, serverVars, toServer, toClient>>
    PROVE  IInv'
<1>1. DOMAIN client = Clients /\ failed' \in [Clients -> Failures] /\ files' = files
  BY DEF IInv, Ends, serverVars
<1>2. DOMAIN client' = Clients /\ client'[c] = Idle /\ \A x \in Clients \ {c} : client'[x] = client[x]
  BY <1>1
<1>3. ClientSound(c)'
  BY <1>2, Started DEF ClientSound, Idle
<1>4. DatagramsSound'
  BY <1>1, DatagramsKept
<1> QED
  BY <1>1, <1>2, <1>3, <1>4, ClientKeeps

\* A datagram reaches a client.
LEMMA ClientReceiveStep ==
    ASSUME IInv, OneName, NEW c \in Clients, ClientReceive(c)
    PROVE  IInv'
<1>1. PICK i \in Deliverable(toClient[c]) :
        /\ toClient' = [toClient EXCEPT ![c] = RemoveAt(@, i)]
        /\ \/ client[c].op = "idle" /\ UNCHANGED <<clientVars, toServer>>
           \/ client[c].op = "read" /\ ReaderIn(c, toClient[c][i])
           \/ client[c].op = "write" /\ WriterIn(c, toClient[c][i])
  BY DEF ClientReceive
<1> DEFINE m == toClient[c][i]
<1>2. m \in Replies
  BY Taken
<1> HIDE DEF m
<1>3. i \in DOMAIN toClient[c] /\ UNCHANGED serverVars /\ files' = files
  BY DEF ClientReceive, Deliverable, serverVars
<1>4. DOMAIN client = Clients /\ failed \in [Clients -> Failures]
  BY DEF IInv, Ends
<1>5. ASSUME toServer' = toServer \/ \E r \in Requests(c) : toServer' = [toServer EXCEPT ![c] = Append(@, r)]
      PROVE  DatagramsSound'
  BY <1>1, <1>3, <1>5, DatagramsKept
<1>6. ASSUME NEW why \in Failures, ClientFails(c, why) PROVE IInv'
  <2>1. toServer' = toServer
    BY <1>6 DEF ClientFails
  <2> QED
    BY <1>3, <1>5, <1>6, <2>1, ClientStops
<1>7. CASE client[c].op = "idle" /\ UNCHANGED <<clientVars, toServer>>
  <2>1. client' = client /\ failed' = failed /\ toServer' = toServer
    BY <1>7 DEF clientVars
  <2>2. ClientSound(c)'
    BY <1>3, <2>1 DEF IInv, ClientSound, Reading, Writing, Existing
  <2> QED
    BY <1>3, <1>4, <1>5, <2>1, <2>2, ClientKeeps
<1>8. CASE client[c].op = "read" /\ ReaderIn(c, m)
  <2>1. CASE /\ m.op = "data" /\ NextBlock(c, m)
             /\ client' = [client EXCEPT ![c].data = @ \o m.bytes,
                                         ![c].last = m.block,
                                         ![c].done = @ \/ Len(m.bytes) # BlockSize]
             /\ ClientSends(c, Ack(m.block))
             /\ UNCHANGED failed
    <3>1. ClientSound(c)' /\ Ack(m.block) \in Requests(c)
      BY <1>2, <1>3, <1>8, <2>1, BlockTaken
    <3>2. DOMAIN client' = Clients /\ \A x \in Clients \ {c} : client'[x] = client[x]
      BY <1>4, <2>1
    <3>3. DatagramsSound'
      BY <1>5, <2>1, <3>1 DEF ClientSends
    <3> QED
      BY <1>3, <1>4, <2>1, <3>1, <3>2, <3>3, ClientKeeps
  <2>2. CASE \E why \in Failures : ClientFails(c, why)
    BY <1>6, <2>2
  <2> QED
    BY <1>8, <2>1, <2>2 DEF ReaderIn, Failures
<1>9. CASE client[c].op = "write" /\ WriterIn(c, m)
  <2>1. CASE /\ m.op = "ack" /\ m.block <= Count(c)
             /\ client' = [client EXCEPT ![c].last = m.block]
             /\ IF m.block < Count(c) THEN SendDataAfter(c, m.block) ELSE UNCHANGED toServer
             /\ UNCHANGED failed
    <3>1. m.block \in 0 .. UINT16_MAX
      BY <1>2, <2>1, ReplyKinds
    <3>2. DOMAIN client' = Clients /\ \A x \in Clients \ {c} : client'[x] = client[x]
      BY <1>4, <2>1
    <3>3. DatagramsSound'
      <4>1. CASE m.block < Count(c)
        <5>1. Data(m.block + 1, BlockOf(client[c].data, m.block + 1)) \in Requests(c)
          BY <1>9, <3>1, <4>1, BlockSent
        <5> QED
          BY <1>5, <2>1, <4>1, <5>1 DEF SendDataAfter, ClientSends
      <4>2. CASE ~(m.block < Count(c))
        BY <1>5, <2>1, <4>2
      <4> QED
        BY <4>1, <4>2
    <3>4. ClientSound(c)'
      <4>1. client[c] \in Transfers /\ client[c].file \in Files /\ Writing(c)
        BY <1>9 DEF IInv, ClientSound
      <4>2. client'[c] = [client[c] EXCEPT !.last = m.block]
        BY <1>4, <2>1
      <4>3. client'[c] \in Transfers
        BY <3>1, <4>1, <4>2 DEF Transfers
      <4>4. client'[c].op = "write" /\ client'[c].file = client[c].file /\ client'[c].data = client[c].data
        BY <1>9, <4>1, <4>2 DEF Transfers
      <4> QED
        BY <4>1, <4>3, <4>4 DEF ClientSound, Writing
    <3> QED
      BY <1>3, <1>4, <2>1, <3>2, <3>3, <3>4, ClientKeeps
  <2>2. CASE \E why \in Failures : ClientFails(c, why)
    BY <1>6, <2>2
  <2> QED
    BY <1>9, <2>1, <2>2 DEF WriterIn, Failures
<1> QED
  BY <1>1, <1>7, <1>8, <1>9 DEF m

\* A client times out.
LEMMA TimeoutStep ==
    ASSUME IInv, NEW c \in Clients, Timeout(c)
    PROVE  IInv'
<1>1. UNCHANGED serverVars /\ UNCHANGED toClient /\ files' = files
  BY DEF Timeout, serverVars
<1>2. client[c].op \in {"read", "write"} /\ client[c].file \in Files /\ client[c] \in Transfers
  BY DEF Timeout, IInv, ClientSound
<1>3. DOMAIN client = Clients /\ failed \in [Clients -> Failures]
  BY DEF IInv, Ends
<1>4. CASE client[c].op = "read" /\ send_rrq(c, client[c].file)
  BY <1>1, <1>2, <1>4, RequestSent
<1>5. CASE client[c].op = "read" /\ ClientFails(c, "timeout")
  <2>1. toServer' = toServer
    BY <1>5 DEF ClientFails
  <2>2. DatagramsSound'
    BY <1>1, <2>1, DatagramsKept
  <2> QED
    BY <1>1, <1>5, <2>2, ClientStops DEF Failures
<1>6. CASE client[c].op = "write" /\ send_wrq(c, client[c].file, client[c].data)
  <2>1. PICK n \in WriteSizes : client[c].data = Content(c, client[c].file, n)
    BY <1>6 DEF IInv, ClientSound, Writing
  <2> QED
    BY <1>1, <1>2, <1>6, <2>1, RequestSent
<1>7. CASE /\ client[c].op = "write" /\ client[c].last < Count(c)
           /\ SendDataAfter(c, client[c].last)
           /\ UNCHANGED clientVars
  <2>1. Data(client[c].last + 1, BlockOf(client[c].data, client[c].last + 1)) \in Requests(c)
    BY <1>2, <1>7, BlockSent DEF Transfers
  <2>2. DatagramsSound'
    BY <1>1, <1>7, <2>1, DatagramsKept DEF SendDataAfter, ClientSends
  <2>3. client' = client /\ failed' = failed
    BY <1>7 DEF clientVars
  <2>4. ClientSound(c)'
    BY <1>1, <2>3 DEF IInv, ClientSound, Reading, Writing, Existing
  <2> QED
    BY <1>1, <1>3, <2>2, <2>3, <2>4, ClientKeeps
<1> QED
  BY <1>4, <1>5, <1>6, <1>7 DEF Timeout, ReaderTimeout, WriterTimeout

\* The network loses or repeats a datagram.
LEMMA NetworkStep ==
    ASSUME IInv, NEW c \in Clients, Lose(c) \/ Duplicate(c)
    PROVE  IInv'
<1>1. UNCHANGED serverVars /\ files' = files /\ client' = client /\ failed' = failed
  BY DEF Lose, Duplicate, serverVars, clientVars
<1>2. /\ \A m \in Range(toServer[c]) : m \in Requests(c)
      /\ \A m \in Range(toClient[c]) : m \in Replies
  BY Taken DEF Range
<1>3. DatagramsSound'
  <2>1. CASE Lose(c)
    BY <1>1, <2>1, DatagramsKept DEF Lose
  <2>2. CASE Duplicate(c)
    BY <1>1, <1>2, <2>2, DatagramsKept DEF Duplicate, ClientSends, ServerReplies
  <2> QED
    BY <2>1, <2>2
<1>4. ClientSound(c)'
  BY <1>1 DEF IInv, ClientSound, Reading, Writing, Existing
<1> QED
  BY <1>1, <1>3, <1>4, ClientKeeps DEF IInv, Ends

\* The invariant at the start.
LEMMA Initial == Init => IInv
<1> SUFFICES ASSUME Init PROVE IInv
  OBVIOUS
<1>1. PICK present \in SUBSET Files : \E size \in [present -> FileSizes] :
        files = [f \in Files |-> IF f \in present THEN Content("server", f, size[f]) ELSE NoFile]
  BY DEF Init
<1>2. /\ DOMAIN files = Files
      /\ \A f \in Files : files[f] = NoFile \/ \E n \in FileSizes : files[f] = Content("server", f, n)
  <2>1. PICK size \in [present -> FileSizes] :
          files = [f \in Files |-> IF f \in present THEN Content("server", f, size[f]) ELSE NoFile]
    BY <1>1
  <2> QED
    BY <2>1
<1>3. \A f \in Files, n \in FileSizes : Content("server", f, n) \in Seq(Bytes)
  BY ContentFacts, FaultAssumption
<1>4. FilesTyped
  <2>1. \A f \in Files : files[f] \in {NoFile} \cup Seq(Bytes)
    BY <1>2, <1>3
  <2> QED
    BY <1>1, <1>2, <2>1 DEF FilesTyped
<1>5. FilesWhole
  BY <1>2 DEF FilesWhole
<1>6. DOMAIN client = Clients /\ \A c \in Clients : ClientSound(c)
  BY Started DEF Init, ClientSound, Idle
<1>7. DOMAIN session = Clients /\ \A c \in Clients : SessionSound(c)
  BY DEF Init, SessionSound
<1>8. DatagramsSound
  BY DEF Init, DatagramsSound
<1>9. Ends
  BY DEF Init, Ends, Failures, ServerFailures
<1> QED
  BY <1>4, <1>5, <1>6, <1>7, <1>8, <1>9 DEF IInv

\* The invariant is kept by every step.
LEMMA Step == ASSUME OneName PROVE IInv /\ [Next]_vars => IInv'
<1> SUFFICES ASSUME IInv, [Next]_vars PROVE IInv'
  OBVIOUS
<1>1. CASE UNCHANGED vars
  <2>1. /\ client' = client /\ failed' = failed /\ session' = session /\ files' = files
        /\ serverDown' = serverDown /\ toServer' = toServer /\ toClient' = toClient
    BY <1>1 DEF vars
  <2>2. (\A c \in Clients : ClientSound(c))' /\ (\A c \in Clients : SessionSound(c))'
    BY <2>1 DEF IInv, ClientSound, SessionSound, Reading, Writing, Serving, Collecting, Existing
  <2>3. FilesTyped' /\ FilesWhole' /\ Ends'
    BY <2>1 DEF IInv, FilesTyped, FilesWhole, Ends
  <2>4. DatagramsSound'
    <3>1. Replies' = Replies /\ \A c \in Clients : Requests(c)' = Requests(c)
      BY <2>1 DEF Replies, Existing, Requests, Blocks
    <3> QED
      BY <2>1, <3>1 DEF IInv, DatagramsSound
  <2> QED
    BY <2>1, <2>2, <2>3, <2>4 DEF IInv
<1>2. ASSUME NEW c \in Clients, NEW f \in Files,
             StartRead(c, f) \/ \E size \in WriteSizes : StartWrite(c, f, size)
      PROVE  IInv'
  BY <1>2, RequestSent DEF StartRead, StartWrite
<1>3. ASSUME NEW c \in Clients, ClientReceive(c) PROVE IInv'
  BY <1>3, ClientReceiveStep
<1>4. ASSUME NEW c \in Clients, Timeout(c) PROVE IInv'
  BY <1>4, TimeoutStep
<1>5. ASSUME NEW c \in Clients, Finish(c) \/ Abort(c) PROVE IInv'
  BY <1>5, ClientIdle DEF Finish, Abort
<1>6. ASSUME NEW c \in Clients, ServerReceive(c) PROVE IInv'
  BY <1>6, ServerStep
<1>7. ASSUME NEW c \in Clients, Lose(c) \/ Duplicate(c) PROVE IInv'
  BY <1>7, NetworkStep
<1> QED
  BY <1>1, <1>2, <1>3, <1>4, <1>5, <1>6, <1>7 DEF Next

\* What a reader has is a beginning of the file.
LEMMA Implied == ASSUME IInv PROVE FilesIntact
<1>1. ReadIntact
  <2> SUFFICES ASSUME NEW c \in Clients, client[c].op = "read"
               PROVE  LET file == files[client[c].file] IN
                      IF file = NoFile THEN client[c].data = <<>> /\ ~client[c].done
                      ELSE /\ IsPrefix(client[c].data, file)
                           /\ client[c].done => client[c].data = file
    BY DEF ReadIntact
  <2>1. Reading(c) /\ client[c].file \in Files
    BY DEF IInv, ClientSound
  <2>2. CASE files[client[c].file] = NoFile
    BY <2>1, <2>2 DEF Reading, Existing
  <2>3. CASE files[client[c].file] # NoFile
    <3> DEFINE d == files[client[c].file]
    <3>1. client[c].file \in Existing
      BY <2>1, <2>3 DEF Existing
    <3>2. d \in Seq(Bytes) /\ Len(d) \in Nat /\ legal_size(Len(d))
      BY <3>1, ExistingFacts
    <3>3. block_count(Len(d)) \in 1 .. UINT16_MAX /\ \A j \in Nat : j < block_count(Len(d)) <=> j * BlockSize <= Len(d)
      BY <3>2, CountFacts
    <3>4. CASE client[c].data = <<>> /\ ~client[c].done
      <4>1. SubSeq(d, 1, 0) = <<>>
        BY <3>2, SubSeqEmpty
      <4>2. IsPrefix(SubSeq(d, 1, 0), d)
        BY <3>2, PrefixOf
      <4> QED
        BY <2>3, <3>4, <4>1, <4>2
    <3>5. CASE /\ client[c].last \in 1 .. block_count(Len(d))
               /\ client[c].data = Received(d, client[c].last)
               /\ client[c].done <=> client[c].last = block_count(Len(d))
      <4> DEFINE j == Cut(client[c].last, Len(d))
      <4>1. client[c].last \in Nat /\ client[c].last * BlockSize \in Nat
        <5>1. block_count(Len(d)) \in Nat
          BY <3>3, Uint16Assumption DEF UINT16_MAX
        <5>2. client[c].last \in Nat
          BY <3>5, <5>1
        <5> QED
          BY <5>2, BlockSizeAssumption
      <4>2. j \in 0 .. Len(d)
        BY <3>2, <4>1 DEF Cut
      <4>3. IsPrefix(client[c].data, d)
        BY <3>2, <3>5, <4>2, PrefixOf DEF Received
      <4>4. client[c].done => client[c].data = d
        <5>1. ASSUME client[c].done PROVE j = Len(d)
          <6>1. ~(client[c].last * BlockSize <= Len(d))
            BY <3>3, <3>5, <4>1, <5>1
          <6> QED
            BY <6>1 DEF Cut
        <5>2. SubSeq(d, 1, Len(d)) = d
          BY <3>2, SubSeqFull
        <5> QED
          BY <3>5, <5>1, <5>2 DEF Received
      <4> QED
        BY <2>3, <4>3, <4>4
    <3> QED
      BY <2>1, <3>4, <3>5 DEF Reading
  <2> QED
    BY <2>2, <2>3
<1>2. TypeOK
  <2>1. ASSUME NEW c \in Clients
        PROVE  /\ client[c].op \in {"idle", "read", "write"}
               /\ client[c].file \in Files \cup {NoFile}
               /\ client[c].last \in 0 .. UINT16_MAX
               /\ client[c].done \in BOOLEAN
    <3>1. client[c] \in Transfers
      BY DEF IInv, ClientSound
    <3> QED
      BY <3>1 DEF Transfers
  <2>2. ASSUME NEW c \in Clients, session[c] # NoSession
        PROVE  session[c].file \in Files /\ session[c].read \in BOOLEAN
    <3>1. session[c] \in Sessions
      BY <2>2 DEF IInv, SessionSound
    <3> QED
      BY <3>1 DEF Sessions
  <2> QED
    BY <2>1, <2>2 DEF TypeOK, IInv, Ends
<1> QED
  BY <1>1, <1>2 DEF FilesIntact, IInv

\* Whatever datagrams are lost, repeated, overtaken or late, and whenever a
\* transfer is given up or begun again: what a reader has is a beginning of
\* the file, all of it when it is done, and a file on the server is the whole
\* of what one writer sent, for every size of block, number of clients and
\* amount of interference (tftp_reader::on_packet, tftps.cpp got_data).
THEOREM FilesCorrect == OneName => (Spec => []FilesIntact)
<1> SUFFICES ASSUME OneName PROVE Spec => []FilesIntact
  OBVIOUS
<1>1. Init => IInv
  BY Initial
<1>2. IInv /\ [Next]_vars => IInv'
  BY Step
<1>3. IInv => FilesIntact
  BY Implied
<1> QED
  BY <1>1, <1>2, <1>3, PTL DEF Spec

-------------------------------------------------------------------------------
(***************************************************************************)
(* A write on its own: one transfer in all, and any interference.          *)
(***************************************************************************)

\* One transfer, and not of the size at which the writer takes "no block
\* acknowledged yet" for the number of the last block.
Alone == MaxOps <= 1 /\ \A n \in WriteSizes : block_count(n) # no_acks

\* A client that has never done anything.
Untouched(c) ==
    client[c].op = "idle" /\ session[c] = NoSession /\ toServer[c] = <<>> /\ toClient[c] = <<>>

\* What the server answers: the last block is acknowledged only once the
\* file is there.
Answers(f, d) ==
    {Error} \cup {Ack(k) : k \in 0 .. block_count(Len(d)) - 1}
      \cup {Ack(k) : k \in IF files[f] = d THEN {block_count(Len(d))} ELSE {}}

\* The session collects a file of n bytes that is not there yet.
Collects(c, f, n) ==
    /\ files[f] = NoFile
    /\ \E k \in Nat : /\ k * BlockSize <= n
                      /\ session[c] = [read |-> FALSE, file |-> f, data |-> Content(c, f, k * BlockSize)]

\* The client that writes a file.
Writers(f, d) ==
    [op : {"write"}, file : {f}, data : {d}, last : 0 .. UINT16_MAX, done : {FALSE}]

\* What client c, the server and the network have of the write of n bytes
\* as file f.
WriteSound(c, f, n) ==
    LET d == Content(c, f, n) IN
    /\ client[c] \in Writers(f, d)
    /\ client[c].last = block_count(n) => files[f] = d
    /\ session[c] # NoSession => Collects(c, f, n)
    /\ toServer[c] \in Seq({Wrq(f)} \cup Blocks(d))
    /\ toClient[c] \in Seq(Answers(f, d))

\* What is counted, and who has what.
Kinds == [ops : Nat, loss : Nat, dup : Nat, early : Nat, abort : Nat]

Domains ==
    /\ DOMAIN client = Clients /\ DOMAIN session = Clients /\ DOMAIN files = Files
    /\ DOMAIN toServer = Clients /\ DOMAIN toClient = Clients
    /\ DOMAIN failed = Clients /\ faults \in Kinds

\* Nobody but the client that writes has done anything.
AloneSound ==
    /\ Domains
    /\ \A c \in Clients : client[c].op \in {"idle", "read", "write"} /\ DOMAIN client[c] = DOMAIN Idle
    /\ faults.ops = 0 => \A c \in Clients : Untouched(c)
    /\ \A c \in Clients : client[c].op = "write" =>
         /\ \E f \in Files, n \in WriteSizes : WriteSound(c, f, n)
         /\ \A b \in Clients \ {c} : Untouched(b)

\* The steps of a transfer, and its beginning.
GoesOn(c) ==
    \/ ClientReceive(c) \/ Timeout(c) \/ Finish(c) \/ Abort(c)
    \/ ServerReceive(c) \/ Lose(c) \/ Duplicate(c)

Begins(c) == \E f \in Files : StartRead(c, f) \/ \E size \in WriteSizes : StartWrite(c, f, size)

\* A step of client c or of its datagrams leaves those of others alone.
OnlyOf(c) ==
    \A b \in Clients \ {c} :
         /\ client'[b] = client[b] /\ session'[b] = session[b] /\ failed'[b] = failed[b]
         /\ toServer'[b] = toServer[b] /\ toClient'[b] = toClient[b]

\* What the server leaves alone.
LEMMA ServerFrame ==
    ASSUME Domains, NEW c \in Clients, ServerReceive(c)
    PROVE  OnlyOf(c) /\ Domains' /\ faults' = faults /\ client' = client
<1>1. PICK i : toServer' = [toServer EXCEPT ![c] = RemoveAt(@, i)]
  BY DEF ServerReceive
<1>2. client' = client /\ failed' = failed /\ faults' = faults
  BY DEF ServerReceive, clientVars
<1>3. \/ UNCHANGED <<serverVars, toClient>>
      \/ \E f : OnRrq(c, f) \/ OnWrq(c, f)
      \/ \E n : OnAck(c, n)
      \/ \E m : OnData(c, m)
  BY DEF ServerReceive
<1>4. \/ session' = session
      \/ \E s : session' = [session EXCEPT ![c] = s]
  BY <1>3 DEF serverVars, OnRrq, OnWrq, OnAck, OnData, ServerFails
<1>5. \/ files' = files
      \/ \E f, d : files' = [files EXCEPT ![f] = d]
  BY <1>3 DEF serverVars, OnRrq, OnWrq, OnAck, OnData, ServerFails
<1>6. \/ toClient' = toClient
      \/ \E r : toClient' = [toClient EXCEPT ![c] = Append(@, r)]
  BY <1>3 DEF serverVars, OnRrq, OnWrq, OnAck, OnData, ServerFails, ServerReplies
<1> QED
  BY <1>1, <1>2, <1>4, <1>5, <1>6 DEF OnlyOf, Domains

\* What a client, the network and the user leave alone.
LEMMA ClientFrame ==
    ASSUME Domains, NEW c \in Clients, GoesOn(c) \/ Begins(c), ~ServerReceive(c)
    PROVE  OnlyOf(c) /\ Domains' /\ UNCHANGED serverVars
<1>1. UNCHANGED serverVars
  BY DEF GoesOn, Begins, StartRead, StartWrite, ClientReceive, Timeout, Finish, Abort, Lose, Duplicate
<1>2. \/ client' = client
      \/ \E t : client' = [client EXCEPT ![c] = t]
  BY DEF GoesOn, Begins, StartRead, StartWrite, ClientReceive, Timeout, Finish, Abort, Lose, Duplicate,
         clientVars, send_rrq, send_wrq, ReaderIn, WriterIn, ReaderTimeout, WriterTimeout, ClientFails
<1>3. \/ failed' = failed
      \/ \E t : failed' = [failed EXCEPT ![c] = t]
  BY DEF GoesOn, Begins, StartRead, StartWrite, ClientReceive, Timeout, Finish, Abort, Lose, Duplicate,
         clientVars, send_rrq, send_wrq, ReaderIn, WriterIn, ReaderTimeout, WriterTimeout, ClientFails
<1>4. \/ toServer' = toServer
      \/ \E t : toServer' = [toServer EXCEPT ![c] = t]
  BY DEF GoesOn, Begins, StartRead, StartWrite, ClientReceive, Timeout, Finish, Abort, Lose, Duplicate,
         clientVars, send_rrq, send_wrq, ReaderIn, WriterIn, ReaderTimeout, WriterTimeout, ClientFails,
         ClientSends, SendDataAfter
<1>5. \/ toClient' = toClient
      \/ \E t : toClient' = [toClient EXCEPT ![c] = t]
  BY DEF GoesOn, Begins, StartRead, StartWrite, ClientReceive, Timeout, Finish, Abort, Lose, Duplicate,
         ServerReplies
<1>6. faults' \in Kinds
  BY DEF GoesOn, Begins, StartRead, StartWrite, ClientReceive, Timeout, Finish, Abort, Lose, Duplicate,
         Spend, Kinds, Domains
<1> QED
  BY <1>1, <1>2, <1>3, <1>4, <1>5, <1>6 DEF OnlyOf, Domains, serverVars

\* The datagrams of a write of n bytes.
LEMMA WriteFacts ==
    ASSUME NEW c \in Clients, NEW f \in Files, NEW n \in WriteSizes
    PROVE  /\ n \in Nat /\ legal_size(n) /\ block_count(n) \in 1 .. UINT16_MAX
           /\ Len(Content(c, f, n)) = n /\ Content(c, f, n) \in Seq(Bytes)
           /\ \A k \in Nat : k < block_count(n) <=> k * BlockSize <= n
           /\ UINT16_MAX \in Nat /\ UINT16_MAX >= 2
<1>1. n \in Nat /\ legal_size(n)
  BY FaultAssumption
<1>2. UINT16_MAX \in Nat /\ UINT16_MAX >= 2
  BY Uint16Assumption DEF UINT16_MAX
<1> QED
  BY <1>1, <1>2, CountFacts, ContentFacts

\* One more datagram of a kind.
LEMMA OneMore ==
    ASSUME NEW S, NEW T, NEW s \in Seq(S), S \subseteq T, NEW m \in T
    PROVE  s \in Seq(T) /\ Append(s, m) \in Seq(T)
<1>1. s \in Seq(T)
  BY SeqMonotonic
<1> QED
  BY <1>1

\* The server takes a datagram of the write.
LEMMA WriteAtServer ==
    ASSUME Domains, NEW c \in Clients, NEW f \in Files, NEW n \in WriteSizes, WriteSound(c, f, n),
           ServerReceive(c)
    PROVE  WriteSound(c, f, n)'
<1>1. PICK d, N : d = Content(c, f, n) /\ N = block_count(n)
  OBVIOUS
<1>2. /\ n \in Nat /\ N \in 1 .. UINT16_MAX /\ Len(d) = n /\ d \in Seq(Bytes)
      /\ \A k \in Nat : k < N <=> k * BlockSize <= n
      /\ UINT16_MAX \in Nat /\ UINT16_MAX >= 2
  BY <1>1, WriteFacts
<1>3. PICK i \in Deliverable(toServer[c]) :
        LET m == toServer[c][i] IN
        /\ toServer' = [toServer EXCEPT ![c] = RemoveAt(@, i)]
        /\ \/ UNCHANGED <<serverVars, toClient>>
           \/ m.op = "rrq" /\ OnRrq(c, m.file)
           \/ m.op = "wrq" /\ OnWrq(c, m.file)
           \/ m.op = "ack" /\ OnAck(c, m.block)
           \/ m.op = "data" /\ OnData(c, m)
        /\ UNCHANGED clientVars
  BY DEF ServerReceive
<1> DEFINE m == toServer[c][i]
<1>4. m \in {Wrq(f)} \cup Blocks(d) /\ RemoveAt(toServer[c], i) \in Seq({Wrq(f)} \cup Blocks(d))
  <2>1. i \in DOMAIN toServer[c] /\ toServer[c] \in Seq({Wrq(f)} \cup Blocks(d))
    BY <1>1 DEF Deliverable, WriteSound
  <2> QED
    BY <2>1, Removed
<1> HIDE DEF m
<1>5. client' = client /\ toServer'[c] \in Seq({Wrq(f)} \cup Blocks(d))
  BY <1>3, <1>4 DEF clientVars, Domains
<1>6. toClient[c] \in Seq(Answers(f, d)) /\ (session[c] # NoSession => Collects(c, f, n))
  BY <1>1 DEF WriteSound
<1>7. ASSUME files[f] = d => files'[f] = d,
             session'[c] # NoSession => Collects(c, f, n)',
             toClient'[c] \in Seq(Answers(f, d)')
      PROVE  WriteSound(c, f, n)'
  BY <1>1, <1>5, <1>7 DEF WriteSound
<1>8. ASSUME files[f] = d => files'[f] = d
      PROVE  /\ toClient[c] \in Seq(Answers(f, d)')
             /\ \A a \in Answers(f, d)' : Append(toClient[c], a) \in Seq(Answers(f, d)')
  <2>1. Answers(f, d) \subseteq Answers(f, d)'
    BY <1>8 DEF Answers
  <2>2. Error \in Answers(f, d)'
    BY DEF Answers
  <2> QED
    BY <1>6, <2>1, <2>2, OneMore
<1>9. CASE session' = session /\ files' = files /\ toClient' = toClient
  <2>1. Collects(c, f, n)' = Collects(c, f, n)
    BY <1>9 DEF Collects
  <2> QED
    BY <1>6, <1>7, <1>8, <1>9, <2>1
<1>10. CASE m.op = "wrq" /\ OnWrq(c, m.file)
  <2>1. m = Wrq(f)
    BY <1>4, <1>10 DEF Blocks, Data
  <2>2. OnWrq(c, f) /\ files' = files
    BY <1>10, <2>1 DEF Wrq, OnWrq
  <2>3. Error \in Answers(f, d)' /\ Ack(0) \in Answers(f, d)'
    BY <1>1, <1>2 DEF Answers
  <2>4. CASE files[f] # NoFile
    <3>1. session'[c] = NoSession /\ toClient'[c] = Append(toClient[c], Error)
      BY <2>2, <2>4 DEF OnWrq, ServerReplies, Domains
    <3> QED
      BY <1>7, <1>8, <2>2, <2>3, <3>1
  <2>5. CASE files[f] = NoFile
    <3>1. /\ session'[c] = [read |-> FALSE, file |-> f, data |-> <<>>]
          /\ toClient'[c] = Append(toClient[c], Ack(0))
      BY <2>2, <2>5 DEF OnWrq, ServerReplies, Domains
    <3>2. Content(c, f, 0 * BlockSize) = <<>> /\ 0 * BlockSize <= n
      BY <1>2, BlockSizeAssumption DEF Content
    <3>3. Collects(c, f, n)'
      BY <2>2, <2>5, <3>1, <3>2 DEF Collects
    <3> QED
      BY <1>7, <1>8, <2>2, <2>3, <3>1, <3>3
  <2> QED
    BY <2>4, <2>5
<1>11. CASE m.op = "data" /\ OnData(c, m)
  <2>1. PICK b \in 1 .. N : m = Data(b, BlockOf(d, b))
    BY <1>1, <1>2, <1>4, <1>11 DEF Blocks, Wrq
  <2>2. m.block = b /\ m.bytes = BlockOf(d, b)
    BY <2>1 DEF Data
  <2>3. CASE \E why : ServerFails(why)
    BY <1>9, <2>3 DEF ServerFails
  <2>4. CASE /\ session[c] # NoSession /\ IsExpected(session[c].data, m.block)
             /\ ~\E why : ServerFails(why)
    <3>1. files[f] = NoFile
      BY <1>6, <2>4 DEF Collects
    <3>2. PICK k \in Nat : /\ k * BlockSize <= n
                           /\ session[c] = [read |-> FALSE, file |-> f,
                                            data |-> Content(c, f, k * BlockSize)]
      BY <1>6, <2>4 DEF Collects
    <3>3. k < N
      BY <1>2, <3>2
    <3>4. Expected(session[c].data) = k + 1
      <4>1. k < UINT16_MAX
        BY <1>2, <3>3
      <4> QED
        BY <3>2, <4>1, ExpectedNext
    <3>5. b = k + 1
      BY <2>2, <2>4, <3>4 DEF IsExpected
    <3> DEFINE data == session[c].data \o m.bytes
    <3>6. IF k + 1 < N
          THEN Len(m.bytes) = BlockSize /\ (k + 1) * BlockSize <= n /\ data = Content(c, f, (k + 1) * BlockSize)
          ELSE Len(m.bytes) < BlockSize /\ k + 1 = N /\ data = d
      <4>1. m.bytes = BlockOf(Content(c, f, n), k + 1)
        BY <1>1, <2>2, <3>5
      <4>2. session[c].data = Content(c, f, k * BlockSize)
        BY <3>2
      <4> DEFINE bytes == BlockOf(Content(c, f, n), k + 1)
                 more == Content(c, f, k * BlockSize) \o bytes
      <4>3. IF k + 1 < block_count(n)
            THEN Len(bytes) = BlockSize /\ (k + 1) * BlockSize <= n /\ more = Content(c, f, (k + 1) * BlockSize)
            ELSE Len(bytes) < BlockSize /\ k + 1 = block_count(n) /\ more = Content(c, f, n)
        BY <3>2, Appended
      <4>4. m.bytes = bytes /\ data = more
        BY <4>1, <4>2
      <4> HIDE DEF bytes, more, data
      <4> QED
        BY <1>1, <4>3, <4>4
    <3>7. session[c].file = f
      BY <3>2
    <3>8. /\ toClient' = [toClient EXCEPT ![c] = Append(@, Ack(k + 1))]
          /\ IF Len(m.bytes) < BlockSize
             THEN /\ files' = IF files[f] = NoFile THEN [files EXCEPT ![f] = data] ELSE files
                  /\ session' = [session EXCEPT ![c] = NoSession]
             ELSE /\ session' = [session EXCEPT ![c].data = data]
                  /\ UNCHANGED files
      BY <1>11, <2>4, <3>4, <3>7 DEF OnData, ServerReplies
    <3> HIDE DEF data
    <3>9. toClient'[c] = Append(toClient[c], Ack(k + 1))
      BY <3>8 DEF Domains
    <3>10. CASE k + 1 < N
      <4>1. ~(Len(m.bytes) < BlockSize)
        BY <3>6, <3>10, BlockSizeAssumption
      <4>2. files' = files /\ session'[c] = [read |-> FALSE, file |-> f, data |-> data]
        BY <3>2, <3>8, <4>1 DEF Domains
      <4>3. Collects(c, f, n)'
        <5>1. k + 1 \in Nat
          OBVIOUS
        <5> QED
          BY <3>1, <3>6, <3>10, <4>2, <5>1 DEF Collects
      <4>4. Ack(k + 1) \in Answers(f, d)'
        BY <1>1, <1>2, <3>10 DEF Answers
      <4> QED
        BY <1>7, <1>8, <3>9, <4>2, <4>3, <4>4
    <3>11. CASE ~(k + 1 < N)
      <4>1. files' = [files EXCEPT ![f] = d] /\ session' = [session EXCEPT ![c] = NoSession]
        BY <3>1, <3>6, <3>8, <3>11
      <4>2. session'[c] = NoSession /\ files'[f] = d
        BY <4>1 DEF Domains
      <4>3. Ack(k + 1) \in Answers(f, d)'
        BY <1>1, <1>2, <3>6, <3>11, <4>2 DEF Answers
      <4> QED
        BY <1>7, <1>8, <3>9, <4>2, <4>3
    <3> QED
      BY <3>10, <3>11
  <2> QED
    BY <1>11, <2>3, <2>4 DEF OnData
<1>12. m.op \in {"wrq", "data"}
  BY <1>4 DEF Blocks, Data, Wrq
<1> QED
  BY <1>3, <1>9, <1>10, <1>11, <1>12 DEF m, serverVars

\* The writer takes a datagram.
LEMMA WriteAtClient ==
    ASSUME Domains, NEW c \in Clients, NEW f \in Files, NEW n \in WriteSizes, WriteSound(c, f, n),
           ClientReceive(c)
    PROVE  WriteSound(c, f, n)'
<1>1. PICK d, N : d = Content(c, f, n) /\ N = block_count(n)
  OBVIOUS
<1>2. n \in Nat /\ N \in 1 .. UINT16_MAX /\ Len(d) = n /\ UINT16_MAX \in Nat
  BY <1>1, WriteFacts
<1>3. client[c] \in Writers(f, d) /\ (client[c].last = N => files[f] = d)
  BY <1>1 DEF WriteSound
<1>4. client[c].op = "write" /\ Count(c) = N
  BY <1>1, <1>2, <1>3 DEF Count, Writers
<1>5. PICK i \in Deliverable(toClient[c]) :
        toClient' = [toClient EXCEPT ![c] = RemoveAt(@, i)] /\ WriterIn(c, toClient[c][i])
  BY <1>4 DEF ClientReceive
<1> DEFINE m == toClient[c][i]
<1>6. m \in Answers(f, d) /\ RemoveAt(toClient[c], i) \in Seq(Answers(f, d))
  <2>1. i \in DOMAIN toClient[c] /\ toClient[c] \in Seq(Answers(f, d))
    BY <1>1 DEF Deliverable, WriteSound
  <2> QED
    BY <2>1, Removed
<1> HIDE DEF m
<1>7. session' = session /\ files' = files
  BY DEF ClientReceive, serverVars
<1>8. toClient'[c] \in Seq(Answers(f, d)')
  <2>1. Answers(f, d)' = Answers(f, d)
    BY <1>7 DEF Answers
  <2> QED
    BY <1>5, <1>6, <2>1 DEF Domains
<1>9. (session'[c] # NoSession => Collects(c, f, n)') /\ toServer[c] \in Seq({Wrq(f)} \cup Blocks(d))
  BY <1>1, <1>7 DEF WriteSound, Collects
<1>10. CASE client' = client /\ toServer' = toServer
  BY <1>1, <1>3, <1>7, <1>8, <1>9, <1>10 DEF WriteSound
<1>11. CASE /\ m.op = "ack" /\ m.block <= N
            /\ client' = [client EXCEPT ![c].last = m.block]
            /\ IF m.block < N THEN SendDataAfter(c, m.block) ELSE UNCHANGED toServer
  <2>1. m.block \in 0 .. N /\ (m.block = N => files[f] = d)
    <3>1. m # Error
      BY <1>11 DEF Error
    <3>2. PICK k \in 0 .. N : m = Ack(k) /\ (k = N => files[f] = d)
      BY <1>1, <1>2, <1>6, <3>1 DEF Answers
    <3>3. m.block = k
      BY <3>2 DEF Ack
    <3> QED
      BY <3>2, <3>3
  <2>2. client'[c] = [client[c] EXCEPT !.last = m.block]
    BY <1>11 DEF Domains
  <2>3. client'[c] \in Writers(f, d) /\ client'[c].last = m.block
    <3>1. m.block \in 0 .. UINT16_MAX
      BY <1>2, <2>1
    <3> QED
      BY <1>3, <2>2, <3>1 DEF Writers
  <2>4. toServer'[c] \in Seq({Wrq(f)} \cup Blocks(d))
    <3>1. CASE m.block < N
      <4>1. m.block + 1 \in 1 .. N
        BY <1>2, <2>1, <3>1
      <4>2. Data(m.block + 1, BlockOf(d, m.block + 1)) \in Blocks(d)
        BY <1>1, <1>2, <4>1 DEF Blocks
      <4>3. toServer'[c] = Append(toServer[c], Data(m.block + 1, BlockOf(d, m.block + 1)))
        BY <1>3, <1>11, <3>1 DEF SendDataAfter, ClientSends, Domains, Writers
      <4> QED
        BY <1>9, <4>2, <4>3, OneMore
    <3>2. CASE ~(m.block < N)
      BY <1>9, <1>11, <3>2
    <3> QED
      BY <3>1, <3>2
  <2> QED
    BY <1>1, <1>7, <1>8, <1>9, <2>1, <2>3, <2>4 DEF WriteSound
<1> QED
  BY <1>4, <1>5, <1>10, <1>11 DEF m, WriterIn, ClientFails

\* The writer times out.
LEMMA WriteTimeout ==
    ASSUME Domains, NEW c \in Clients, NEW f \in Files, NEW n \in WriteSizes, WriteSound(c, f, n),
           block_count(n) # no_acks, Timeout(c)
    PROVE  WriteSound(c, f, n)'
<1>1. PICK d, N : d = Content(c, f, n) /\ N = block_count(n)
  OBVIOUS
<1>2. n \in Nat /\ N \in 1 .. UINT16_MAX /\ Len(d) = n /\ UINT16_MAX \in Nat
  BY <1>1, WriteFacts
<1>3. client[c] \in Writers(f, d) /\ (client[c].last = N => files[f] = d)
  BY <1>1 DEF WriteSound
<1>4. client[c].op = "write" /\ Count(c) = N
  BY <1>1, <1>2, <1>3 DEF Count, Writers
<1>5. session' = session /\ files' = files /\ toClient' = toClient
  BY DEF Timeout, serverVars
<1>6. /\ session'[c] # NoSession => Collects(c, f, n)'
      /\ toServer[c] \in Seq({Wrq(f)} \cup Blocks(d))
      /\ toClient'[c] \in Seq(Answers(f, d)')
  BY <1>1, <1>5 DEF WriteSound, Collects, Answers
<1>7. CASE send_wrq(c, f, d)
  <2>1. client'[c] = [op |-> "write", file |-> f, data |-> d, last |-> no_acks, done |-> FALSE]
    BY <1>7 DEF send_wrq, Domains
  <2>2. client'[c] \in Writers(f, d) /\ client'[c].last # N
    <3>1. no_acks \in 0 .. UINT16_MAX /\ no_acks # N
      BY <1>1, <1>2 DEF no_acks
    <3> QED
      BY <2>1, <3>1 DEF Writers
  <2>3. toServer'[c] = Append(toServer[c], Wrq(f))
    BY <1>7 DEF send_wrq, ClientSends, Domains
  <2>4. toServer'[c] \in Seq({Wrq(f)} \cup Blocks(d))
    BY <1>6, <2>3, OneMore
  <2> QED
    BY <1>1, <1>6, <2>2, <2>4 DEF WriteSound
<1>8. CASE client[c].last < N /\ SendDataAfter(c, client[c].last) /\ client' = client
  <2> DEFINE l == client[c].last
  <2>0. l \in 0 .. UINT16_MAX /\ client[c].data = d
    BY <1>3 DEF Writers
  <2>1. l + 1 \in 1 .. N
    BY <1>2, <1>8, <2>0
  <2>2. Data(l + 1, BlockOf(d, l + 1)) \in Blocks(d)
    BY <1>1, <1>2, <2>1 DEF Blocks
  <2>3. toServer'[c] = Append(toServer[c], Data(l + 1, BlockOf(d, l + 1)))
    BY <1>8, <2>0 DEF SendDataAfter, ClientSends, Domains
  <2>4. toServer'[c] \in Seq({Wrq(f)} \cup Blocks(d))
    BY <1>6, <2>2, <2>3, OneMore
  <2> QED
    BY <1>1, <1>3, <1>5, <1>6, <1>8, <2>4 DEF WriteSound
<1>9. WriterTimeout(c)
  BY <1>4 DEF Timeout
<1> QED
  BY <1>3, <1>4, <1>7, <1>8, <1>9 DEF WriterTimeout, clientVars, Writers

\* The network loses or repeats a datagram of the write.
LEMMA WriteOnTheWay ==
    ASSUME Domains, NEW c \in Clients, NEW f \in Files, NEW n \in WriteSizes, WriteSound(c, f, n),
           Lose(c) \/ Duplicate(c)
    PROVE  WriteSound(c, f, n)'
<1>1. PICK d : d = Content(c, f, n)
  OBVIOUS
<1>2. client' = client /\ session' = session /\ files' = files
  BY DEF Lose, Duplicate, clientVars, serverVars
<1>3. Answers(f, d)' = Answers(f, d) /\ Collects(c, f, n)' = Collects(c, f, n)
  BY <1>2 DEF Answers, Collects
<1>4. toServer[c] \in Seq({Wrq(f)} \cup Blocks(d)) /\ toClient[c] \in Seq(Answers(f, d))
  BY <1>1 DEF WriteSound
<1>5. ASSUME NEW S, NEW s \in Seq(S)
      PROVE  /\ \A i \in DOMAIN s : RemoveAt(s, i) \in Seq(S)
             /\ \A m \in Range(s) : Append(s, m) \in Seq(S)
  <2>1. \A m \in Range(s) : m \in S
    BY DEF Range
  <2> QED
    BY <2>1, Removed
<1>6. toServer'[c] \in Seq({Wrq(f)} \cup Blocks(d)) /\ toClient'[c] \in Seq(Answers(f, d))
  <2>1. CASE Lose(c)
    <3>1. CASE \E i \in DOMAIN toServer[c] : /\ toServer' = [toServer EXCEPT ![c] = RemoveAt(@, i)]
                                            /\ UNCHANGED toClient
      BY <1>4, <1>5, <3>1 DEF Domains
    <3>2. CASE \E i \in DOMAIN toClient[c] : /\ toClient' = [toClient EXCEPT ![c] = RemoveAt(@, i)]
                                            /\ UNCHANGED toServer
      BY <1>4, <1>5, <3>2 DEF Domains
    <3> QED
      BY <2>1, <3>1, <3>2 DEF Lose
  <2>2. CASE Duplicate(c)
    <3>1. CASE \E m \in Range(toServer[c]) : /\ toServer' = [toServer EXCEPT ![c] = Append(@, m)]
                                            /\ UNCHANGED toClient
      BY <1>4, <1>5, <3>1 DEF Domains
    <3>2. CASE \E m \in Range(toClient[c]) : /\ toClient' = [toClient EXCEPT ![c] = Append(@, m)]
                                            /\ UNCHANGED toServer
      BY <1>4, <1>5, <3>2 DEF Domains
    <3> QED
      BY <2>2, <3>1, <3>2 DEF Duplicate, ClientSends, ServerReplies
  <2> QED
    BY <2>1, <2>2
<1> QED
  BY <1>1, <1>2, <1>3, <1>6 DEF WriteSound

\* Nothing happens to a client that has never done anything, until it begins.
LEMMA UntouchedStays ==
    ASSUME NEW c \in Clients, Untouched(c), GoesOn(c)
    PROVE  FALSE
<1>1. Deliverable(toServer[c]) = {} /\ Deliverable(toClient[c]) = {} /\ DOMAIN toServer[c] = {}
      /\ DOMAIN toClient[c] = {} /\ Range(toServer[c]) = {} /\ Range(toClient[c]) = {}
  BY DEF Untouched, Deliverable, Range
<1>2. ~Active(c)
  BY DEF Untouched, Active
<1> QED
  BY <1>1, <1>2 DEF GoesOn, ClientReceive, Timeout, Finish, Abort, ServerReceive, Lose, Duplicate

\* The invariant of a transfer on its own.
LEMMA AloneInit == ASSUME Init PROVE AloneSound
<1>1. Domains
  BY DEF Init, Domains, Kinds
<1>2. \A c \in Clients : Untouched(c) /\ client[c] = Idle
  BY DEF Init, Untouched, Idle
<1> QED
  BY <1>1, <1>2 DEF AloneSound, Idle

\* Only the client that writes takes a step, and its transfer stays sound.
LEMMA AloneStep == ASSUME Alone, AloneSound, [Next]_vars PROVE AloneSound'
<1>1. CASE UNCHANGED vars
  <2>1. /\ client' = client /\ failed' = failed /\ session' = session /\ files' = files
        /\ toServer' = toServer /\ toClient' = toClient /\ faults' = faults
    BY <1>1 DEF vars
  <2>2. ASSUME NEW c \in Clients, NEW f \in Files, NEW n \in WriteSizes, WriteSound(c, f, n)
        PROVE  WriteSound(c, f, n)'
    <3>1. PICK d : d = Content(c, f, n)
      OBVIOUS
    <3>2. Collects(c, f, n)' = Collects(c, f, n) /\ Answers(f, d)' = Answers(f, d)
      BY <2>1 DEF Collects, Answers
    <3> QED
      BY <2>1, <2>2, <3>1, <3>2 DEF WriteSound
  <2>3. \A c \in Clients : Untouched(c) => Untouched(c)'
    BY <2>1 DEF Untouched
  <2>4. Domains'
    BY <2>1 DEF AloneSound, Domains
  <2> QED
    BY <2>1, <2>2, <2>3, <2>4 DEF AloneSound
<1>2. ASSUME NEW c \in Clients, GoesOn(c) \/ Begins(c)
      PROVE  /\ OnlyOf(c) /\ Domains'
             /\ \A b \in Clients \ {c} : Untouched(b) => Untouched(b)'
  <2>1. Domains
    BY DEF AloneSound
  <2>2. OnlyOf(c) /\ Domains'
    BY <1>2, <2>1, ServerFrame, ClientFrame
  <2> QED
    BY <2>2 DEF OnlyOf, Untouched
<1>3. ASSUME NEW c \in Clients, Begins(c) PROVE AloneSound'
  <2>1. OnlyOf(c) /\ Domains' /\ Domains /\ \A b \in Clients \ {c} : Untouched(b) => Untouched(b)'
    BY <1>2, <1>3 DEF AloneSound
  <2>2. faults.ops = 0 /\ faults'.ops = 1
    <3>1. faults.ops < MaxOps /\ faults' = [faults EXCEPT !.ops = @ + 1]
      BY <1>3 DEF Begins, StartRead, StartWrite, Spend
    <3>2. faults.ops \in Nat /\ MaxOps \in Nat /\ MaxOps <= 1
      BY <2>1, FaultAssumption DEF Domains, Kinds, Alone
    <3>3. faults'.ops = faults.ops + 1
      BY <2>1, <3>1 DEF Domains, Kinds
    <3> QED
      BY <3>1, <3>2, <3>3
  <2>3. \A b \in Clients : Untouched(b)
    BY <2>2 DEF AloneSound
  <2>4. ASSUME NEW b \in Clients \ {c} PROVE client'[b].op = "idle" /\ DOMAIN client'[b] = DOMAIN Idle
    BY <2>1, <2>3 DEF OnlyOf, Untouched, AloneSound
  <2>5. PICK f \in Files : StartRead(c, f) \/ \E n \in WriteSizes : StartWrite(c, f, n)
    BY <1>3 DEF Begins
  <2>6. CASE StartRead(c, f)
    <3>1. client'[c].op = "read" /\ DOMAIN client'[c] = DOMAIN Idle
      BY <2>1, <2>6 DEF StartRead, send_rrq, Domains, Idle
    <3> QED
      BY <2>1, <2>2, <2>4, <3>1 DEF AloneSound
  <2>7. ASSUME NEW n \in WriteSizes, StartWrite(c, f, n) PROVE AloneSound'
    <3>1. PICK d : d = Content(c, f, n)
      OBVIOUS
    <3>2. /\ client'[c] = [op |-> "write", file |-> f, data |-> d, last |-> no_acks, done |-> FALSE]
          /\ toServer'[c] = Append(toServer[c], Wrq(f))
          /\ session' = session /\ toClient' = toClient
      BY <2>1, <2>7, <3>1 DEF StartWrite, send_wrq, ClientSends, serverVars, Domains
    <3>3. client'[c] \in Writers(f, d) /\ client'[c].last # block_count(n)
      <4>1. no_acks \in 0 .. UINT16_MAX /\ no_acks # block_count(n)
        BY WriteFacts DEF no_acks, Alone
      <4> QED
        BY <3>2, <4>1 DEF Writers
    <3>4. toServer'[c] \in Seq({Wrq(f)} \cup Blocks(d))
      <4>1. toServer[c] = <<>>
        BY <2>3 DEF Untouched
      <4> QED
        BY <3>2, <4>1, OneMore
    <3>5. session'[c] = NoSession /\ toClient'[c] \in Seq(Answers(f, d)')
      <4>1. session'[c] = NoSession /\ toClient'[c] = <<>>
        BY <2>3, <3>2 DEF Untouched
      <4> QED
        BY <4>1
    <3>6. WriteSound(c, f, n)'
      BY <3>1, <3>2, <3>3, <3>4, <3>5 DEF WriteSound
    <3>7. client'[c].op = "write" /\ DOMAIN client'[c] = DOMAIN Idle
      BY <3>2 DEF Idle
    <3> QED
      BY <2>1, <2>2, <2>3, <2>4, <3>6, <3>7 DEF AloneSound
  <2> QED
    BY <2>5, <2>6, <2>7
<1>4. ASSUME NEW c \in Clients, GoesOn(c) PROVE AloneSound'
  <2>1. OnlyOf(c) /\ Domains' /\ Domains /\ \A b \in Clients \ {c} : Untouched(b) => Untouched(b)'
    BY <1>2, <1>4 DEF AloneSound
  <2>2. ~Untouched(c)
    BY <1>4, UntouchedStays
  <2>3. faults'.ops # 0
    <3>1. faults'.ops = faults.ops
      BY <1>4, <2>1 DEF GoesOn, ClientReceive, Timeout, Finish, Abort, ServerReceive, Lose, Duplicate,
                        Spend, Domains, Kinds
    <3> QED
      BY <2>2, <3>1 DEF AloneSound
  <2>4. client[c].op \in {"idle", "read", "write"} /\ DOMAIN client[c] = DOMAIN Idle
    BY DEF AloneSound
  <2>5. /\ client'[c].op \in {client[c].op, "idle"} /\ DOMAIN client'[c] = DOMAIN Idle
    <3>1. \/ client' = client
          \/ client' = [client EXCEPT ![c] = Idle]
          \/ \E x, y, z : client' = [client EXCEPT ![c].data = x, ![c].last = y, ![c].done = z]
          \/ \E y : client' = [client EXCEPT ![c].last = y]
          \/ client[c].op = "read" /\ send_rrq(c, client[c].file)
          \/ client[c].op = "write" /\ send_wrq(c, client[c].file, client[c].data)
      <4>1. CASE ClientReceive(c)
        <5>1. PICK m : client' = client \/ ReaderIn(c, m) \/ WriterIn(c, m)
          BY <4>1 DEF ClientReceive, clientVars
        <5>2. CASE ReaderIn(c, m)
          <6>1. \/ client' = client
                \/ client' = [client EXCEPT ![c].data = client[c].data \o m.bytes, ![c].last = m.block,
                                            ![c].done = client[c].done \/ Len(m.bytes) # BlockSize]
            BY <5>2 DEF ReaderIn, ClientFails
          <6> QED
            BY <6>1
        <5>3. CASE WriterIn(c, m)
          BY <5>3 DEF WriterIn, ClientFails
        <5> QED
          BY <5>1, <5>2, <5>3
      <4>2. CASE Timeout(c)
        BY <4>2 DEF Timeout, ReaderTimeout, WriterTimeout, ClientFails, clientVars
      <4>3. CASE Finish(c) \/ Abort(c)
        BY <4>3 DEF Finish, Abort
      <4>4. CASE ServerReceive(c) \/ Lose(c) \/ Duplicate(c)
        BY <4>4 DEF ServerReceive, Lose, Duplicate, clientVars
      <4> QED
        BY <1>4, <4>1, <4>2, <4>3, <4>4 DEF GoesOn
    <3>2. CASE client[c].op = "read" /\ send_rrq(c, client[c].file)
      BY <2>1, <3>2 DEF send_rrq, Domains, Idle
    <3>3. CASE client[c].op = "write" /\ send_wrq(c, client[c].file, client[c].data)
      BY <2>1, <3>3 DEF send_wrq, Domains, Idle
    <3>4. CASE client' = client \/ client' = [client EXCEPT ![c] = Idle]
      BY <2>1, <2>4, <3>4 DEF Domains, Idle
    <3>5. ASSUME NEW y, client' = [client EXCEPT ![c].last = y]
          PROVE  client'[c].op = client[c].op /\ DOMAIN client'[c] = DOMAIN client[c]
      <4>1. client'[c] = [client[c] EXCEPT !.last = y]
        BY <2>1, <3>5 DEF Domains
      <4>2. "op" \in DOMAIN client[c]
        BY <2>4 DEF Idle
      <4> QED
        BY <4>1, <4>2
    <3>6. ASSUME NEW x, NEW y, NEW z,
                 client' = [client EXCEPT ![c].data = x, ![c].last = y, ![c].done = z]
          PROVE  client'[c].op = client[c].op /\ DOMAIN client'[c] = DOMAIN client[c]
      <4>1. client'[c] = [client[c] EXCEPT !.data = x, !.last = y, !.done = z]
        BY <2>1, <3>6 DEF Domains
      <4>2. "op" \in DOMAIN client[c]
        BY <2>4 DEF Idle
      <4> QED
        BY <4>1, <4>2
    <3> QED
      <4>1. CASE \E x, y, z : client' = [client EXCEPT ![c].data = x, ![c].last = y, ![c].done = z]
        <5>1. client'[c].op = client[c].op /\ DOMAIN client'[c] = DOMAIN client[c]
          BY <3>6, <4>1
        <5> QED
          BY <2>4, <5>1
      <4>2. CASE \E y : client' = [client EXCEPT ![c].last = y]
        <5>1. client'[c].op = client[c].op /\ DOMAIN client'[c] = DOMAIN client[c]
          BY <3>5, <4>2
        <5> QED
          BY <2>4, <5>1
      <4> QED
        BY <3>1, <3>2, <3>3, <3>4, <4>1, <4>2
  <2>6. ASSUME NEW b \in Clients, client'[b].op = "write"
        PROVE  /\ \E f \in Files, n \in WriteSizes : WriteSound(b, f, n)'
               /\ \A a \in Clients \ {b} : Untouched(a)'
    <3>1. b = c
      <4>1. CASE b # c
        <5>1. client[b].op = "write"
          BY <2>1, <2>6, <4>1 DEF OnlyOf
        <5> QED
          BY <2>2, <4>1, <5>1 DEF AloneSound
      <4> QED
        BY <4>1
    <3>2. client[c].op = "write"
      BY <2>5, <2>6, <3>1
    <3>3. PICK f \in Files, n \in WriteSizes : WriteSound(c, f, n)
      BY <3>2 DEF AloneSound
    <3>4. WriteSound(c, f, n)'
      <4>1. ~Finish(c) /\ ~Abort(c)
        BY <2>1, <2>6, <3>1 DEF Finish, Abort, Idle, Domains
      <4>2. block_count(n) # no_acks
        BY DEF Alone
      <4> QED
        BY <1>4, <2>1, <3>3, <4>1, <4>2, WriteAtServer, WriteAtClient, WriteTimeout, WriteOnTheWay DEF GoesOn
    <3> QED
      BY <2>1, <3>1, <3>2, <3>4 DEF AloneSound
  <2>7. \A b \in Clients : client'[b].op \in {"idle", "read", "write"} /\ DOMAIN client'[b] = DOMAIN Idle
    BY <2>1, <2>4, <2>5 DEF OnlyOf, AloneSound
  <2> QED
    BY <2>1, <2>3, <2>6, <2>7 DEF AloneSound
<1> QED
  BY <1>1, <1>3, <1>4 DEF Next, GoesOn, Begins

\* However the network and the user interfere with a transfer: if its writer
\* is done then the server's file is what was written, for every size of file
\* and block (tftp_writer::is_done, tftps.cpp got_data).
THEOREM WriteCorrect == Alone => (Spec => []DoneMeansWritten)
<1> SUFFICES ASSUME Alone PROVE Spec => []DoneMeansWritten
  OBVIOUS
<1>1. Init => AloneSound
  BY AloneInit
<1>2. AloneSound /\ [Next]_vars => AloneSound'
  BY AloneStep
<1>3. AloneSound => DoneMeansWritten
  <2> SUFFICES ASSUME AloneSound, NEW c \in Clients, client[c].op = "write", is_done(c)
               PROVE  files[client[c].file] = client[c].data
    BY DEF DoneMeansWritten
  <2>1. PICK f \in Files, n \in WriteSizes : WriteSound(c, f, n)
    BY DEF AloneSound
  <2>2. Len(Content(c, f, n)) = n
    BY WriteFacts
  <2> QED
    BY <2>1, <2>2 DEF WriteSound, is_done, Count, Writers
<1> QED
  BY <1>1, <1>2, <1>3, PTL DEF Spec

-------------------------------------------------------------------------------
(***************************************************************************)
(* Transfers that nothing disturbs but the losses that a timeout repairs.  *)
(***************************************************************************)

\* Datagrams come in their order and once, a timeout only if nothing is on
\* its way, nobody gives up, and no file has the size at which the writer
\* takes "no block acknowledged yet" for the number of the last block.
Undisturbed ==
    /\ ~Reorder /\ ~LoseAny /\ MaxDup = 0 /\ MaxEarly = 0 /\ MaxAbort = 0
    /\ \A n \in WriteSizes : block_count(n) # no_acks

\* What a file may hold.
LegalData == {d \in Seq(Bytes) : legal_size(Len(d))}

\* The server sends a file to client c, or has k blocks of one from it.
Served(c) == session[c] \in [read : {TRUE}, file : Files, data : LegalData]

Stores(c, k) ==
    session[c] \in [read : {FALSE}, file : {client[c].file},
                    data : {Content(c, client[c].file, k * BlockSize)}]

\* What may be left from a transfer that is over: its last acknowledgement.
Left(c) == {<<>>} \cup (IF Served(c) THEN {<<Ack(SessionCount(c))>>} ELSE {})

\* Client c has asked and has no answer yet.
Waits(c, request) ==
    \/ /\ client[c].op = "read" /\ client[c].last = 0 /\ ~client[c].done
       /\ request = Rrq(client[c].file)
    \/ /\ client[c].op = "write" /\ client[c].last = no_acks
       /\ request = Wrq(client[c].file)

\* The situations of a client, its session and the datagrams between them:
\* at most one is on its way, behind the one that is left.
Resting(c) ==
    /\ \/ client[c].op = "idle"
       \/ client[c].op = "read" /\ client[c].done
    /\ toServer[c] \in Left(c) /\ toClient[c] = <<>>

Asking(c) ==
    \E request : /\ Waits(c, request) /\ toClient[c] = <<>>
                 /\ toServer[c] \in Left(c) \cup {Append(s, request) : s \in Left(c)}

Refused(c) ==
    (\E request : Waits(c, request)) /\ toServer[c] = <<>> /\ toClient[c] = <<Error>>

Fetching(c) ==
    LET k == client[c].last IN
    /\ client[c].op = "read" /\ ~client[c].done /\ Served(c)
    /\ k < SessionCount(c)
    /\ \/ /\ toServer[c] = <<>>
          /\ toClient[c] = <<Data(k + 1, BlockOf(session[c].data, k + 1))>>
       \/ k # 0 /\ toServer[c] = <<Ack(k)>> /\ toClient[c] = <<>>

Storing(c) ==
    \E k \in 0 .. UINT16_MAX :
      /\ client[c].op = "write" /\ Stores(c, k) /\ k < Count(c)
      /\ \/ /\ client[c].last = (IF k = 0 THEN no_acks ELSE k - 1)
            /\ toServer[c] = <<>> /\ toClient[c] = <<Ack(k)>>
         \/ /\ client[c].last = k /\ toClient[c] = <<>>
            /\ toServer[c] \in {<<>>, <<Data(k + 1, BlockOf(client[c].data, k + 1))>>}

Stored(c) ==
    /\ client[c].op = "write" /\ toServer[c] = <<>>
    /\ \/ client[c].last = Count(c) - 1 /\ toClient[c] = <<Ack(Count(c))>>
       \/ client[c].last = Count(c) /\ toClient[c] = <<>>

Situation(c) ==
    \/ failed[c] = "error reply" /\ toServer[c] = <<>> /\ toClient[c] = <<>>
    \/ /\ failed[c] = "no"
       /\ Resting(c) \/ Asking(c) \/ Refused(c) \/ Fetching(c) \/ Storing(c) \/ Stored(c)

\* A client's record.
Ordered(c) ==
    /\ client[c] \in Transfers
    /\ client[c].op # "idle" => client[c].file \in Files
    /\ client[c].op = "write" => Writing(c) /\ ~client[c].done

FilesLegal == \A f \in Files : files[f] = NoFile \/ files[f] \in LegalData

UndisturbedSound ==
    /\ Domains /\ FilesLegal /\ serverDown = "no"
    /\ \A c \in Clients : Ordered(c) /\ Situation(c)

\* A list without one of its elements.
LEMMA RemovedOne ==
    ASSUME NEW S, NEW s \in Seq(S), NEW i \in 1 .. Len(s)
    PROVE  /\ RemoveAt(s, i) \in Seq(S) /\ Len(RemoveAt(s, i)) = Len(s) - 1
           /\ \A j \in 1 .. Len(s) - 1 : RemoveAt(s, i)[j] = IF j < i THEN s[j] ELSE s[j + 1]
<1> DEFINE left == SubSeq(s, 1, i - 1)
           right == SubSeq(s, i + 1, Len(s))
<1>1. left \in Seq(S) /\ Len(left) = i - 1 /\ \A j \in 1 .. i - 1 : left[j] = s[j]
  OBVIOUS
<1>2. right \in Seq(S) /\ Len(right) = Len(s) - i /\ \A j \in 1 .. Len(s) - i : right[j] = s[i + j]
  OBVIOUS
<1>3. RemoveAt(s, i) = left \o right
  BY DEF RemoveAt
<1> HIDE DEF left, right
<1>4. /\ left \o right \in Seq(S) /\ Len(left \o right) = Len(left) + Len(right)
      /\ \A j \in 1 .. Len(left) + Len(right) :
           (left \o right)[j] = IF j <= Len(left) THEN left[j] ELSE right[j - Len(left)]
  BY <1>1, <1>2, ConcatProperties
<1>5. Len(left) + Len(right) = Len(s) - 1
  BY <1>1, <1>2
<1>6. ASSUME NEW j \in 1 .. Len(s) - 1
      PROVE  (left \o right)[j] = IF j < i THEN s[j] ELSE s[j + 1]
  <2>1. CASE j < i
    BY <1>1, <1>4, <1>5, <2>1
  <2>2. CASE ~(j < i)
    <3>1. (left \o right)[j] = right[j - (i - 1)] /\ j - (i - 1) \in 1 .. Len(s) - i
      BY <1>1, <1>4, <1>5, <2>2
    <3>2. i + (j - (i - 1)) = j + 1
      OBVIOUS
    <3>3. right[j - (i - 1)] = s[i + (j - (i - 1))]
      BY <1>2, <3>1
    <3> QED
      BY <2>2, <3>1, <3>2, <3>3
  <2> QED
    BY <2>1, <2>2
<1> QED
  BY <1>3, <1>4, <1>5, <1>6

\* The same for lists of one and of two.
LEMMA RemovedFew ==
    ASSUME NEW S, NEW s \in Seq(S)
    PROVE  /\ Len(s) = 1 => RemoveAt(s, 1) \in Seq(S) /\ Len(RemoveAt(s, 1)) = 0
           /\ Len(s) = 2 => /\ RemoveAt(s, 1) \in Seq(S) /\ Len(RemoveAt(s, 1)) = 1
                            /\ RemoveAt(s, 1)[1] = s[2]
                            /\ RemoveAt(s, 2) \in Seq(S) /\ Len(RemoveAt(s, 2)) = 1
                            /\ RemoveAt(s, 2)[1] = s[1]
<1>1. CASE Len(s) = 1
  <2>1. 1 \in 1 .. Len(s)
    BY <1>1
  <2> QED
    <3>1. RemoveAt(s, 1) \in Seq(S) /\ Len(RemoveAt(s, 1)) = Len(s) - 1
      BY <2>1, RemovedOne
    <3> QED
      BY <1>1, <3>1
<1>2. CASE Len(s) = 2
  <2>1. 1 \in 1 .. Len(s) /\ 2 \in 1 .. Len(s) /\ 1 \in 1 .. Len(s) - 1
    BY <1>2
  <2>2. /\ RemoveAt(s, 1) \in Seq(S) /\ Len(RemoveAt(s, 1)) = Len(s) - 1
        /\ RemoveAt(s, 1)[1] = s[2]
    BY <2>1, RemovedOne
  <2>3. /\ RemoveAt(s, 2) \in Seq(S) /\ Len(RemoveAt(s, 2)) = Len(s) - 1
        /\ RemoveAt(s, 2)[1] = s[1]
    BY <2>1, RemovedOne
  <2> QED
    BY <1>2, <2>2, <2>3
<1> QED
  BY <1>1, <1>2

\* A list of one datagram.
LEMMA OnlyOne ==
    ASSUME NEW s, NEW m, s = <<m>>
    PROVE  DOMAIN s = {1} /\ s[1] = m /\ s # <<>> /\ RemoveAt(s, 1) = <<>>
<1>1. s \in Seq({m}) /\ Len(s) = 1 /\ DOMAIN s = {1} /\ s[1] = m /\ s # <<>>
  OBVIOUS
<1>2. RemoveAt(s, 1) \in Seq({m}) /\ Len(RemoveAt(s, 1)) = 0
  BY <1>1, RemovedFew, Zenon
<1>3. \A t \in Seq({m}) : Len(t) = 0 => t = <<>>
  BY EmptySeq
<1> QED
  BY <1>1, <1>2, <1>3, Zenon

\* A list of two.
LEMMA OnlyTwo ==
    ASSUME NEW s, NEW a, NEW b, s = <<a, b>>
    PROVE  /\ DOMAIN s = {1, 2} /\ s[1] = a /\ s[2] = b /\ s # <<>>
           /\ RemoveAt(s, 1) = <<b>> /\ RemoveAt(s, 2) = <<a>>
<1>1. /\ s \in Seq({a, b}) /\ Len(s) = 2 /\ DOMAIN s = {1, 2} /\ s[1] = a /\ s[2] = b
      /\ <<a>> \in Seq({a, b}) /\ <<b>> \in Seq({a, b}) /\ Len(<<a>>) = 1 /\ Len(<<b>>) = 1
  OBVIOUS
<1>2. RemoveAt(s, 1) \in Seq({a, b}) /\ Len(RemoveAt(s, 1)) = 1 /\ RemoveAt(s, 1)[1] = b
  BY <1>1, RemovedFew, Zenon
<1>3. RemoveAt(s, 2) \in Seq({a, b}) /\ Len(RemoveAt(s, 2)) = 1 /\ RemoveAt(s, 2)[1] = a
  BY <1>1, RemovedFew, Zenon
<1>4. \A x \in {a, b}, t \in Seq({a, b}) : Len(t) = 1 /\ t[1] = x => t = <<x>>
  OBVIOUS
<1> QED
  BY <1>1, <1>2, <1>3, <1>4, Zenon

\* A list that grows from nothing.
LEMMA Appends ==
    ASSUME NEW s, NEW m, s = <<>>
    PROVE  Append(s, m) = <<m>>
  OBVIOUS

\* A list that grows from one.
LEMMA AppendsBehind ==
    ASSUME NEW s, NEW a, NEW m, s = <<a>>
    PROVE  Append(s, m) = <<a, m>>
<1>1. s \in Seq({a, m}) /\ Len(s) = 1 /\ s[1] = a
  OBVIOUS
<1>2. /\ Append(s, m) \in Seq({a, m}) /\ Len(Append(s, m)) = 2
      /\ Append(s, m)[1] = a /\ Append(s, m)[2] = m
  BY <1>1, AppendProperties
<1>3. \A t \in Seq({a, m}) : Len(t) = 2 /\ t[1] = a /\ t[2] = m => t = <<a, m>>
  OBVIOUS
<1> QED
  BY <1>2, <1>3, Zenon

\* The blocks of a file that the server sends.
LEMMA LegalFacts ==
    ASSUME NEW d \in LegalData
    PROVE  /\ d \in Seq(Bytes) /\ block_count(Len(d)) \in 1 .. UINT16_MAX
           /\ \A k \in Nat : k < block_count(Len(d)) =>
                /\ BlockOf(d, k + 1) \in Seq(Bytes)
                /\ Len(BlockOf(d, k + 1)) # BlockSize <=> k + 1 = block_count(Len(d))
           /\ UINT16_MAX \in Nat /\ UINT16_MAX >= 2
<1>1. d \in Seq(Bytes) /\ legal_size(Len(d)) /\ Len(d) \in Nat /\ BlockSize \in Nat \ {0}
  BY BlockSizeAssumption DEF LegalData
<1>2. UINT16_MAX \in Nat /\ UINT16_MAX >= 2
  BY Uint16Assumption DEF UINT16_MAX
<1>3. PICK N : N = block_count(Len(d))
  OBVIOUS
<1>4. N \in 1 .. UINT16_MAX /\ \A k \in Nat : k < N <=> k * BlockSize <= Len(d)
  BY <1>1, <1>3, CountFacts
<1>5. ASSUME NEW k \in Nat, k < N
      PROVE  /\ BlockOf(d, k + 1) \in Seq(Bytes)
             /\ Len(BlockOf(d, k + 1)) # BlockSize <=> k + 1 = N
  <2>1. /\ BlockOf(d, k + 1) \in Seq(Bytes)
        /\ Len(BlockOf(d, k + 1)) = IF (k + 1) * BlockSize <= Len(d) THEN BlockSize
                                    ELSE Len(d) - k * BlockSize
    BY <1>1, <1>4, <1>5, BlockFacts
  <2>2. k + 1 < N <=> (k + 1) * BlockSize <= Len(d)
    BY <1>4
  <2>3. (k + 1) * BlockSize = k * BlockSize + BlockSize /\ k * BlockSize \in Nat
    BY <1>1
  <2>4. k + 1 <= N /\ N \in Nat
    BY <1>2, <1>4, <1>5
  <2> QED
    BY <1>1, <2>1, <2>2, <2>3, <2>4
<1> QED
  BY <1>1, <1>2, <1>3, <1>4, <1>5

\* What a step of client c has to show.
LEMMA OthersUndisturbed ==
    ASSUME UndisturbedSound, NEW c \in Clients, OnlyOf(c), Domains', FilesLegal', serverDown' = "no",
           Ordered(c)', Situation(c)'
    PROVE  UndisturbedSound'
<1>1. ASSUME NEW x \in Clients \ {c} PROVE Ordered(x)' /\ Situation(x)'
  <2>1. /\ client'[x] = client[x] /\ session'[x] = session[x] /\ failed'[x] = failed[x]
        /\ toServer'[x] = toServer[x] /\ toClient'[x] = toClient[x]
    BY DEF OnlyOf
  <2>2. Ordered(x) /\ Situation(x)
    BY DEF UndisturbedSound
  <2>3. Ordered(x)'
    BY <2>1, <2>2 DEF Ordered, Writing
  <2>4. Served(x)' = Served(x) /\ SessionCount(x)' = SessionCount(x) /\ Count(x)' = Count(x)
    BY <2>1 DEF Served, SessionCount, Count
  <2>5. /\ Left(x)' = Left(x) /\ \A k : Stores(x, k)' = Stores(x, k)
        /\ \A r : Waits(x, r)' = Waits(x, r)
    BY <2>1, <2>4 DEF Left, Stores, Waits
  <2>6. Resting(x) => Resting(x)'
    BY <2>1, <2>5 DEF Resting
  <2>7. Asking(x) => Asking(x)'
    BY <2>1, <2>5 DEF Asking
  <2>8. Refused(x) => Refused(x)'
    BY <2>1, <2>5 DEF Refused
  <2>9. Fetching(x) => Fetching(x)'
    BY <2>1, <2>4 DEF Fetching
  <2>10. Storing(x) => Storing(x)'
    BY <2>1, <2>4, <2>5 DEF Storing
  <2>11. Stored(x) => Stored(x)'
    BY <2>1, <2>4 DEF Stored
  <2> QED
    BY <2>1, <2>2, <2>3, <2>6, <2>7, <2>8, <2>9, <2>10, <2>11 DEF Situation
<1> QED
  BY <1>1 DEF UndisturbedSound

\* The counts of a client's transfer.
LEMMA CountsUndisturbed ==
    ASSUME UndisturbedSound, NEW c \in Clients
    PROVE  /\ client[c] \in Transfers /\ client[c].last \in 0 .. UINT16_MAX
           /\ client[c].done \in BOOLEAN
           /\ UINT16_MAX \in Nat /\ UINT16_MAX >= 2
           /\ client[c].op = "write" =>
                /\ Count(c) \in 1 .. UINT16_MAX /\ ~client[c].done
                /\ Undisturbed => Count(c) # no_acks
           /\ Served(c) => /\ SessionCount(c) \in 1 .. UINT16_MAX
                           /\ session[c].read /\ session[c].data \in LegalData
                           /\ session[c] # NoSession
<1>1. client[c] \in Transfers /\ (client[c].op = "write" => Writing(c) /\ ~client[c].done)
      /\ (client[c].op = "write" => client[c].file \in Files)
  BY DEF UndisturbedSound, Ordered
<1>2. client[c].last \in 0 .. UINT16_MAX /\ client[c].done \in BOOLEAN
  BY <1>1 DEF Transfers
<1>3. UINT16_MAX \in Nat /\ UINT16_MAX >= 2
  BY Uint16Assumption DEF UINT16_MAX
<1>4. ASSUME client[c].op = "write"
      PROVE  Count(c) \in 1 .. UINT16_MAX /\ (Undisturbed => Count(c) # no_acks)
  <2>1. PICK n \in WriteSizes : client[c].data = Content(c, client[c].file, n)
    BY <1>1, <1>4 DEF Writing
  <2>2. Len(client[c].data) = n /\ block_count(n) \in 1 .. UINT16_MAX
    BY <1>1, <1>4, <2>1, WriteFacts
  <2> QED
    BY <2>2 DEF Count, Undisturbed
<1>5. ASSUME Served(c)
      PROVE  /\ SessionCount(c) \in 1 .. UINT16_MAX /\ session[c].read /\ session[c].data \in LegalData
             /\ session[c] # NoSession
  <2>1. session[c].read /\ session[c].data \in LegalData
    BY <1>5 DEF Served
  <2>2. session[c] \in [read : BOOLEAN, file : Files, data : Seq(Bytes)]
    BY <1>5 DEF Served, LegalData
  <2> QED
    BY <2>1, <2>2, LegalFacts, SessionAssumption DEF SessionCount, Bytes
<1> QED
  BY <1>1, <1>2, <1>3, <1>4, <1>5

\* A datagram reaches a client: the one it waits for.
LEMMA ReceiveUndisturbed ==
    ASSUME Undisturbed, UndisturbedSound, NEW c \in Clients, ClientReceive(c)
    PROVE  Ordered(c)' /\ Situation(c)'
<1>1. /\ toClient[c] # <<>> /\ failed[c] = "no"
      /\ toClient'[c] = RemoveAt(toClient[c], 1)
      /\ \/ client[c].op = "idle"
         \/ client[c].op = "read" /\ ReaderIn(c, toClient[c][1])
         \/ client[c].op = "write" /\ WriterIn(c, toClient[c][1])
  <2>1. Deliverable(toClient[c]) \subseteq {1} /\ (toClient[c] = <<>> => Deliverable(toClient[c]) = {})
    BY DEF Deliverable, Undisturbed
  <2>2. DOMAIN toClient = Clients
    BY DEF UndisturbedSound, Domains
  <2> QED
    BY <2>1, <2>2 DEF ClientReceive
<1>2. session' = session
  BY DEF ClientReceive, serverVars
<1>3. Domains /\ Ordered(c) /\ Situation(c)
  BY DEF UndisturbedSound
<1>4. /\ client[c] \in Transfers /\ client[c].last \in 0 .. UINT16_MAX /\ client[c].done \in BOOLEAN
      /\ UINT16_MAX \in Nat /\ UINT16_MAX >= 2
      /\ client[c].op = "write" => Count(c) \in 1 .. UINT16_MAX /\ ~client[c].done /\ Count(c) # no_acks
      /\ Served(c) => SessionCount(c) \in 1 .. UINT16_MAX /\ session[c].data \in LegalData
  BY CountsUndisturbed
<1>5. Served(c)' = Served(c) /\ SessionCount(c)' = SessionCount(c)
  BY <1>2 DEF Served, SessionCount
<1>6. CASE Refused(c)
  <2>1. toClient[c] = <<Error>> /\ toServer[c] = <<>> /\ client[c].op \in {"read", "write"}
    BY <1>6 DEF Refused, Waits
  <2>2. toClient[c][1] = Error /\ toClient'[c] = <<>>
    BY <1>1, <2>1, OnlyOne
  <2>3. ClientFails(c, "error reply")
    <3>1. PICK m : m = toClient[c][1]
      OBVIOUS
    <3>2. m.op = "error"
      BY <2>2, <3>1 DEF Error
    <3>3. ReaderIn(c, m) \/ WriterIn(c, m)
      BY <1>1, <2>1, <3>1
    <3> QED
      BY <3>2, <3>3 DEF ReaderIn, WriterIn
  <2>4. client' = client /\ toServer' = toServer /\ failed'[c] = "error reply"
    BY <1>3, <2>3 DEF ClientFails, Domains
  <2> QED
    BY <1>3, <2>1, <2>2, <2>4 DEF Ordered, Writing, Situation
<1>7. CASE Fetching(c)
  <2> DEFINE k == client[c].last
             bytes == BlockOf(session[c].data, k + 1)
  <2>1. /\ client[c].op = "read" /\ ~client[c].done /\ Served(c) /\ k < SessionCount(c)
        /\ toServer[c] = <<>> /\ toClient[c] = <<Data(k + 1, bytes)>>
    BY <1>1, <1>7 DEF Fetching
  <2>2. /\ k \in Nat /\ k + 1 \in 0 .. UINT16_MAX /\ k + 1 <= SessionCount(c) /\ k + 1 # 0
        /\ SessionCount(c) \in 1 .. UINT16_MAX /\ session[c].data \in LegalData
    BY <1>4, <2>1
  <2>3. bytes \in Seq(Bytes) /\ (Len(bytes) # BlockSize <=> k + 1 = SessionCount(c))
    BY <2>1, <2>2, LegalFacts DEF SessionCount
  <2> HIDE DEF bytes
  <2>4. toClient[c][1] = Data(k + 1, bytes) /\ toClient'[c] = <<>>
    BY <1>1, <2>1, OnlyOne
  <2>5. /\ client' = [client EXCEPT ![c].data = @ \o bytes, ![c].last = k + 1,
                                    ![c].done = @ \/ Len(bytes) # BlockSize]
        /\ ClientSends(c, Ack(k + 1)) /\ failed' = failed
    <3>1. PICK m : m = toClient[c][1]
      OBVIOUS
    <3>2. m.op = "data" /\ m.block = k + 1 /\ m.bytes = bytes
      BY <2>4, <3>1 DEF Data
    <3>3. ReaderIn(c, m)
      BY <1>1, <2>1, <3>1
    <3> QED
      BY <3>2, <3>3 DEF ReaderIn, NextBlock
  <2>6. client'[c] = [client[c] EXCEPT !.data = @ \o bytes, !.last = k + 1,
                                       !.done = @ \/ Len(bytes) # BlockSize]
    BY <1>3, <2>5 DEF Domains
  <2>7. client[c].data \o bytes \in Seq(Bytes)
    BY <1>4, <2>3, ConcatProperties DEF Transfers
  <2>8. /\ client'[c] \in Transfers /\ client'[c].op = "read" /\ client'[c].file = client[c].file
        /\ client'[c].last = k + 1 /\ (client'[c].done <=> k + 1 = SessionCount(c))
    BY <1>4, <2>1, <2>2, <2>3, <2>6, <2>7 DEF Transfers
  <2>9. Ordered(c)'
    BY <1>3, <2>1, <2>8 DEF Ordered
  <2>10. toServer'[c] = <<Ack(k + 1)>>
    BY <1>3, <2>1, <2>5, Appends DEF ClientSends, Domains
  <2>11. CASE k + 1 = SessionCount(c)
    <3>1. Resting(c)'
      BY <1>5, <2>1, <2>4, <2>8, <2>10, <2>11 DEF Resting, Left
    <3> QED
      BY <1>1, <2>5, <2>9, <3>1 DEF Situation
  <2>12. CASE k + 1 # SessionCount(c)
    <3>1. k + 1 < SessionCount(c)
      BY <2>2, <2>12
    <3>2. Fetching(c)'
      BY <1>5, <2>1, <2>2, <2>4, <2>8, <2>10, <2>12, <3>1 DEF Fetching
    <3> QED
      BY <1>1, <2>5, <2>9, <3>2 DEF Situation
  <2> QED
    BY <2>11, <2>12
<1>8. ASSUME NEW k \in 0 .. UINT16_MAX, client[c].op = "write", toServer[c] = <<>>, k <= Count(c),
             toClient[c] = <<Ack(k)>>
      PROVE  /\ Ordered(c)' /\ failed'[c] = "no" /\ client'[c].last = k /\ client'[c].op = "write"
             /\ client'[c].file = client[c].file /\ client'[c].data = client[c].data
             /\ toClient'[c] = <<>>
             /\ toServer'[c] = IF k < Count(c) THEN <<Data(k + 1, BlockOf(client[c].data, k + 1))>>
                               ELSE <<>>
  <2>1. toClient[c][1] = Ack(k) /\ toClient'[c] = <<>>
    BY <1>1, <1>8, OnlyOne
  <2>2. /\ client' = [client EXCEPT ![c].last = k] /\ failed' = failed
        /\ IF k < Count(c) THEN SendDataAfter(c, k) ELSE UNCHANGED toServer
    <3>1. Ack(k).op = "ack" /\ Ack(k).block = k
      BY DEF Ack
    <3>2. ~(k > Count(c))
      BY <1>4, <1>8
    <3> QED
      BY <1>1, <1>8, <2>1, <3>1, <3>2 DEF WriterIn
  <2>3. client'[c] = [client[c] EXCEPT !.last = k]
    BY <1>3, <2>2 DEF Domains
  <2>4. /\ client'[c] \in Transfers /\ client'[c].op = "write" /\ client'[c].last = k
        /\ client'[c].file = client[c].file /\ client'[c].data = client[c].data
        /\ client'[c].done = client[c].done
    BY <1>4, <1>8, <2>3 DEF Transfers
  <2>5. toServer'[c] = IF k < Count(c) THEN <<Data(k + 1, BlockOf(client[c].data, k + 1))>> ELSE <<>>
    BY <1>3, <1>8, <2>2, Appends DEF SendDataAfter, ClientSends, Domains
  <2>6. Ordered(c)'
    BY <1>3, <1>4, <1>8, <2>4 DEF Ordered, Writing
  <2> QED
    BY <1>1, <2>1, <2>2, <2>4, <2>5, <2>6
<1>9. CASE Storing(c)
  <2>1. PICK k \in 0 .. UINT16_MAX : /\ client[c].op = "write" /\ Stores(c, k) /\ k < Count(c)
                                     /\ toServer[c] = <<>> /\ toClient[c] = <<Ack(k)>>
    BY <1>1, <1>9 DEF Storing
  <2>2. k <= Count(c)
    BY <1>4, <2>1
  <2>3. /\ Ordered(c)' /\ failed'[c] = "no" /\ client'[c].last = k /\ client'[c].op = "write"
        /\ client'[c].file = client[c].file /\ client'[c].data = client[c].data
        /\ toClient'[c] = <<>>
        /\ toServer'[c] = <<Data(k + 1, BlockOf(client[c].data, k + 1))>>
    BY <1>8, <2>1, <2>2
  <2>4. Stores(c, k)' /\ Count(c)' = Count(c)
    BY <1>2, <2>1, <2>3 DEF Stores, Count
  <2>5. Storing(c)'
    BY <2>1, <2>3, <2>4 DEF Storing
  <2> QED
    BY <2>3, <2>5 DEF Situation
<1>10. CASE Stored(c)
  <2>1. client[c].op = "write" /\ toServer[c] = <<>> /\ toClient[c] = <<Ack(Count(c))>>
    BY <1>1, <1>10 DEF Stored
  <2>2. Count(c) \in 0 .. UINT16_MAX /\ Count(c) <= Count(c) /\ ~(Count(c) < Count(c))
    BY <1>4, <2>1
  <2>3. /\ Ordered(c)' /\ failed'[c] = "no" /\ client'[c].last = Count(c) /\ client'[c].op = "write"
        /\ client'[c].data = client[c].data
        /\ toClient'[c] = <<>> /\ toServer'[c] = <<>>
    BY <1>8, <2>1, <2>2
  <2>4. Stored(c)'
    BY <2>3 DEF Stored, Count
  <2> QED
    BY <2>3, <2>4 DEF Situation
<1> QED
  BY <1>1, <1>3, <1>6, <1>7, <1>9, <1>10 DEF Situation, Resting, Asking

\* A client begins a transfer.
LEMMA BeginUndisturbed ==
    ASSUME UndisturbedSound, NEW c \in Clients, Begins(c)
    PROVE  Ordered(c)' /\ Situation(c)'
<1>1. Domains /\ Situation(c)
  BY DEF UndisturbedSound
<1>2. PICK f \in Files : StartRead(c, f) \/ \E n \in WriteSizes : StartWrite(c, f, n)
  BY DEF Begins
<1>3. failed[c] = "no" /\ client[c].op = "idle" /\ UNCHANGED <<session, failed, toClient>>
  BY <1>2 DEF StartRead, StartWrite, serverVars, send_rrq, send_wrq
<1>4. toServer[c] \in Left(c) /\ toClient'[c] = <<>>
  BY <1>1, <1>3 DEF Situation, Resting, Asking, Refused, Fetching, Storing, Stored, Waits
<1>5. Left(c)' = Left(c)
  BY <1>3 DEF Left, Served, SessionCount
<1>6. 0 \in 0 .. UINT16_MAX /\ no_acks \in 0 .. UINT16_MAX
  BY Uint16Assumption DEF UINT16_MAX, no_acks
<1>7. CASE StartRead(c, f)
  <2>1. /\ client'[c] = [op |-> "read", file |-> f, data |-> <<>>, last |-> 0, done |-> FALSE]
        /\ toServer'[c] = Append(toServer[c], Rrq(f))
    BY <1>1, <1>7 DEF StartRead, send_rrq, ClientSends, Domains
  <2>2. Ordered(c)'
    BY <1>6, <2>1 DEF Ordered, Transfers
  <2>3. Waits(c, Rrq(f))'
    BY <2>1 DEF Waits
  <2>4. Asking(c)'
    BY <1>4, <1>5, <2>1, <2>3 DEF Asking
  <2> QED
    BY <1>3, <2>2, <2>4 DEF Situation
<1>8. ASSUME NEW n \in WriteSizes, StartWrite(c, f, n) PROVE Ordered(c)' /\ Situation(c)'
  <2>1. PICK d : d = Content(c, f, n)
    OBVIOUS
  <2>2. /\ client'[c] = [op |-> "write", file |-> f, data |-> d, last |-> no_acks, done |-> FALSE]
        /\ toServer'[c] = Append(toServer[c], Wrq(f))
    BY <1>1, <1>8, <2>1 DEF StartWrite, send_wrq, ClientSends, Domains
  <2>3. d \in Seq(Bytes)
    BY <2>1, WriteFacts
  <2>4. Writing(c)'
    BY <2>1, <2>2 DEF Writing
  <2>5. Ordered(c)'
    BY <1>6, <2>2, <2>3, <2>4 DEF Ordered, Transfers
  <2>6. Waits(c, Wrq(f))'
    BY <2>2 DEF Waits
  <2>7. Asking(c)'
    BY <1>4, <1>5, <2>2, <2>6 DEF Asking
  <2> QED
    BY <1>3, <2>5, <2>7 DEF Situation
<1> QED
  BY <1>2, <1>7, <1>8

\* A timeout comes only where a request or a block has been lost.
LEMMA TimeoutUndisturbed ==
    ASSUME Undisturbed, UndisturbedSound, NEW c \in Clients, Timeout(c)
    PROVE  Ordered(c)' /\ Situation(c)'
<1>1. Domains /\ Ordered(c) /\ Situation(c)
  BY DEF UndisturbedSound
<1>2. toServer[c] = <<>> /\ toClient[c] = <<>>
  <2>1. ~Spend("early", MaxEarly)
    BY <1>1 DEF Spend, Undisturbed, Domains, Kinds
  <2> QED
    BY <2>1 DEF Timeout, Quiet
<1>3. /\ failed[c] = "no" /\ ~is_done(c) /\ session' = session /\ toClient' = toClient
      /\ client[c].op \in {"read", "write"}
      /\ client[c].op = "read" => ReaderTimeout(c)
      /\ client[c].op = "write" => WriterTimeout(c)
  BY DEF Timeout, Active, serverVars
<1>4. /\ client[c] \in Transfers /\ client[c].last \in 0 .. UINT16_MAX /\ client[c].done \in BOOLEAN
      /\ UINT16_MAX \in Nat /\ UINT16_MAX >= 2
      /\ client[c].op = "write" => Count(c) \in 1 .. UINT16_MAX /\ ~client[c].done /\ Count(c) # no_acks
  BY CountsUndisturbed
<1>5. client[c].file \in Files
  BY <1>1, <1>3 DEF Ordered
<1>6. Left(c)' = Left(c) /\ <<>> \in Left(c)
  BY <1>3 DEF Left, Served, SessionCount
<1>7. ASSUME NEW request, Waits(c, request) PROVE Ordered(c)' /\ Situation(c)'
  <2>1. CASE client[c].op = "read"
    <3>1. send_rrq(c, client[c].file)
      BY <1>3, <1>7, <2>1 DEF Waits, ReaderTimeout
    <3>2. /\ client'[c] = [op |-> "read", file |-> client[c].file, data |-> <<>>, last |-> 0, done |-> FALSE]
          /\ toServer'[c] = Append(toServer[c], Rrq(client[c].file)) /\ failed' = failed
      BY <1>1, <3>1 DEF send_rrq, ClientSends, Domains
    <3>3. Ordered(c)'
      BY <1>4, <1>5, <3>2 DEF Ordered, Transfers
    <3>4. Waits(c, Rrq(client[c].file))'
      BY <3>2 DEF Waits
    <3>5. Asking(c)'
      BY <1>2, <1>3, <1>6, <3>2, <3>4 DEF Asking
    <3> QED
      BY <1>3, <3>2, <3>3, <3>5 DEF Situation
  <2>2. CASE client[c].op = "write"
    <3>1. send_wrq(c, client[c].file, client[c].data)
      BY <1>3, <1>7, <2>2 DEF Waits, WriterTimeout
    <3>2. /\ client'[c] = [op |-> "write", file |-> client[c].file, data |-> client[c].data,
                           last |-> no_acks, done |-> FALSE]
          /\ toServer'[c] = Append(toServer[c], Wrq(client[c].file)) /\ failed' = failed
      BY <1>1, <3>1 DEF send_wrq, ClientSends, Domains
    <3>3. no_acks \in 0 .. UINT16_MAX /\ client[c].data \in Seq(Bytes)
      BY <1>4 DEF no_acks, Transfers
    <3>4. Writing(c)'
      BY <1>1, <2>2, <3>2 DEF Ordered, Writing
    <3>5. Ordered(c)'
      BY <1>5, <3>2, <3>3, <3>4 DEF Ordered, Transfers
    <3>6. Waits(c, Wrq(client[c].file))'
      BY <3>2 DEF Waits
    <3>7. Asking(c)'
      BY <1>2, <1>3, <1>6, <3>2, <3>6 DEF Asking
    <3> QED
      BY <1>3, <3>2, <3>5, <3>7 DEF Situation
  <2> QED
    BY <1>3, <2>1, <2>2
<1>8. CASE Storing(c)
  <2>1. PICK k \in 0 .. UINT16_MAX : client[c].op = "write" /\ Stores(c, k) /\ k < Count(c) /\ client[c].last = k
    BY <1>2, <1>8, OnlyOne DEF Storing
  <2>2. k # no_acks
    BY <1>4, <2>1 DEF no_acks
  <2>3. SendDataAfter(c, k) /\ client' = client /\ failed' = failed
    BY <1>3, <2>1, <2>2 DEF WriterTimeout, clientVars
  <2>4. toServer'[c] = <<Data(k + 1, BlockOf(client[c].data, k + 1))>>
    BY <1>1, <1>2, <2>3, Appends DEF SendDataAfter, ClientSends, Domains
  <2>5. Stores(c, k)' /\ Count(c)' = Count(c)
    BY <1>3, <2>1, <2>3 DEF Stores, Count
  <2>6. Storing(c)'
    BY <1>2, <1>3, <2>1, <2>3, <2>4, <2>5 DEF Storing
  <2> QED
    BY <1>1, <1>3, <2>3, <2>6 DEF Situation, Ordered, Writing
<1>9. ~Refused(c) /\ ~Fetching(c)
  BY <1>2, OnlyOne DEF Refused, Fetching
<1>10. ~Resting(c)
  BY <1>3 DEF Resting, is_done
<1>11. ~Stored(c)
  BY <1>2, <1>3, OnlyOne DEF Stored, is_done
<1> QED
  BY <1>1, <1>3, <1>7, <1>8, <1>9, <1>10, <1>11 DEF Situation, Asking

\* A transfer that is done leaves at most the last acknowledgement.
LEMMA FinishUndisturbed ==
    ASSUME Undisturbed, UndisturbedSound, NEW c \in Clients, Finish(c)
    PROVE  Ordered(c)' /\ Situation(c)'
<1>1. Domains /\ Ordered(c) /\ Situation(c)
  BY DEF UndisturbedSound
<1>2. /\ failed[c] = "no" /\ client[c].op # "idle" /\ is_done(c)
      /\ UNCHANGED <<session, failed, toServer, toClient>> /\ client'[c] = Idle
  BY <1>1 DEF Finish, Active, serverVars, Domains
<1>3. /\ client[c].last \in 0 .. UINT16_MAX /\ UINT16_MAX \in Nat /\ UINT16_MAX >= 2
      /\ client[c].op = "write" => Count(c) \in 1 .. UINT16_MAX /\ Count(c) # no_acks
      /\ Served(c) => SessionCount(c) \in 1 .. UINT16_MAX
  BY CountsUndisturbed
<1>4. toServer[c] \in Left(c) /\ toClient[c] = <<>>
  <2>1. CASE Resting(c)
    BY <2>1 DEF Resting
  <2>2. CASE Stored(c)
    <3>1. client[c].last = Count(c)
      BY <1>2, <2>2 DEF Stored, is_done
    <3>2. Count(c) # Count(c) - 1
      BY <1>3, <2>2 DEF Stored
    <3> QED
      BY <2>2, <3>1, <3>2 DEF Stored, Left
  <2>3. ~Asking(c) /\ ~Refused(c)
    BY <1>2, <1>3 DEF Asking, Refused, Waits, is_done
  <2>4. ~Fetching(c)
    BY <1>2 DEF Fetching, is_done
  <2>5. CASE Storing(c)
    <3>1. client[c].last = Count(c)
      BY <1>2, <2>5 DEF Storing, is_done
    <3> QED
      BY <1>3, <2>5, <3>1 DEF Storing
  <2> QED
    BY <1>1, <1>2, <2>1, <2>2, <2>3, <2>4, <2>5 DEF Situation
<1>5. Left(c)' = Left(c)
  BY <1>2 DEF Left, Served, SessionCount
<1>6. Resting(c)'
  BY <1>2, <1>4, <1>5 DEF Resting, Idle
<1>7. Ordered(c)'
  BY <1>2, Started DEF Ordered, Idle
<1> QED
  BY <1>2, <1>6, <1>7 DEF Situation

\* A datagram that is lost is one whose sender repeats it, or one that nobody
\* waits for.
LEMMA LossUndisturbed ==
    ASSUME Undisturbed, UndisturbedSound, NEW c \in Clients, Lose(c)
    PROVE  Ordered(c)' /\ Situation(c)'
<1>1. Domains /\ Ordered(c) /\ Situation(c)
  BY DEF UndisturbedSound
<1>2. /\ UNCHANGED <<client, failed, session>>
      /\ \/ /\ toClient' = toClient
            /\ \E i \in DOMAIN toServer[c] : /\ Replaceable(c, toServer[c][i])
                                             /\ toServer'[c] = RemoveAt(toServer[c], i)
         \/ /\ toServer' = toServer
            /\ \E i \in DOMAIN toClient[c] : /\ Replaceable(c, toClient[c][i])
                                             /\ toClient'[c] = RemoveAt(toClient[c], i)
  BY <1>1 DEF Lose, clientVars, serverVars, Undisturbed, Domains
<1>3. DOMAIN <<>> = {}
  OBVIOUS
<1>4. Left(c)' = Left(c) /\ <<>> \in Left(c) /\ \A r : Waits(c, r)' = Waits(c, r)
  BY <1>2 DEF Left, Served, SessionCount, Waits
<1>5. /\ client[c].op = "write" => Count(c) \in 1 .. UINT16_MAX /\ ~client[c].done /\ Count(c) # no_acks
      /\ client[c].last \in 0 .. UINT16_MAX /\ UINT16_MAX \in Nat
  BY CountsUndisturbed
<1>6. Ordered(c)'
  BY <1>1, <1>2 DEF Ordered, Writing
<1>7. ASSUME NEW m, toServer[c] = <<m>>
      PROVE  \/ toServer'[c] = <<>> /\ Replaceable(c, m) /\ toClient'[c] = toClient[c]
             \/ toServer'[c] = toServer[c] /\ \E i \in DOMAIN toClient[c] : toClient'[c] = RemoveAt(toClient[c], i)
  BY <1>2, <1>7, OnlyOne
<1>8. ASSUME NEW m, toClient[c] = <<m>>, toServer[c] = <<>>
      PROVE  toClient'[c] = <<>> /\ Replaceable(c, m) /\ toServer'[c] = <<>>
  BY <1>2, <1>3, <1>8, OnlyOne
<1>9. ASSUME toClient[c] = <<>>
      PROVE  /\ toClient'[c] = <<>>
             /\ \E i \in DOMAIN toServer[c] : /\ Replaceable(c, toServer[c][i])
                                              /\ toServer'[c] = RemoveAt(toServer[c], i)
  BY <1>2, <1>3, <1>9
<1>10. ASSUME NEW request, Waits(c, request), toClient'[c] = <<>>,
              toServer'[c] \in Left(c) \cup {Append(s, request) : s \in Left(c)}, failed[c] = "no"
       PROVE  Situation(c)'
  <2>1. Asking(c)'
    BY <1>4, <1>10 DEF Asking
  <2> QED
    BY <1>2, <1>10, <2>1 DEF Situation
<1>11. CASE Resting(c) /\ failed[c] = "no"
  <2>1. toClient'[c] = <<>> /\ toServer[c] # <<>>
    BY <1>3, <1>9, <1>11 DEF Resting
  <2>2. toServer[c] = <<Ack(SessionCount(c))>>
    BY <1>11, <2>1 DEF Resting, Left
  <2>3. toServer'[c] = <<>>
    BY <1>7, <1>9, <1>11, <2>2, OnlyOne DEF Resting
  <2>4. Resting(c)'
    BY <1>2, <1>4, <1>11, <2>1, <2>3 DEF Resting
  <2> QED
    BY <1>2, <1>6, <1>11, <2>4 DEF Situation
<1>12. CASE Asking(c) /\ failed[c] = "no"
  <2>1. PICK request : /\ Waits(c, request) /\ toClient[c] = <<>>
                       /\ toServer[c] \in Left(c) \cup {Append(s, request) : s \in Left(c)}
    BY <1>12 DEF Asking
  <2>2. PICK a : Left(c) \subseteq {<<>>, <<a>>} /\ (<<a>> \in Left(c) \/ Left(c) = {<<>>})
    BY DEF Left
  <2>3. Append(<<>>, request) = <<request>> /\ Append(<<a>>, request) = <<a, request>>
    BY Appends, AppendsBehind
  <2>4. PICK i \in DOMAIN toServer[c] : toServer'[c] = RemoveAt(toServer[c], i)
    BY <1>9, <2>1
  <2>5. CASE toServer[c] \in {<<a>>, <<request>>}
    <3>1. toServer'[c] = <<>>
      BY <2>4, <2>5, OnlyOne
    <3> QED
      BY <1>4, <1>6, <1>9, <1>10, <1>12, <2>1, <3>1
  <2>6. CASE toServer[c] = <<a, request>> /\ Left(c) = {<<>>, <<a>>}
    <3>1. toServer'[c] \in {<<a>>, <<request>>}
      BY <2>4, <2>6, OnlyTwo
    <3> QED
      BY <1>4, <1>6, <1>9, <1>10, <1>12, <2>1, <2>3, <2>6, <3>1
  <2>7. toServer[c] # <<>>
    BY <1>3, <2>4
  <2> QED
    BY <1>4, <2>1, <2>2, <2>3, <2>5, <2>6, <2>7
<1>13. CASE Refused(c) /\ failed[c] = "no"
  <2>1. PICK request : Waits(c, request) /\ toServer[c] = <<>> /\ toClient[c] = <<Error>>
    BY <1>13 DEF Refused
  <2> QED
    BY <1>4, <1>6, <1>8, <1>10, <1>13, <2>1
<1>14. CASE Fetching(c) /\ failed[c] = "no"
  <2> DEFINE k == client[c].last
  <2>1. client[c].op = "read" /\ ~client[c].done /\ k \in Nat
    BY <1>5, <1>14 DEF Fetching
  <2>2. CASE /\ toServer[c] = <<>>
             /\ toClient[c] = <<Data(k + 1, BlockOf(session[c].data, k + 1))>>
    <3>1. PICK m : m = Data(k + 1, BlockOf(session[c].data, k + 1))
      OBVIOUS
    <3>2. toClient'[c] = <<>> /\ toServer'[c] = <<>> /\ Replaceable(c, m)
      BY <1>8, <2>2, <3>1
    <3>3. m.op = "data" /\ m.block = k + 1
      BY <3>1 DEF Data
    <3>4. k = 0
      BY <2>1, <3>2, <3>3 DEF Replaceable
    <3>5. Waits(c, Rrq(client[c].file))
      BY <2>1, <3>4 DEF Waits
    <3> QED
      BY <1>4, <1>6, <1>10, <1>14, <3>2, <3>5
  <2>3. CASE k # 0 /\ toServer[c] = <<Ack(k)>> /\ toClient[c] = <<>>
    <3>1. PICK m : m = Ack(k)
      OBVIOUS
    <3>2. Replaceable(c, m)
      BY <1>3, <1>7, <2>3, <3>1
    <3>3. m.op = "ack" /\ m.block = k
      BY <3>1 DEF Ack
    <3> QED
      BY <2>1, <2>3, <3>2, <3>3 DEF Replaceable
  <2> QED
    BY <1>14, <2>2, <2>3 DEF Fetching
<1>15. CASE Storing(c) /\ failed[c] = "no"
  <2>1. PICK k \in 0 .. UINT16_MAX :
          /\ client[c].op = "write" /\ Stores(c, k) /\ k < Count(c)
          /\ \/ /\ client[c].last = (IF k = 0 THEN no_acks ELSE k - 1)
                /\ toServer[c] = <<>> /\ toClient[c] = <<Ack(k)>>
             \/ /\ client[c].last = k /\ toClient[c] = <<>>
                /\ toServer[c] \in {<<>>, <<Data(k + 1, BlockOf(client[c].data, k + 1))>>}
    BY <1>15 DEF Storing
  <2>2. CASE /\ client[c].last = (IF k = 0 THEN no_acks ELSE k - 1)
             /\ toServer[c] = <<>> /\ toClient[c] = <<Ack(k)>>
    <3>1. PICK m : m = Ack(k)
      OBVIOUS
    <3>2. toClient'[c] = <<>> /\ toServer'[c] = <<>> /\ Replaceable(c, m)
      BY <1>8, <2>2, <3>1
    <3>3. m.op = "ack" /\ m.block = k
      BY <3>1 DEF Ack
    <3>4. k = 0
      BY <1>5, <2>1, <3>2, <3>3 DEF Replaceable
    <3>5. Waits(c, Wrq(client[c].file))
      BY <2>1, <2>2, <3>4 DEF Waits
    <3> QED
      BY <1>4, <1>6, <1>10, <1>15, <3>2, <3>5
  <2>3. CASE /\ client[c].last = k /\ toClient[c] = <<>>
             /\ toServer[c] \in {<<>>, <<Data(k + 1, BlockOf(client[c].data, k + 1))>>}
    <3>1. toClient'[c] = <<>> /\ toServer[c] # <<>>
      BY <1>3, <1>9, <2>3
    <3>2. toServer'[c] = <<>>
      BY <1>3, <1>7, <2>3, <3>1
    <3>3. Stores(c, k)' /\ Count(c)' = Count(c)
      BY <1>2, <2>1 DEF Stores, Count
    <3>4. Storing(c)'
      BY <1>2, <2>1, <2>3, <3>1, <3>2, <3>3 DEF Storing
    <3> QED
      BY <1>2, <1>6, <1>15, <3>4 DEF Situation
  <2> QED
    BY <2>1, <2>2, <2>3
<1>16. ~Stored(c)
  <2> SUFFICES ASSUME Stored(c) PROVE FALSE
    OBVIOUS
  <2>1. client[c].op = "write" /\ toServer[c] = <<>> /\ toClient[c] = <<Ack(Count(c))>>
    BY <1>2, <1>3 DEF Stored
  <2>2. PICK m : m = Ack(Count(c))
    OBVIOUS
  <2>3. Replaceable(c, m)
    BY <1>8, <2>1, <2>2
  <2>4. m.op = "ack" /\ m.block = Count(c)
    BY <2>2 DEF Ack
  <2> QED
    BY <1>5, <2>1, <2>3, <2>4 DEF Replaceable
<1> QED
  BY <1>1, <1>2, <1>3, <1>11, <1>12, <1>13, <1>14, <1>15, <1>16 DEF Situation

\* A datagram reaches the server: one that its session for the client expects.
LEMMA ServerUndisturbed ==
    ASSUME Undisturbed, UndisturbedSound, NEW c \in Clients, ServerReceive(c)
    PROVE  Ordered(c)' /\ Situation(c)' /\ FilesLegal' /\ serverDown' = "no"
<1>1. Domains /\ Ordered(c) /\ Situation(c) /\ FilesLegal /\ serverDown = "no"
  BY DEF UndisturbedSound
<1>2. /\ toServer[c] # <<>> /\ client' = client /\ failed' = failed
      /\ toServer'[c] = RemoveAt(toServer[c], 1)
      /\ \/ toServer[c][1].op = "rrq" /\ OnRrq(c, toServer[c][1].file)
         \/ toServer[c][1].op = "wrq" /\ OnWrq(c, toServer[c][1].file)
         \/ toServer[c][1].op = "ack" /\ OnAck(c, toServer[c][1].block)
         \/ toServer[c][1].op = "data" /\ OnData(c, toServer[c][1])
  <2>1. Deliverable(toServer[c]) \subseteq {1} /\ (toServer[c] = <<>> => Deliverable(toServer[c]) = {})
    BY DEF Deliverable, Undisturbed
  <2>2. DOMAIN toServer = Clients
    BY <1>1 DEF Domains
  <2> QED
    BY <1>1, <2>1, <2>2 DEF ServerReceive, clientVars
<1>3. /\ client[c] \in Transfers /\ client[c].last \in 0 .. UINT16_MAX /\ client[c].done \in BOOLEAN
      /\ UINT16_MAX \in Nat /\ UINT16_MAX >= 2
      /\ client[c].op = "write" => Count(c) \in 1 .. UINT16_MAX /\ ~client[c].done /\ Count(c) # no_acks
      /\ Served(c) => /\ SessionCount(c) \in 1 .. UINT16_MAX /\ session[c].data \in LegalData
                      /\ session[c].read /\ session[c] # NoSession
  BY CountsUndisturbed
<1>4. Ordered(c)' /\ Count(c)' = Count(c) /\ \A r : Waits(c, r)' = Waits(c, r)
  BY <1>1, <1>2 DEF Ordered, Writing, Count, Waits
<1>5. \A r : Waits(c, r) => client[c].file \in Files
  BY <1>1 DEF Waits, Ordered
\* The acknowledgement that a transfer has left ends its session.
<1>6. ASSUME Served(c), toServer[c][1] = Ack(SessionCount(c))
      PROVE  /\ session'[c] = NoSession /\ toClient' = toClient
             /\ files' = files /\ serverDown' = serverDown
  <2>1. PICK m : m = toServer[c][1]
    OBVIOUS
  <2>2. m.op = "ack" /\ m.block = SessionCount(c)
    BY <1>6, <2>1 DEF Ack
  <2>3. OnAck(c, SessionCount(c))
    BY <1>2, <2>1, <2>2
  <2>4. SessionCount(c) \in 1 .. SessionCount(c) /\ SessionCount(c) \notin 1 .. SessionCount(c) - 1
    BY <1>3, <1>6
  <2>5. session' = [session EXCEPT ![c] = NoSession] /\ UNCHANGED <<files, serverDown, toClient>>
    BY <1>3, <1>6, <2>3, <2>4 DEF OnAck
  <2> QED
    BY <1>1, <2>5 DEF Domains
<1>7. <<>> \in Left(c)'
  BY DEF Left
<1>8. CASE Resting(c) /\ failed[c] = "no"
  <2>1. Served(c) /\ toServer[c] = <<Ack(SessionCount(c))>>
    BY <1>2, <1>8 DEF Resting, Left
  <2>2. toServer[c][1] = Ack(SessionCount(c)) /\ toServer'[c] = <<>>
    BY <1>2, <2>1, OnlyOne
  <2>3. toClient' = toClient /\ files' = files /\ serverDown' = serverDown
    BY <1>6, <2>1, <2>2
  <2>4. Resting(c)'
    BY <1>2, <1>7, <1>8, <2>2, <2>3 DEF Resting
  <2> QED
    BY <1>1, <1>2, <1>4, <1>8, <2>3, <2>4 DEF Situation, FilesLegal
<1>9. ASSUME NEW f, toServer[c] = <<Rrq(f)>>, Waits(c, Rrq(f)), toClient[c] = <<>>, failed[c] = "no"
      PROVE  Situation(c)' /\ FilesLegal' /\ serverDown' = "no"
  <2>1. toServer[c][1] = Rrq(f) /\ toServer'[c] = <<>>
    BY <1>2, <1>9, OnlyOne
  <2>2. client[c].op = "read" /\ client[c].last = 0 /\ ~client[c].done /\ f = client[c].file /\ f \in Files
    <3>1. PICK m : m = Rrq(f)
      OBVIOUS
    <3>2. m.op = "rrq" /\ m.file = f /\ \A x : (Wrq(x).op = "wrq" /\ Rrq(x).file = x)
      BY <3>1 DEF Rrq, Wrq
    <3> QED
      BY <1>5, <1>9, <3>1, <3>2 DEF Waits
  <2>3. OnRrq(c, f)
    <3>1. PICK m : m = toServer[c][1]
      OBVIOUS
    <3>2. m.op = "rrq" /\ m.file = f
      BY <2>1, <3>1 DEF Rrq
    <3> QED
      BY <1>2, <3>1, <3>2
  <2>4. files' = files /\ serverDown' = serverDown
    BY <2>3 DEF OnRrq
  <2>5. CASE files[f] = NoFile
    <3>1. toClient' = [toClient EXCEPT ![c] = Append(@, Error)]
      BY <2>3, <2>5 DEF OnRrq, ServerReplies
    <3>2. toClient'[c] = <<Error>>
      BY <1>1, <1>9, <3>1, Appends DEF Domains
    <3>3. Refused(c)'
      BY <1>4, <1>9, <2>1, <3>2 DEF Refused
    <3> QED
      BY <1>1, <1>2, <1>9, <2>4, <3>3 DEF Situation, FilesLegal
  <2>6. CASE files[f] # NoFile
    <3>1. /\ session' = [session EXCEPT ![c] = [read |-> TRUE, file |-> f, data |-> files[f]]]
          /\ toClient' = [toClient EXCEPT ![c] = Append(@, Data(1, BlockOf(files[f], 1)))]
      BY <2>3, <2>6 DEF OnRrq, ServerReplies
    <3>2. /\ session'[c] = [read |-> TRUE, file |-> f, data |-> files[f]]
          /\ toClient'[c] = <<Data(1, BlockOf(files[f], 1))>>
      BY <1>1, <1>9, <3>1, Appends DEF Domains
    <3>3. files[f] \in LegalData
      BY <1>1, <2>2, <2>6 DEF FilesLegal
    <3>4. Served(c)' /\ session'[c].data = files[f]
      BY <2>2, <3>2, <3>3 DEF Served
    <3>5. 0 < SessionCount(c)'
      <4>1. block_count(Len(files[f])) \in 1 .. UINT16_MAX
        BY <3>3, LegalFacts
      <4> QED
        BY <1>3, <3>4, <4>1 DEF SessionCount
    <3>6. client'[c].last = 0 /\ 0 + 1 = 1
      BY <1>2, <2>2
    <3>7. Fetching(c)'
      BY <1>2, <2>1, <2>2, <3>2, <3>4, <3>5, <3>6 DEF Fetching
    <3> QED
      BY <1>1, <1>2, <1>9, <2>4, <3>7 DEF Situation, FilesLegal
  <2> QED
    BY <2>5, <2>6
<1>10. ASSUME NEW f, toServer[c] = <<Wrq(f)>>, Waits(c, Wrq(f)), toClient[c] = <<>>, failed[c] = "no"
       PROVE  Situation(c)' /\ FilesLegal' /\ serverDown' = "no"
  <2>1. toServer[c][1] = Wrq(f) /\ toServer'[c] = <<>>
    BY <1>2, <1>10, OnlyOne
  <2>2. client[c].op = "write" /\ client[c].last = no_acks /\ f = client[c].file /\ f \in Files
    <3>1. PICK m : m = Wrq(f)
      OBVIOUS
    <3>2. m.op = "wrq" /\ m.file = f /\ \A x : (Rrq(x).op = "rrq" /\ Wrq(x).file = x)
      BY <3>1 DEF Rrq, Wrq
    <3> QED
      BY <1>5, <1>10, <3>1, <3>2 DEF Waits
  <2>3. OnWrq(c, f)
    <3>1. PICK m : m = toServer[c][1]
      OBVIOUS
    <3>2. m.op = "wrq" /\ m.file = f
      BY <2>1, <3>1 DEF Wrq
    <3> QED
      BY <1>2, <3>1, <3>2
  <2>4. files' = files /\ serverDown' = serverDown
    BY <2>3 DEF OnWrq
  <2>5. CASE files[f] # NoFile
    <3>1. toClient' = [toClient EXCEPT ![c] = Append(@, Error)]
      BY <2>3, <2>5 DEF OnWrq, ServerReplies
    <3>2. toClient'[c] = <<Error>>
      BY <1>1, <1>10, <3>1, Appends DEF Domains
    <3>3. Refused(c)'
      BY <1>4, <1>10, <2>1, <3>2 DEF Refused
    <3> QED
      BY <1>1, <1>2, <1>10, <2>4, <3>3 DEF Situation, FilesLegal
  <2>6. CASE files[f] = NoFile
    <3>1. /\ session' = [session EXCEPT ![c] = [read |-> FALSE, file |-> f, data |-> <<>>]]
          /\ toClient' = [toClient EXCEPT ![c] = Append(@, Ack(0))]
      BY <2>3, <2>6 DEF OnWrq, ServerReplies
    <3>2. /\ session'[c] = [read |-> FALSE, file |-> f, data |-> <<>>]
          /\ toClient'[c] = <<Ack(0)>>
      BY <1>1, <1>10, <3>1, Appends DEF Domains
    <3>3. <<>> = Content(c, f, 0 * BlockSize)
      <4>1. 0 * BlockSize = 0
        BY BlockSizeAssumption
      <4>2. Content(c, f, 0) \in Seq(Bytes) /\ Len(Content(c, f, 0)) = 0
        BY <2>2, ContentFacts
      <4> QED
        BY <4>1, <4>2, EmptySeq
    <3>4. Stores(c, 0)'
      BY <1>2, <2>2, <3>2, <3>3 DEF Stores
    <3>5. Storing(c)'
      <4>1. 0 \in 0 .. UINT16_MAX /\ 0 < Count(c)'
        BY <1>3, <1>4, <2>2
      <4> QED
        BY <1>2, <2>1, <2>2, <3>2, <3>4, <4>1 DEF Storing, no_acks
    <3> QED
      BY <1>1, <1>2, <1>10, <2>4, <3>5 DEF Situation, FilesLegal
  <2> QED
    BY <2>5, <2>6
<1>11. CASE Asking(c) /\ failed[c] = "no"
  <2>1. PICK request : /\ Waits(c, request) /\ toClient[c] = <<>>
                       /\ toServer[c] \in Left(c) \cup {Append(s, request) : s \in Left(c)}
    BY <1>11 DEF Asking
  <2>2. \/ toServer[c] = <<request>>
        \/ /\ Served(c)
           /\ toServer[c] \in {<<Ack(SessionCount(c))>>, <<Ack(SessionCount(c)), request>>}
    <3>1. Append(<<>>, request) = <<request>>
      BY Appends
    <3>2. Append(<<Ack(SessionCount(c))>>, request) = <<Ack(SessionCount(c)), request>>
      BY AppendsBehind
    <3> QED
      BY <1>2, <2>1, <3>1, <3>2 DEF Left
  <2>3. CASE toServer[c] = <<request>>
    <3>1. request = Rrq(client[c].file) \/ request = Wrq(client[c].file)
      BY <2>1 DEF Waits
    <3> QED
      BY <1>4, <1>9, <1>10, <1>11, <2>1, <2>3, <3>1
  <2>4. CASE Served(c) /\ toServer[c] \in {<<Ack(SessionCount(c))>>, <<Ack(SessionCount(c)), request>>}
    <3>1. toServer[c][1] = Ack(SessionCount(c)) /\ toServer'[c] \in {<<>>, <<request>>}
      BY <1>2, <2>4, OnlyOne, OnlyTwo
    <3>2. toClient' = toClient /\ files' = files /\ serverDown' = serverDown
      BY <1>6, <2>4, <3>1
    <3>3. Append(<<>>, request) = <<request>>
      BY Appends
    <3>4. toServer'[c] \in Left(c)' \cup {Append(s, request) : s \in Left(c)'}
      BY <1>7, <3>1, <3>3
    <3>5. Asking(c)'
      BY <1>4, <2>1, <3>2, <3>4 DEF Asking
    <3> QED
      BY <1>1, <1>2, <1>4, <1>11, <3>2, <3>5 DEF Situation, FilesLegal
  <2> QED
    BY <2>2, <2>3, <2>4
<1>12. CASE Fetching(c) /\ failed[c] = "no"
  <2> DEFINE k == client[c].last
  <2>1. /\ client[c].op = "read" /\ ~client[c].done /\ Served(c) /\ k < SessionCount(c) /\ k # 0
        /\ toServer[c] = <<Ack(k)>> /\ toClient[c] = <<>>
    BY <1>2, <1>12 DEF Fetching
  <2>2. toServer[c][1] = Ack(k) /\ toServer'[c] = <<>>
    BY <1>2, <2>1, OnlyOne
  <2>3. OnAck(c, k)
    <3>1. PICK m : m = toServer[c][1]
      OBVIOUS
    <3>2. m.op = "ack" /\ m.block = k
      BY <2>2, <3>1 DEF Ack
    <3> QED
      BY <1>2, <3>1, <3>2
  <2>4. k \in 1 .. SessionCount(c) /\ k \in 1 .. SessionCount(c) - 1 /\ k # SessionCount(c)
    BY <1>3, <2>1
  <2>5. /\ toClient' = [toClient EXCEPT ![c] = Append(@, Data(k + 1, BlockOf(session[c].data, k + 1)))]
        /\ UNCHANGED <<session, files, serverDown>>
    BY <1>3, <2>1, <2>3, <2>4 DEF OnAck, ServerReplies
  <2>6. toClient'[c] = <<Data(k + 1, BlockOf(session[c].data, k + 1))>>
    BY <1>1, <2>1, <2>5, Appends DEF Domains
  <2>7. Served(c)' /\ SessionCount(c)' = SessionCount(c)
    BY <2>1, <2>5 DEF Served, SessionCount
  <2>8. Fetching(c)'
    BY <1>2, <2>1, <2>2, <2>5, <2>6, <2>7 DEF Fetching
  <2> QED
    BY <1>1, <1>2, <1>4, <1>12, <2>5, <2>8 DEF Situation, FilesLegal
<1>13. CASE Storing(c) /\ failed[c] = "no"
  <2>1. PICK k \in 0 .. UINT16_MAX :
          /\ client[c].op = "write" /\ Stores(c, k) /\ k < Count(c)
          /\ client[c].last = k /\ toClient[c] = <<>>
          /\ toServer[c] = <<Data(k + 1, BlockOf(client[c].data, k + 1))>>
    BY <1>2, <1>13 DEF Storing
  <2>2. PICK f \in Files, n \in WriteSizes :
          f = client[c].file /\ client[c].data = Content(c, f, n)
    BY <1>1, <2>1 DEF Ordered, Writing
  <2>3. Len(client[c].data) = n /\ Count(c) = block_count(n) /\ n \in Nat /\ legal_size(n)
        /\ \A j \in Nat : j < block_count(n) <=> j * BlockSize <= n
    <3>1. n \in Nat /\ legal_size(n)
      BY FaultAssumption
    <3>2. Len(client[c].data) = n
      BY <2>2, <3>1, ContentFacts
    <3>3. \A j \in Nat : j < block_count(n) <=> j * BlockSize <= n
      BY <3>1, CountFacts
    <3> QED
      BY <3>1, <3>2, <3>3 DEF Count
  <2>4. k \in Nat /\ k * BlockSize <= n /\ k < UINT16_MAX /\ k + 1 \in 0 .. UINT16_MAX
    BY <1>3, <2>1, <2>3
  <2> DEFINE bytes == BlockOf(Content(c, f, n), k + 1)
             data == Content(c, f, k * BlockSize) \o bytes
  <2>5. /\ data \in Seq(Bytes) /\ bytes \in Seq(Bytes)
        /\ IF k + 1 < block_count(n)
           THEN Len(bytes) = BlockSize /\ data = Content(c, f, (k + 1) * BlockSize)
           ELSE Len(bytes) < BlockSize /\ k + 1 = block_count(n) /\ data = Content(c, f, n)
    BY <2>4, Appended
  <2>6. /\ session[c] = [read |-> FALSE, file |-> f, data |-> Content(c, f, k * BlockSize)]
        /\ session[c] \in Sessions /\ session[c] # NoSession
    <3>1. session[c] \in [read : {FALSE}, file : {f}, data : {Content(c, f, k * BlockSize)}]
      BY <2>1, <2>2 DEF Stores
    <3>2. Content(c, f, k * BlockSize) \in Seq(Bytes)
      <4>1. k * BlockSize \in Nat
        BY <2>4, BlockSizeAssumption
      <4> QED
        BY <4>1, ContentFacts
    <3>3. session[c] \in [read : BOOLEAN, file : Files, data : Seq(Bytes)]
      BY <3>1, <3>2
    <3> QED
      BY <3>1, <3>3, SessionAssumption DEF Bytes, Sessions
  <2>7. Expected(session[c].data) = k + 1
    BY <2>4, <2>6, ExpectedNext
  <2>8. toServer[c][1] = Data(k + 1, bytes) /\ toServer'[c] = <<>>
    BY <1>2, <2>1, <2>2, OnlyOne
  <2> HIDE DEF bytes
  <2>9. /\ toClient' = [toClient EXCEPT ![c] = Append(@, Ack(k + 1))]
        /\ IF Len(bytes) < BlockSize
           THEN /\ files' = IF files[f] = NoFile THEN [files EXCEPT ![f] = data] ELSE files
                /\ session' = [session EXCEPT ![c] = NoSession]
           ELSE /\ session' = [session EXCEPT ![c].data = data]
                /\ files' = files
        /\ serverDown' = serverDown
    <3>1. PICK m : m = toServer[c][1]
      OBVIOUS
    <3>2. m.op = "data" /\ m.block = k + 1 /\ m.bytes = bytes
      BY <2>8, <3>1 DEF Data
    <3>3. OnData(c, m)
      BY <1>2, <3>1, <3>2
    <3>4. ~session[c].read /\ session[c].file = f /\ session[c].data = Content(c, f, k * BlockSize)
      BY <2>6
    <3>5. IsExpected(session[c].data, m.block)
      BY <2>7, <3>2 DEF IsExpected
    <3>6. PICK d : d = session[c].data \o m.bytes
      OBVIOUS
    <3>7. d = data
      BY <3>2, <3>4, <3>6
    <3> HIDE DEF data
    <3>8. /\ ServerReplies(c, Ack(k + 1)) /\ serverDown' = serverDown
          /\ IF Len(m.bytes) < BlockSize
             THEN /\ files' = IF files[f] = NoFile THEN [files EXCEPT ![f] = d] ELSE files
                  /\ session' = [session EXCEPT ![c] = NoSession]
             ELSE session' = [session EXCEPT ![c].data = d] /\ files' = files
      BY <2>6, <2>7, <3>3, <3>4, <3>5, <3>6 DEF OnData
    <3>9. toClient' = [toClient EXCEPT ![c] = Append(@, Ack(k + 1))]
      BY <3>8 DEF ServerReplies
    <3> QED
      BY <3>2, <3>7, <3>8, <3>9
  <2> HIDE DEF data
  <2>10. toClient'[c] = <<Ack(k + 1)>>
    BY <1>1, <2>1, <2>9, Appends DEF Domains
  <2>11. CASE k + 1 < block_count(n)
    <3>1. /\ session' = [session EXCEPT ![c].data = data] /\ files' = files
          /\ data = Content(c, f, (k + 1) * BlockSize)
      BY <2>5, <2>9, <2>11, BlockSizeAssumption
    <3>2. session'[c] = [read |-> FALSE, file |-> f, data |-> Content(c, f, (k + 1) * BlockSize)]
      <4>1. session'[c] = [session[c] EXCEPT !.data = data]
        BY <1>1, <3>1 DEF Domains
      <4>2. session[c] \in Sessions /\ session[c].read = FALSE /\ session[c].file = f
        BY <2>6
      <4>3. /\ session'[c] \in Sessions /\ session'[c].read = FALSE /\ session'[c].file = f
            /\ session'[c].data = data
        BY <2>5, <4>1, <4>2 DEF Sessions
      <4>4. session'[c] = [read |-> session'[c].read, file |-> session'[c].file, data |-> session'[c].data]
        BY <4>3 DEF Sessions
      <4> QED
        BY <3>1, <4>3, <4>4
    <3>3. Stores(c, k + 1)'
      BY <1>2, <2>2, <3>2 DEF Stores
    <3>4. client'[c].last = (IF k + 1 = 0 THEN no_acks ELSE k + 1 - 1) /\ client'[c].op = "write"
          /\ k + 1 < Count(c)'
      BY <1>2, <1>4, <2>1, <2>3, <2>4, <2>11
    <3>5. Storing(c)'
      BY <2>4, <2>8, <2>10, <3>3, <3>4 DEF Storing
    <3> QED
      BY <1>1, <1>2, <1>4, <1>13, <2>9, <3>1, <3>5 DEF Situation, FilesLegal
  <2>12. CASE ~(k + 1 < block_count(n))
    <3>1. /\ files' = IF files[f] = NoFile THEN [files EXCEPT ![f] = data] ELSE files
          /\ data = Content(c, f, n) /\ k + 1 = Count(c)
      BY <2>3, <2>5, <2>9, <2>12
    <3>2. data \in LegalData
      BY <2>2, <2>3, <2>5, <3>1 DEF LegalData
    <3>3. FilesLegal'
      BY <1>1, <3>1, <3>2 DEF FilesLegal, Domains
    <3>4. client'[c].last = Count(c)' - 1 /\ toClient'[c] = <<Ack(Count(c)')>> /\ client'[c].op = "write"
      BY <1>2, <1>4, <2>1, <2>4, <2>10, <3>1
    <3>5. Stored(c)'
      BY <2>8, <3>4 DEF Stored
    <3> QED
      BY <1>1, <1>2, <1>4, <1>13, <2>9, <3>3, <3>5 DEF Situation
  <2> QED
    BY <2>11, <2>12
<1>14. ~Refused(c) /\ ~Stored(c) /\ ~(failed[c] = "error reply" /\ toServer[c] = <<>>)
  BY <1>2 DEF Refused, Stored
<1> QED
  BY <1>1, <1>4, <1>8, <1>11, <1>12, <1>13, <1>14 DEF Situation

\* At first every client rests.
LEMMA UndisturbedInit == ASSUME Init PROVE UndisturbedSound
<1>1. Domains
  BY DEF Init, Domains, Kinds
<1>2. FilesLegal
  <2>1. PICK present \in SUBSET Files : \E size \in [present -> FileSizes] :
          files = [f \in Files |-> IF f \in present THEN Content("server", f, size[f]) ELSE NoFile]
    BY DEF Init
  <2> PICK size \in [present -> FileSizes] :
        files = [f \in Files |-> IF f \in present THEN Content("server", f, size[f]) ELSE NoFile]
    BY <2>1
  <2>2. ASSUME NEW f \in present PROVE Content("server", f, size[f]) \in LegalData
    <3>1. size[f] \in Nat /\ legal_size(size[f]) /\ f \in Files
      BY FaultAssumption
    <3>2. Content("server", f, size[f]) \in Seq(Bytes) /\ Len(Content("server", f, size[f])) = size[f]
      BY <3>1, ContentFacts
    <3> QED
      BY <3>1, <3>2 DEF LegalData
  <2> QED
    BY <2>2 DEF FilesLegal
<1>3. ASSUME NEW c \in Clients PROVE Ordered(c) /\ Situation(c)
  <2>1. /\ client[c] = Idle /\ failed[c] = "no"
        /\ toServer[c] = <<>> /\ toClient[c] = <<>>
    BY DEF Init
  <2>2. Resting(c)
    BY <2>1 DEF Resting, Left, Idle
  <2> QED
    BY <2>1, <2>2, Started DEF Ordered, Situation, Idle
<1> QED
  BY <1>1, <1>2, <1>3 DEF UndisturbedSound, Init

\* A step changes the situation of one client, to another of the list.
LEMMA UndisturbedStep == ASSUME Undisturbed, UndisturbedSound, [Next]_vars PROVE UndisturbedSound'
<1>1. Domains /\ FilesLegal /\ serverDown = "no" /\ \A c \in Clients : Ordered(c) /\ Situation(c)
  BY DEF UndisturbedSound
<1>2. CASE UNCHANGED vars
  <2>1. /\ client' = client /\ failed' = failed /\ session' = session /\ files' = files
        /\ serverDown' = serverDown /\ faults' = faults
        /\ toServer' = toServer /\ toClient' = toClient
    BY <1>2 DEF vars
  <2>2. Domains' /\ FilesLegal' /\ serverDown' = "no"
    BY <1>1, <2>1 DEF Domains, FilesLegal
  <2>3. CASE Clients = {}
    BY <2>2, <2>3 DEF UndisturbedSound
  <2>4. ASSUME NEW c \in Clients PROVE UndisturbedSound'
    <3>1. Served(c)' = Served(c) /\ SessionCount(c)' = SessionCount(c) /\ Count(c)' = Count(c)
      BY <2>1 DEF Served, SessionCount, Count
    <3>2. /\ Left(c)' = Left(c) /\ \A k : Stores(c, k)' = Stores(c, k)
          /\ \A r : Waits(c, r)' = Waits(c, r)
      BY <2>1, <3>1 DEF Left, Stores, Waits
    <3>3. Resting(c)' = Resting(c) /\ Asking(c)' = Asking(c) /\ Refused(c)' = Refused(c)
      BY <2>1, <3>2 DEF Resting, Asking, Refused
    <3>4. Fetching(c)' = Fetching(c) /\ Storing(c)' = Storing(c) /\ Stored(c)' = Stored(c)
      BY <2>1, <3>1, <3>2 DEF Fetching, Storing, Stored
    <3>5. Situation(c)' /\ Ordered(c)'
      BY <1>1, <2>1, <3>3, <3>4 DEF Situation, Ordered, Writing
    <3>6. OnlyOf(c)
      BY <2>1 DEF OnlyOf
    <3> QED
      BY <2>2, <3>5, <3>6, OthersUndisturbed
  <2> QED
    BY <2>3, <2>4
<1>3. ASSUME NEW c \in Clients, GoesOn(c) \/ Begins(c), ~ServerReceive(c) PROVE UndisturbedSound'
  <2>1. OnlyOf(c) /\ Domains' /\ UNCHANGED serverVars
    BY <1>1, <1>3, ClientFrame
  <2>2. FilesLegal' /\ serverDown' = "no"
    BY <1>1, <2>1 DEF serverVars, FilesLegal
  <2>3. ~Abort(c) /\ ~Duplicate(c)
    BY <1>1 DEF Abort, Duplicate, Spend, Domains, Kinds, Undisturbed
  <2>4. Ordered(c)' /\ Situation(c)'
    BY <1>3, <2>3, ReceiveUndisturbed, BeginUndisturbed, TimeoutUndisturbed, FinishUndisturbed,
       LossUndisturbed DEF GoesOn
  <2> QED
    BY <2>1, <2>2, <2>4, OthersUndisturbed
<1>4. ASSUME NEW c \in Clients, ServerReceive(c) PROVE UndisturbedSound'
  <2>1. OnlyOf(c) /\ Domains'
    BY <1>1, <1>4, ServerFrame
  <2> QED
    BY <1>4, <2>1, ServerUndisturbed, OthersUndisturbed
<1> QED
  BY <1>2, <1>3, <1>4 DEF Next, GoesOn, Begins

\* As long as datagrams come in their order and once, a timeout finds nothing
\* on its way and no transfer is given up, no REQUIRE of either end fails,
\* however often a datagram is lost that a timeout repeats, however many
\* transfers follow each other and whatever their files
\* (tftp.cpp tftp_reader, tftp_writer; tftps.cpp got_ack, got_data).
THEOREM ProtocolCorrect == Undisturbed => (Spec => []NoProtocolFailure)
<1> SUFFICES ASSUME Undisturbed PROVE Spec => []NoProtocolFailure
  OBVIOUS
<1>1. Init => UndisturbedSound
  BY UndisturbedInit
<1>2. UndisturbedSound /\ [Next]_vars => UndisturbedSound'
  BY UndisturbedStep
<1>3. UndisturbedSound => NoProtocolFailure
  BY DEF UndisturbedSound, Situation, NoProtocolFailure
<1> QED
  BY <1>1, <1>2, <1>3, PTL DEF Spec
===============================================================================
