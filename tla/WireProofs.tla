----------------------------- MODULE WireProofs -----------------------------
(***************************************************************************)
(* Theorems about Wire, for every codec that reads what it writes, any     *)
(* number of requests and faults, and cuts anywhere in a frame.            *)
(*                                                                         *)
(* A stream may hold whole frames, the beginnings of frames and, once a    *)
(* receive has given up, begin in the middle of one.  What stays true of   *)
(* it is a matter of single cells (WellFramed): no two frames in it have   *)
(* the same header, and a checksum is preceded by as much of its own frame *)
(* as there is room for.  A buffer that begins with the magic number and   *)
(* ends with the checksum its header asks for is then one whole frame.     *)
(***************************************************************************)
EXTENDS Wire, SequenceTheorems, TLAPS

Types == AnswerTypes \cup {m.type : m \in Requests}
Flags == {"request", "response"}

\* What may be on a stream.
Cells ==
    [width : {"magic", "meta", "length", "crc", "u8", "u16", "u32", "u64", "string", "bytes"},
     num : Nat, value : Seq(STRING) \cup (Types \X Flags)]

\* A whole frame.
IsFrame(f) ==
    /\ f \in Seq(Cells) /\ Len(f) >= 4
    /\ f[1].width = "magic" /\ f[1].num = 0
    /\ f[2].width = "meta" /\ f[2].num >= 1
    /\ f[Len(f)].width = "crc"
    /\ f[Len(f)].num = f[2].num /\ f[Len(f)].value = f[2].value
    /\ \A i \in 3..(Len(f) - 1) : f[i].width \notin {"magic", "meta", "crc"}

\* The cells up to position q of s are as much of the end of f as there is room for.
EndsAt(s, q, f) ==
    \A i \in 1..q : Len(f) - (q - i) >= 1 => s[i] = f[Len(f) - (q - i)]

\* What a magic number is followed by.
MagicFirst(s) ==
    \A i \in 1..Len(s) : s[i].width = "magic" =>
        s[i].num = 0 /\ (i < Len(s) => s[i + 1].width \in {"magic", "meta"})

HeadersDiffer(s) ==
    \A i, j \in 1..Len(s) : s[i].width = "meta" /\ s[i] = s[j] => i = j

\* A stream on which pieces of the frames F are.
WellFramed(s, F) ==
    /\ s \in Seq(Cells)
    /\ MagicFirst(s)
    /\ HeadersDiffer(s)
    /\ \A i \in 1..Len(s) : s[i].width = "meta" => \E f \in F : s[i] = f[2]
    /\ \A q \in 1..Len(s) : s[q].width = "crc" => \E f \in F : s[q] = f[Len(f)] /\ EndsAt(s, q, f)

\* What is left of a stream when its first k cells have been read.
Rest(s, k) == SubSeq(s, k + 1, Len(s))

\* The frames of the requests s, and those of the answers t told to them.
RequestFrame(s, c) == encode_frame(s[c], c, "request")
ResponseFrame(c, type) == encode_frame(Answer(type), c, "response")
RequestFrames(s) == {RequestFrame(s, c) : c \in 1..Len(s)}
ResponseFrames(t) ==
    UNION {{ResponseFrame(c, type) : type \in Range(t[c])} : c \in 1..Len(t)}

\* What a handler may have answered.
Told == {<<>>, <<"SnapshotResponse", "Result">>} \cup {<<t>> : t \in AnswerTypes}

\* A request still on its way has not been answered.
Untold(s, t) == \A i \in 1..Len(s) : s[i].width = "meta" => t[s[i].num] = <<>>

HistoryOK ==
    /\ told \in Seq(Told) /\ open \in BOOLEAN /\ mismatched \in BOOLEAN
    /\ \A i \in 1..Len(sent) : Len(Payload[sent[i]]) <= MaxPayload
    /\ handled.corr # 0 => handled.corr \in 1..Len(sent)
    /\ concluded.corr # 0 => concluded.corr \in 1..Len(sent)
    /\ applied \subseteq {bound}

\* What UndisturbedStaysInStep is about, and what keeps the two sides in step: there is
\* the request awaited, or its answer, and nothing else under way, and the session goes
\* on for as long as the client is there.
Undisturbed ==
    /\ faults = 0
    /\ sent # <<>> => sent[1].type = "Hello"
    /\ \A i \in DOMAIN sent : sent[i].type # "SnapshotRequest"

InStep ==
    /\ ~mismatched
    /\ open => session # "ended"
    /\ session = "greeting" => sent = <<>> \/ (Len(sent) = 1 /\ up = RequestFrame(sent, 1))
    /\ awaiting = 0 => up = <<>> /\ down = <<>>
    /\ awaiting # 0 =>
          /\ open
          /\ \/ up = RequestFrame(sent, awaiting) /\ down = <<>>
             \/ /\ up = <<>>
                /\ \E t \in AnswerTypes \ {"SnapshotResponse"} : down = ResponseFrame(awaiting, t)

\* The inductive invariant.
WireIndInv ==
    /\ WireTypeOK
    /\ HistoryOK
    /\ WellFramed(up, RequestFrames(sent))
    /\ WellFramed(down, ResponseFrames(told))
    /\ Untold(up, told)
    /\ HandledAsSent
    /\ ConcludesOwnAnswer
    /\ Undisturbed => InStep

-----------------------------------------------------------------------------
(* Frames *)

\* A cell is its width, number and value.
LEMMA SameCell ==
    ASSUME NEW W, NEW N, NEW V, NEW c \in [width : W, num : N, value : V],
           NEW d \in [width : W, num : N, value : V],
           c.width = d.width, c.num = d.num, c.value = d.value
    PROVE  c = d
  OBVIOUS

\* encode_frame writes a whole frame, and what was put into it can be found there.
LEMMA FrameShape ==
    ASSUME NEW m \in Catalogue, NEW corr \in Nat \ {0}, NEW flag \in Flags
    PROVE  LET f == encode_frame(m, corr, flag) IN
           /\ IsFrame(f)
           /\ f[2] = Mark("meta", corr, <<m.type, flag>>)
           /\ Len(f) = 4 + Len(Payload[m])
           /\ f[3].width = "length" /\ f[3].num = Len(Payload[m])
           /\ f[Len(f)] = Mark("crc", corr, <<m.type, flag>>)
           /\ TypeOf(f) = m.type /\ PayloadOf(f) = Payload[m]
<1> DEFINE p == Payload[m]
           about == <<m.type, flag>>
           a == Mark("magic", 0, <<>>)
           b == Mark("meta", corr, about)
           c == Mark("length", Len(p), <<>>)
           d == Mark("crc", corr, about)
           f == encode_frame(m, corr, flag)
           h == <<a, b, c>>
           hp == h \o p
<1>1. p \in Seq(PayloadCell) /\ p \in Seq(Cells) /\ Len(p) \in Nat
  <2>1. p \in Seq(PayloadCell)
    BY CodecAssumption
  <2>2. PayloadCell \subseteq Cells
    BY DEF PayloadCell, Cells
  <2> HIDE DEF p
  <2> QED BY <2>1, <2>2
<1>2. about \in Types \X Flags /\ <<>> \in Seq(STRING) /\ about[1] = m.type
  <2>1. m.type \in Types
    BY DEF Types, Catalogue, Answer
  <2> QED BY <2>1
<1> HIDE DEF p, about
<1>3. a \in Cells /\ b \in Cells /\ c \in Cells /\ d \in Cells
  BY <1>1, <1>2 DEF Mark, Cells
<1>4. f = hp \o <<d>>
  BY DEF encode_frame, p, about
<1>5. /\ a.width = "magic" /\ a.num = 0 /\ b.width = "meta" /\ b.num = corr /\ b.value = about
      /\ c.width = "length" /\ c.num = Len(p)
      /\ d.width = "crc" /\ d.num = corr /\ d.value = about
  BY DEF Mark
<1> HIDE DEF a, b, c, d, f
<1>6. h \in Seq(Cells) /\ Len(h) = 3 /\ h[1] = a /\ h[2] = b /\ h[3] = c
  BY <1>3
<1> HIDE DEF h
<1>7. /\ hp \in Seq(Cells) /\ Len(hp) = 3 + Len(p)
      /\ \A i \in 1..(3 + Len(p)) : hp[i] = IF i <= 3 THEN h[i] ELSE p[i - 3]
  <2>1. /\ h \o p \in Seq(Cells) /\ Len(h \o p) = Len(h) + Len(p)
        /\ \A i \in 1..(Len(h) + Len(p)) : (h \o p)[i] = IF i <= Len(h) THEN h[i] ELSE p[i - Len(h)]
    BY <1>1, <1>6, ConcatProperties
  <2> QED BY <1>1, <1>6, <2>1
<1> HIDE DEF hp
<1>8. <<d>> \in Seq(Cells) /\ Len(<<d>>) = 1 /\ <<d>>[1] = d
  BY <1>3
<1>9. /\ f \in Seq(Cells) /\ Len(f) = 4 + Len(p)
      /\ \A i \in 1..(4 + Len(p)) : f[i] = IF i <= 3 + Len(p) THEN hp[i] ELSE <<d>>[i - (3 + Len(p))]
  <2>1. /\ hp \o <<d>> \in Seq(Cells) /\ Len(hp \o <<d>>) = Len(hp) + Len(<<d>>)
        /\ \A i \in 1..(Len(hp) + Len(<<d>>)) :
              (hp \o <<d>>)[i] = IF i <= Len(hp) THEN hp[i] ELSE <<d>>[i - Len(hp)]
    BY <1>7, <1>8, ConcatProperties
  <2> QED BY <1>1, <1>4, <1>7, <1>8, <2>1
<1>10. f[1] = a /\ f[2] = b /\ f[3] = c /\ f[Len(f)] = d
  BY <1>1, <1>6, <1>7, <1>8, <1>9
<1>11. \A i \in 1..Len(p) : f[i + 3] = p[i]
  BY <1>1, <1>7, <1>9
<1>12. \A i \in 3..(Len(f) - 1) : f[i].width \notin {"magic", "meta", "crc"}
  <2> TAKE i \in 3..(Len(f) - 1)
  <2>1. CASE i = 3
    BY <2>1, <1>5, <1>10
  <2>2. CASE i > 3
    <3>1. i - 3 \in 1..Len(p) /\ f[i] = p[i - 3]
      BY <2>2, <1>1, <1>9, <1>11
    <3>2. p[i - 3] \in PayloadCell
      BY <3>1, <1>1
    <3>3. f[i].width \in {"u8", "u16", "u32", "u64", "string", "bytes"}
      BY <3>1, <3>2 DEF PayloadCell
    <3> QED BY <3>3
  <2> QED BY <2>1, <2>2
<1>13. IsFrame(f)
  BY <1>1, <1>5, <1>9, <1>10, <1>12 DEF IsFrame
<1>14. TypeOf(f) = m.type
  BY <1>2, <1>5, <1>10 DEF TypeOf
<1>15. PayloadOf(f) = p
  <2>1. PayloadOf(f) = SubSeq(f, 4, Len(p) + 3)
    BY <1>1, <1>9 DEF PayloadOf, kFrameHeader, kFrameTrailer
  <2>2. \A i \in 4..(Len(p) + 3) : f[i] \in Cells
    BY <1>1, <1>9
  <2>3. /\ SubSeq(f, 4, Len(p) + 3) \in Seq(Cells)
        /\ Len(SubSeq(f, 4, Len(p) + 3)) = Len(p)
        /\ \A i \in 1..Len(p) : SubSeq(f, 4, Len(p) + 3)[i] = f[4 + i - 1]
    BY <1>1, <2>2, SubSeqProperties
  <2>4. \A i \in 1..Len(p) : SubSeq(f, 4, Len(p) + 3)[i] = p[i]
    BY <1>1, <1>11, <2>3
  <2> QED BY <1>1, <2>1, <2>3, <2>4, SeqEqual
<1>16. b = Mark("meta", corr, <<m.type, flag>>) /\ d = Mark("crc", corr, <<m.type, flag>>)
  BY DEF b, d, about
<1> QED BY <1>5, <1>9, <1>10, <1>13, <1>14, <1>15, <1>16 DEF f, p

\* Where the cells of a frame that delimit it are.
LEMMA FrameCells ==
    ASSUME NEW f, IsFrame(f), NEW i \in 1..Len(f)
    PROVE  /\ f[i] \in Cells /\ Len(f) \in Nat
           /\ f[i].width = "magic" <=> i = 1
           /\ f[i].width = "meta" <=> i = 2
           /\ f[i].width = "crc" <=> i = Len(f)
<1>1. Len(f) \in Nat /\ Len(f) >= 4 /\ f[i] \in Cells
  BY DEF IsFrame
<1>2. i = 1 \/ i = 2 \/ i = Len(f) \/ i \in 3..(Len(f) - 1)
  BY <1>1
<1>3. CASE i = 1
  BY <1>1, <1>3 DEF IsFrame
<1>4. CASE i = 2
  BY <1>1, <1>4 DEF IsFrame
<1>5. CASE i = Len(f)
  BY <1>1, <1>5 DEF IsFrame
<1>6. CASE i \in 3..(Len(f) - 1)
  BY <1>1, <1>6 DEF IsFrame
<1> QED BY <1>2, <1>3, <1>4, <1>5, <1>6

-----------------------------------------------------------------------------
(* Streams *)

\* The cells of what is left.
LEMMA RestCells ==
    ASSUME NEW S, NEW s \in Seq(S), NEW k \in 0..Len(s)
    PROVE  /\ Rest(s, k) \in Seq(S) /\ Len(Rest(s, k)) = Len(s) - k
           /\ \A i \in 1..(Len(s) - k) : Rest(s, k)[i] = s[i + k]
<1>1. Len(s) \in Nat /\ \A i \in (k + 1)..Len(s) : s[i] \in S
  OBVIOUS
<1>2. /\ SubSeq(s, k + 1, Len(s)) \in Seq(S)
      /\ Len(SubSeq(s, k + 1, Len(s))) = IF k + 1 <= Len(s) THEN Len(s) - (k + 1) + 1 ELSE 0
      /\ \A i \in 1..(Len(s) - (k + 1) + 1) : SubSeq(s, k + 1, Len(s))[i] = s[(k + 1) + i - 1]
  BY <1>1, SubSeqProperties
<1> HIDE DEF Rest
<1>3. Rest(s, k) = SubSeq(s, k + 1, Len(s))
  BY DEF Rest
<1>4. Len(Rest(s, k)) = Len(s) - k
  BY <1>1, <1>2, <1>3
<1>5. ASSUME NEW i \in 1..(Len(s) - k)
      PROVE  Rest(s, k)[i] = s[i + k]
  <2>1. i \in 1..(Len(s) - (k + 1) + 1) /\ (k + 1) + i - 1 = i + k
    BY <1>1
  <2> QED BY <1>2, <1>3, <2>1
<1> QED BY <1>2, <1>3, <1>4, <1>5

\* The cells of a stream to which the first k cells of a frame are added.
LEMMA GrownCells ==
    ASSUME NEW S, NEW s \in Seq(S), NEW f \in Seq(S), NEW k \in 1..Len(f)
    PROVE  LET t == s \o SubSeq(f, 1, k) IN
           /\ t \in Seq(S) /\ Len(t) = Len(s) + k
           /\ \A i \in 1..(Len(s) + k) : t[i] = IF i <= Len(s) THEN s[i] ELSE f[i - Len(s)]
<1> DEFINE e == SubSeq(f, 1, k)
<1>1. Len(s) \in Nat /\ Len(f) \in Nat /\ \A i \in 1..k : f[i] \in S
  OBVIOUS
<1>2. /\ e \in Seq(S) /\ Len(e) = IF 1 <= k THEN k - 1 + 1 ELSE 0
      /\ \A i \in 1..(k - 1 + 1) : e[i] = f[1 + i - 1]
  BY <1>1, SubSeqProperties
<1> HIDE DEF e
<1>3. Len(e) = k /\ \A i \in 1..k : e[i] = f[i]
  BY <1>1, <1>2
<1>4. /\ s \o e \in Seq(S) /\ Len(s \o e) = Len(s) + Len(e)
      /\ \A i \in 1..(Len(s) + Len(e)) : (s \o e)[i] = IF i <= Len(s) THEN s[i] ELSE e[i - Len(s)]
  BY <1>2, ConcatProperties
<1>5. \A i \in 1..(Len(s) + k) : (s \o e)[i] = IF i <= Len(s) THEN s[i] ELSE f[i - Len(s)]
  BY <1>1, <1>3, <1>4
<1> QED BY <1>3, <1>4, <1>5 DEF e

\* Reading, or dropping, the beginning of a stream.
LEMMA RestFramed ==
    ASSUME NEW F, NEW s, WellFramed(s, F), NEW k \in 0..Len(s)
    PROVE  WellFramed(Rest(s, k), F)
<1> DEFINE t == Rest(s, k)
<1>1. s \in Seq(Cells) /\ Len(s) \in Nat
  BY DEF WellFramed
<1>2. /\ t \in Seq(Cells) /\ Len(t) = Len(s) - k
      /\ \A i \in 1..(Len(s) - k) : t[i] = s[i + k]
  BY <1>1, RestCells
<1> HIDE DEF t
<1>3. \A i \in 1..Len(t) : i + k \in 1..Len(s) /\ t[i] = s[i + k]
  BY <1>1, <1>2
<1>4. MagicFirst(t)
  <2> SUFFICES ASSUME NEW i \in 1..Len(t), t[i].width = "magic"
               PROVE  t[i].num = 0 /\ (i < Len(t) => t[i + 1].width \in {"magic", "meta"})
    BY DEF MagicFirst
  <2>1. s[i + k].num = 0 /\ (i + k < Len(s) => s[i + k + 1].width \in {"magic", "meta"})
    BY <1>3 DEF WellFramed, MagicFirst
  <2>2. ASSUME i < Len(t)
        PROVE  t[i + 1].width \in {"magic", "meta"}
    <3>1. i + 1 \in 1..Len(t) /\ i + k < Len(s) /\ i + 1 + k = i + k + 1
      BY <1>1, <1>2, <2>2
    <3> QED BY <1>3, <2>1, <3>1
  <2> QED BY <1>3, <2>1, <2>2
<1>5. HeadersDiffer(t)
  <2> SUFFICES ASSUME NEW i \in 1..Len(t), NEW j \in 1..Len(t), t[i].width = "meta", t[i] = t[j]
               PROVE  i = j
    BY DEF HeadersDiffer
  <2>1. i + k = j + k
    BY <1>3 DEF WellFramed, HeadersDiffer
  <2> QED BY <1>2, <2>1
<1>6. \A i \in 1..Len(t) : t[i].width = "meta" => \E f \in F : t[i] = f[2]
  BY <1>3 DEF WellFramed
<1>7. ASSUME NEW q \in 1..Len(t), t[q].width = "crc"
      PROVE  \E f \in F : t[q] = f[Len(f)] /\ EndsAt(t, q, f)
  <2>1. PICK f \in F : s[q + k] = f[Len(f)] /\ EndsAt(s, q + k, f)
    BY <1>3, <1>7 DEF WellFramed
  <2>2. ASSUME NEW i \in 1..q, Len(f) - (q - i) >= 1
        PROVE  t[i] = f[Len(f) - (q - i)]
    <3>1. i + k \in 1..(q + k) /\ (q + k) - (i + k) = q - i /\ i \in 1..Len(t)
      BY <1>2, <1>7
    <3> QED BY <1>3, <2>1, <2>2, <3>1 DEF EndsAt
  <2> QED BY <1>3, <2>1, <2>2 DEF EndsAt
<1> QED BY <1>2, <1>4, <1>5, <1>6, <1>7 DEF WellFramed, t

\* More frames are known than are on the stream.
LEMMA MoreFrames ==
    ASSUME NEW F, NEW G, F \subseteq G, NEW s, WellFramed(s, F)
    PROVE  WellFramed(s, G)
  BY DEF WellFramed

\* Writing a frame, or the beginning of one, whose header is not on the stream.
LEMMA GrownFramed ==
    ASSUME NEW F, NEW s, WellFramed(s, F), NEW f \in F, IsFrame(f), NEW k \in 1..Len(f),
           \A i \in 1..Len(s) : s[i] # f[2]
    PROVE  WellFramed(s \o SubSeq(f, 1, k), F)
<1> DEFINE t == s \o SubSeq(f, 1, k)
           n == Len(s)
<1>1. s \in Seq(Cells) /\ n \in Nat /\ f \in Seq(Cells) /\ Len(f) \in Nat /\ Len(f) >= 4
  BY DEF WellFramed, IsFrame
<1>2. /\ t \in Seq(Cells) /\ Len(t) = n + k
      /\ \A i \in 1..(n + k) : t[i] = IF i <= n THEN s[i] ELSE f[i - n]
  BY <1>1, GrownCells
<1> HIDE DEF t
<1>3. \A i \in 1..n : i \in 1..Len(t) /\ t[i] = s[i]
  BY <1>1, <1>2
<1>4. ASSUME NEW i \in 1..Len(t), ~(i <= n)
      PROVE  /\ i - n \in 1..k /\ i - n \in 1..Len(f) /\ t[i] = f[i - n]
             /\ t[i].width = "magic" <=> i - n = 1
             /\ t[i].width = "meta" <=> i - n = 2
             /\ t[i].width = "crc" <=> i - n = Len(f)
  <2>1. i - n \in 1..k /\ i - n \in 1..Len(f) /\ t[i] = f[i - n]
    BY <1>1, <1>2, <1>4
  <2>2. \A j \in 1..Len(f) : /\ f[j].width = "magic" <=> j = 1
                             /\ f[j].width = "meta" <=> j = 2
                             /\ f[j].width = "crc" <=> j = Len(f)
    BY FrameCells
  <2> QED BY <2>1, <2>2
<1>5. MagicFirst(t)
  <2> SUFFICES ASSUME NEW i \in 1..Len(t), t[i].width = "magic"
               PROVE  t[i].num = 0 /\ (i < Len(t) => t[i + 1].width \in {"magic", "meta"})
    BY DEF MagicFirst
  <2>1. CASE i < n
    <3>1. i \in 1..n /\ i + 1 \in 1..n
      BY <1>1, <2>1
    <3> QED BY <1>3, <2>1, <3>1 DEF WellFramed, MagicFirst
  <2>2. CASE i = n
    <3>1. i \in 1..n /\ n + 1 \in 1..Len(t) /\ (n + 1) - n = 1
      BY <1>1, <1>2, <2>2
    <3>2. t[n + 1].width = "magic"
      BY <1>1, <1>4, <3>1
    <3>3. s[i].num = 0 /\ t[i] = s[i]
      BY <1>3, <3>1 DEF WellFramed, MagicFirst
    <3> QED BY <2>2, <3>2, <3>3
  <2>3. CASE i > n
    <3>1. i - n = 1 /\ t[i] = f[1]
      BY <1>1, <1>4, <2>3
    <3>2. ASSUME i < Len(t) PROVE t[i + 1].width = "meta"
      <4>1. i + 1 \in 1..Len(t) /\ ~(i + 1 <= n) /\ (i + 1) - n = 2
        BY <1>1, <1>2, <3>1, <3>2
      <4> QED BY <1>4, <4>1
    <3> QED BY <3>1, <3>2 DEF IsFrame
  <2> QED BY <1>1, <2>1, <2>2, <2>3
<1>6. ASSUME NEW i \in 1..Len(t), ~(i <= n), t[i].width = "meta"
      PROVE  i = n + 2 /\ t[i] = f[2]
  BY <1>1, <1>4, <1>6
<1>7. HeadersDiffer(t)
  <2> SUFFICES ASSUME NEW i \in 1..Len(t), NEW j \in 1..Len(t), t[i].width = "meta", t[i] = t[j]
               PROVE  i = j
    BY DEF HeadersDiffer
  <2>1. CASE i <= n /\ j <= n
    <3>1. i \in 1..n /\ j \in 1..n
      BY <1>1, <2>1
    <3> QED BY <1>3, <3>1 DEF WellFramed, HeadersDiffer
  <2>2. CASE i <= n /\ ~(j <= n)
    <3>1. i \in 1..n /\ t[j] = f[2]
      BY <1>1, <1>6, <2>2
    <3> QED BY <1>3, <3>1
  <2>3. CASE ~(i <= n) /\ j <= n
    <3>1. j \in 1..n /\ t[i] = f[2]
      BY <1>1, <1>6, <2>3
    <3> QED BY <1>3, <3>1
  <2>4. CASE ~(i <= n) /\ ~(j <= n)
    BY <1>6, <2>4
  <2> QED BY <2>1, <2>2, <2>3, <2>4
<1>8. ASSUME NEW i \in 1..Len(t), t[i].width = "meta"
      PROVE  \E g \in F : t[i] = g[2]
  <2>1. CASE i <= n
    <3>1. i \in 1..n
      BY <1>1, <2>1
    <3> QED BY <1>3, <1>8, <3>1 DEF WellFramed
  <2>2. CASE ~(i <= n)
    BY <1>6, <1>8, <2>2
  <2> QED BY <2>1, <2>2
<1>9. ASSUME NEW q \in 1..Len(t), t[q].width = "crc"
      PROVE  \E g \in F : t[q] = g[Len(g)] /\ EndsAt(t, q, g)
  <2>1. CASE q <= n
    <3>1. q \in 1..n /\ \A i \in 1..q : i \in 1..n
      BY <1>1, <2>1
    <3>2. PICK g \in F : s[q] = g[Len(g)] /\ EndsAt(s, q, g)
      BY <1>3, <1>9, <3>1 DEF WellFramed
    <3>3. EndsAt(t, q, g)
      BY <1>3, <3>1, <3>2 DEF EndsAt
    <3> QED BY <1>3, <3>1, <3>2, <3>3
  <2>2. CASE ~(q <= n)
    <3>1. q - n = Len(f) /\ t[q] = f[Len(f)]
      BY <1>4, <1>9, <2>2
    <3>2. ASSUME NEW i \in 1..q, Len(f) - (q - i) >= 1
          PROVE  t[i] = f[Len(f) - (q - i)]
      <4>1. i \in 1..Len(t) /\ ~(i <= n) /\ Len(f) - (q - i) = i - n
        BY <1>1, <1>2, <3>1, <3>2
      <4> QED BY <1>4, <4>1
    <3> QED BY <3>1, <3>2 DEF EndsAt
  <2> QED BY <2>1, <2>2
<1> QED BY <1>2, <1>5, <1>7, <1>8, <1>9 DEF WellFramed, t

\* The checksum finds whole frames only: a buffer from the front of a stream that
\* decode_frame accepts is one of the frames that were written, and its header is not
\* in what is left.
LEMMA OkIsWhole ==
    ASSUME NEW F, \A f \in F : IsFrame(f), NEW s, WellFramed(s, F), NEW n \in Nat,
           kFrameOverhead + n <= Len(s),
           decode_frame(SubSeq(s, 1, kFrameOverhead + n)) = "Ok"
    PROVE  /\ SubSeq(s, 1, kFrameOverhead + n) \in F
           /\ \A i \in 1..(Len(s) - (kFrameOverhead + n)) :
                 Rest(s, kFrameOverhead + n)[i] # SubSeq(s, 1, kFrameOverhead + n)[2]
<1> DEFINE q == kFrameOverhead + n
           e == SubSeq(s, 1, q)
<1>1. s \in Seq(Cells) /\ Len(s) \in Nat /\ q \in Nat /\ q >= 4 /\ q <= Len(s)
  BY DEF WellFramed, kFrameOverhead, kFrameHeader, kFrameTrailer
<1>2. decode_frame(e) = "Ok"
  OBVIOUS
<1> HIDE DEF q
<1>3. \A i \in 1..q : s[i] \in Cells
  BY <1>1
<1>4. /\ e \in Seq(Cells) /\ Len(e) = IF 1 <= q THEN q - 1 + 1 ELSE 0
      /\ \A i \in 1..(q - 1 + 1) : e[i] = s[1 + i - 1]
  BY <1>1, <1>3, SubSeqProperties
<1> HIDE DEF e
<1>5. e \in Seq(Cells) /\ Len(e) = q /\ \A i \in 1..q : e[i] = s[i]
  BY <1>1, <1>4
<1>6. e[1].width = "magic" /\ e[Len(e)] = Mark("crc", e[2].num, e[2].value)
  BY <1>1, <1>2, <1>5 DEF decode_frame, Last, kFrameOverhead, kFrameHeader, kFrameTrailer
<1>7. 1 \in 1..q /\ 2 \in 1..q /\ q \in 1..q /\ \A i \in 1..q : i \in 1..Len(s)
  BY <1>1
<1>8. /\ s[1].width = "magic" /\ s[q].width = "crc"
      /\ s[q].num = s[2].num /\ s[q].value = s[2].value
  <2>1. s[1].width = "magic" /\ s[q] = Mark("crc", s[2].num, s[2].value)
    BY <1>5, <1>6, <1>7
  <2> QED BY <2>1 DEF Mark
<1>9. PICK f \in F : s[q] = f[Len(f)] /\ EndsAt(s, q, f)
  BY <1>7, <1>8 DEF WellFramed
<1>10. /\ IsFrame(f) /\ Len(f) \in Nat /\ Len(f) >= 4
       /\ f[Len(f)].num = f[2].num /\ f[Len(f)].value = f[2].value
       /\ f[2].num >= 1 /\ f[2].width = "meta" /\ f[2] \in Cells
  BY <1>9 DEF IsFrame
<1>11. s[2] = f[2]
  <2>1. s[2].num = f[2].num /\ s[2].value = f[2].value
    BY <1>8, <1>9, <1>10
  <2>2. s[2].width \in {"magic", "meta"}
    <3>1. 1 < Len(s) /\ 1 + 1 = 2
      BY <1>1
    <3> QED BY <1>7, <1>8, <3>1 DEF WellFramed, MagicFirst
  <2>3. s[2].width # "magic"
    BY <1>7, <1>10, <2>1 DEF WellFramed, MagicFirst
  <2>4. s[2].width = f[2].width
    BY <1>10, <2>2, <2>3
  <2>5. s[2] \in Cells /\ f[2] \in Cells
    BY <1>3, <1>7, <1>10
  <2> QED BY <2>1, <2>4, <2>5, SameCell DEF Cells
<1>12. q = Len(f)
  <2>1. CASE q < Len(f)
    <3>1. /\ Len(f) - (q - 1) >= 1 /\ Len(f) - (q - 1) \in 1..Len(f) /\ Len(f) - (q - 1) # 1
      BY <1>1, <1>10, <2>1
    <3>2. s[1] = f[Len(f) - (q - 1)]
      BY <1>7, <1>9, <3>1 DEF EndsAt
    <3>3. \A j \in 1..Len(f) : f[j].width = "magic" <=> j = 1
      BY <1>10, FrameCells
    <3> QED BY <1>8, <3>1, <3>2, <3>3
  <2>2. CASE q > Len(f)
    <3> DEFINE i == q - Len(f) + 2
    <3>1. i \in 1..q /\ Len(f) - (q - i) = 2 /\ i > 2
      BY <1>1, <1>10, <2>2
    <3> HIDE DEF i
    <3>2. s[i] = f[2]
      BY <1>9, <3>1 DEF EndsAt
    <3>3. i = 2
      BY <1>7, <1>10, <1>11, <3>1, <3>2 DEF WellFramed, HeadersDiffer
    <3> QED BY <3>1, <3>3
  <2> QED BY <1>1, <1>10, <2>1, <2>2
<1>13. \A i \in 1..q : e[i] = f[i]
  <2> TAKE i \in 1..q
  <2>1. Len(f) - (q - i) = i /\ i >= 1
    BY <1>1, <1>12
  <2> QED BY <1>5, <1>9, <2>1 DEF EndsAt
<1>14. e = f
  <2>1. f \in Seq(Cells) /\ Len(e) = Len(f) /\ \A i \in 1..Len(e) : e[i] = f[i]
    BY <1>5, <1>10, <1>12, <1>13 DEF IsFrame
  <2> QED BY <1>5, <2>1, SeqEqual
<1>15. ASSUME NEW i \in 1..(Len(s) - q)
       PROVE  Rest(s, q)[i] # f[2]
  <2>1. q \in 0..Len(s)
    BY <1>1
  <2>2. Rest(s, q)[i] = s[i + q]
    BY <1>1, <2>1, RestCells
  <2>3. i + q \in 1..Len(s) /\ i + q # 2
    BY <1>1
  <2>4. s[i + q] # s[2]
    BY <1>7, <1>10, <1>11, <2>3 DEF WellFramed, HeadersDiffer
  <2> QED BY <1>11, <2>2, <2>4
<1>16. e \in F /\ \A i \in 1..(Len(s) - q) : Rest(s, q)[i] # e[2]
  BY <1>14, <1>15
<1> QED BY <1>16 DEF e, q

\* An empty stream.
LEMMA EmptyFramed ==
    ASSUME NEW F
    PROVE  WellFramed(<<>>, F)
<1>1. <<>> \in Seq(Cells) /\ Len(<<>>) = 0 /\ 1..0 = {}
  OBVIOUS
<1> QED BY <1>1 DEF WellFramed, MagicFirst, HeadersDiffer

\* What a receive reads and what it leaves.
LEMMA ReceivedParts ==
    ASSUME NEW F, \A f \in F : IsFrame(f), NEW s, WellFramed(s, F), NEW r \in Received(s)
    PROVE  /\ WellFramed(r.rest, F)
           /\ \A i \in 1..Len(r.rest) : \E j \in 1..Len(s) : r.rest[i] = s[j]
           /\ r.status = "Ok" => /\ r.frame \in F
                                 /\ \A i \in 1..Len(r.rest) : r.rest[i] # r.frame[2]
                                 /\ r.frame[2] = s[2] /\ 2 \in 1..Len(s)
<1>1. s \in Seq(Cells) /\ Len(s) \in Nat /\ ~(Len(s) < 3)
  BY DEF WellFramed, Received, kFrameHeader
<1>2. DeclaredLengths(s) \subseteq Nat
  <2>1. s[3] \in Cells
    BY <1>1
  <2>2. s[3].num \in Nat
    BY <2>1 DEF Cells
  <2> QED BY <2>2, WireAssumption DEF DeclaredLengths
<1>3. PICK n \in DeclaredLengths(s) :
        /\ n > MaxPayload \/ kFrameOverhead + n <= Len(s)
        /\ r = [status |-> IF n > MaxPayload THEN "OversizedFrame"
                           ELSE decode_frame(SubSeq(s, 1, kFrameOverhead + n)),
                frame |-> IF n > MaxPayload THEN <<>> ELSE SubSeq(s, 1, kFrameOverhead + n),
                rest |-> IF n > MaxPayload THEN SubSeq(s, kFrameHeader + 1, Len(s))
                         ELSE SubSeq(s, kFrameOverhead + n + 1, Len(s))]
  BY <1>1 DEF Received, kFrameHeader
<1>4. n \in Nat /\ kFrameOverhead = 4 /\ kFrameHeader = 3
  BY <1>2 DEF kFrameOverhead, kFrameHeader, kFrameTrailer
<1> DEFINE k == IF n > MaxPayload THEN kFrameHeader ELSE kFrameOverhead + n
<1>5. k \in 0..Len(s) /\ r.rest = Rest(s, k)
  <2>1. CASE n > MaxPayload
    BY <1>1, <1>3, <1>4, <2>1 DEF Rest
  <2>2. CASE ~(n > MaxPayload)
    BY <1>1, <1>3, <1>4, <2>2 DEF Rest
  <2> QED BY <2>1, <2>2
<1> HIDE DEF k
<1>6. /\ WellFramed(r.rest, F) /\ Len(r.rest) = Len(s) - k
      /\ \A i \in 1..(Len(s) - k) : r.rest[i] = s[i + k]
  BY <1>1, <1>5, RestFramed, RestCells
<1>7. \A i \in 1..Len(r.rest) : i + k \in 1..Len(s) /\ r.rest[i] = s[i + k]
  BY <1>1, <1>5, <1>6
<1>8. ASSUME r.status = "Ok"
      PROVE  /\ r.frame \in F /\ \A i \in 1..Len(r.rest) : r.rest[i] # r.frame[2]
             /\ r.frame[2] = s[2] /\ 2 \in 1..Len(s)
  <2>1. ~(n > MaxPayload) /\ kFrameOverhead + n <= Len(s)
    BY <1>3, <1>8
  <2>2. /\ decode_frame(SubSeq(s, 1, kFrameOverhead + n)) = "Ok"
        /\ r.frame = SubSeq(s, 1, kFrameOverhead + n) /\ k = kFrameOverhead + n
    BY <1>3, <1>8, <2>1 DEF k
  <2>3. /\ r.frame \in F
        /\ \A i \in 1..(Len(s) - k) : Rest(s, k)[i] # r.frame[2]
    BY <1>4, <2>1, <2>2, OkIsWhole
  <2>4. \A i \in 1..(4 + n) : s[i] \in Cells
    BY <1>1, <1>4, <2>1
  <2>5. \A i \in 1..(4 + n - 1 + 1) : SubSeq(s, 1, 4 + n)[i] = s[1 + i - 1]
    BY <1>4, <2>4, SubSeqProperties
  <2>6. SubSeq(s, 1, 4 + n)[2] = s[2]
    BY <1>4, <2>5
  <2> QED BY <1>1, <1>4, <1>5, <1>6, <2>2, <2>3, <2>6
<1> QED BY <1>6, <1>7, <1>8

\* A receive of a stream that is one frame within the limit reads it.
LEMMA ReceivedWhole ==
    ASSUME NEW f, IsFrame(f), f[3].width = "length", f[3].num = Len(f) - 4,
           Len(f) - 4 <= MaxPayload, NEW r \in Received(f)
    PROVE  r.status = "Ok" /\ r.frame = f /\ r.rest = <<>>
<1>1. /\ f \in Seq(Cells) /\ Len(f) \in Nat /\ Len(f) >= 4 /\ f[1].width = "magic"
      /\ kFrameOverhead = 4 /\ kFrameHeader = 3 /\ MaxPayload \in Nat
  BY WireAssumption DEF IsFrame, kFrameOverhead, kFrameHeader, kFrameTrailer
<1>2. DeclaredLengths(f) = {Len(f) - 4}
  BY <1>1 DEF DeclaredLengths
<1>3. PICK n \in DeclaredLengths(f) :
        r = [status |-> IF n > MaxPayload THEN "OversizedFrame"
                        ELSE decode_frame(SubSeq(f, 1, kFrameOverhead + n)),
             frame |-> IF n > MaxPayload THEN <<>> ELSE SubSeq(f, 1, kFrameOverhead + n),
             rest |-> IF n > MaxPayload THEN SubSeq(f, kFrameHeader + 1, Len(f))
                      ELSE SubSeq(f, kFrameOverhead + n + 1, Len(f))]
  BY <1>1 DEF Received
<1>4. n = Len(f) - 4 /\ ~(n > MaxPayload) /\ kFrameOverhead + n = Len(f)
  BY <1>1, <1>2
<1>5. SubSeq(f, 1, Len(f)) = f
  BY <1>1, SubSeqFull
<1>6. SubSeq(f, Len(f) + 1, Len(f)) = <<>>
  <2>1. Len(f) + 1 \in Int /\ Len(f) \in Int /\ Len(f) < Len(f) + 1
    BY <1>1
  <2> QED BY <2>1, SubSeqEmpty
<1>7. r.status = decode_frame(f) /\ r.frame = f /\ r.rest = <<>>
  BY <1>3, <1>4, <1>5, <1>6
<1>8. decode_frame(f) = "Ok"
  <2>1. f[Len(f)] = Mark("crc", f[2].num, f[2].value)
    <3>1. f[Len(f)] \in Cells /\ f[2] \in Cells
      BY <1>1
    <3>2. Mark("crc", f[2].num, f[2].value) \in Cells
      BY <3>1 DEF Cells, Mark
    <3>3. /\ Mark("crc", f[2].num, f[2].value).width = "crc"
          /\ Mark("crc", f[2].num, f[2].value).num = f[2].num
          /\ Mark("crc", f[2].num, f[2].value).value = f[2].value
      BY DEF Mark
    <3>4. f[Len(f)].width = "crc" /\ f[Len(f)].num = f[2].num /\ f[Len(f)].value = f[2].value
      BY DEF IsFrame
    <3> QED BY <3>1, <3>2, <3>3, <3>4, SameCell DEF Cells
  <2> QED BY <1>1, <2>1 DEF decode_frame, Last
<1> QED BY <1>7, <1>8

\* A receive that gives up leaves an end of the stream.
LEMMA DroppedParts ==
    ASSUME NEW F, NEW s, WellFramed(s, F), NEW t \in Dropped(s)
    PROVE  WellFramed(t, F) /\ \A i \in 1..Len(t) : \E j \in 1..Len(s) : t[i] = s[j]
<1>1. s \in Seq(Cells) /\ Len(s) \in Nat
  BY DEF WellFramed
<1>2. PICK k \in CutsOf(Len(s)) : t = SubSeq(s, k + 1, Len(s))
  BY DEF Dropped
<1>3. k \in 0..Len(s) /\ t = Rest(s, k)
  BY <1>1, <1>2 DEF CutsOf, Rest
<1>4. /\ WellFramed(t, F) /\ Len(t) = Len(s) - k
      /\ \A i \in 1..(Len(s) - k) : t[i] = s[i + k]
  BY <1>1, <1>3, RestFramed, RestCells
<1>5. \A i \in 1..Len(t) : i + k \in 1..Len(s) /\ t[i] = s[i + k]
  BY <1>1, <1>3, <1>4
<1> QED BY <1>4, <1>5

-----------------------------------------------------------------------------
(* Requests and answers on the streams *)

\* The frame of a request.
LEMMA RequestShape ==
    ASSUME NEW s \in Seq(Requests), NEW c \in 1..Len(s)
    PROVE  LET f == RequestFrame(s, c) IN
           /\ IsFrame(f)
           /\ f[2].width = "meta" /\ f[2].num = c
           /\ Len(f) = 4 + Len(Payload[s[c]]) /\ Len(Payload[s[c]]) \in Nat
           /\ f[3].width = "length" /\ f[3].num = Len(Payload[s[c]])
           /\ TypeOf(f) = s[c].type /\ PayloadOf(f) = Payload[s[c]]
<1> DEFINE f == RequestFrame(s, c)
<1>1. s[c] \in Requests /\ s[c] \in Catalogue /\ c \in Nat \ {0} /\ "request" \in Flags
  BY DEF Catalogue, Flags
<1>2. f = encode_frame(s[c], c, "request")
  BY DEF RequestFrame
<1> HIDE DEF f
<1>3. /\ IsFrame(f)
      /\ f[2] = Mark("meta", c, <<s[c].type, "request">>)
      /\ Len(f) = 4 + Len(Payload[s[c]])
      /\ f[3].width = "length" /\ f[3].num = Len(Payload[s[c]])
      /\ TypeOf(f) = s[c].type /\ PayloadOf(f) = Payload[s[c]]
  BY <1>1, <1>2, FrameShape
<1>4. f[2].width = "meta" /\ f[2].num = c
  BY <1>3 DEF Mark
<1>5. Len(Payload[s[c]]) \in Nat
  BY <1>1, CodecAssumption
<1> QED BY <1>3, <1>4, <1>5 DEF f

\* The frame of an answer.
LEMMA ResponseShape ==
    ASSUME NEW c \in Nat \ {0}, NEW t \in AnswerTypes
    PROVE  LET f == ResponseFrame(c, t) IN
           /\ IsFrame(f)
           /\ f[2].width = "meta" /\ f[2].num = c /\ f[2].value = <<t, "response">>
           /\ Len(f) = 4 + Len(Payload[Answer(t)]) /\ Len(Payload[Answer(t)]) \in Nat
           /\ f[3].width = "length" /\ f[3].num = Len(Payload[Answer(t)])
           /\ TypeOf(f) = t /\ PayloadOf(f) = Payload[Answer(t)]
<1> DEFINE f == ResponseFrame(c, t)
           m == Answer(t)
<1>1. m \in Catalogue /\ m.type = t /\ "response" \in Flags
  BY DEF Catalogue, Flags, Answer
<1>2. f = encode_frame(m, c, "response")
  BY DEF ResponseFrame
<1> HIDE DEF f, m
<1>3. /\ IsFrame(f)
      /\ f[2] = Mark("meta", c, <<m.type, "response">>)
      /\ Len(f) = 4 + Len(Payload[m])
      /\ f[3].width = "length" /\ f[3].num = Len(Payload[m])
      /\ TypeOf(f) = m.type /\ PayloadOf(f) = Payload[m]
  BY <1>1, <1>2, FrameShape
<1>4. f[2].width = "meta" /\ f[2].num = c /\ f[2].value = <<t, "response">>
  BY <1>1, <1>3 DEF Mark
<1>5. Len(Payload[m]) \in Nat
  BY <1>1, CodecAssumption
<1> QED BY <1>1, <1>3, <1>4, <1>5 DEF f, m

\* The headers on the way to the coordinator are those of requests.
LEMMA RequestHeaders ==
    ASSUME NEW s \in Seq(Requests)
    PROVE  /\ \A f \in RequestFrames(s) : IsFrame(f)
           /\ \A u : WellFramed(u, RequestFrames(s)) =>
                 \A i \in 1..Len(u) : u[i].width = "meta" => u[i].num \in 1..Len(s)
<1>1. ASSUME NEW f \in RequestFrames(s)
      PROVE  IsFrame(f) /\ f[2].num \in 1..Len(s)
  <2>1. PICK c \in 1..Len(s) : f = RequestFrame(s, c)
    BY DEF RequestFrames
  <2> QED BY <2>1, RequestShape
<1>2. ASSUME NEW u, WellFramed(u, RequestFrames(s)), NEW i \in 1..Len(u), u[i].width = "meta"
      PROVE  u[i].num \in 1..Len(s)
  <2>1. PICK f \in RequestFrames(s) : u[i] = f[2]
    BY <1>2 DEF WellFramed
  <2> QED BY <1>1, <2>1
<1> QED BY <1>1, <1>2

\* The headers on the way to the client are those of answers.
LEMMA ResponseHeaders ==
    ASSUME NEW t \in Seq(Told)
    PROVE  /\ \A f \in ResponseFrames(t) :
                 /\ IsFrame(f) /\ f[2].num \in 1..Len(t)
                 /\ \E type \in Range(t[f[2].num]) :
                       type \in AnswerTypes /\ f = ResponseFrame(f[2].num, type)
           /\ \A d : WellFramed(d, ResponseFrames(t)) =>
                 \A i \in 1..Len(d) : d[i].width = "meta" =>
                    d[i].num \in 1..Len(t) /\ Range(t[d[i].num]) # {}
<1>1. ASSUME NEW f \in ResponseFrames(t)
      PROVE  /\ IsFrame(f) /\ f[2].num \in 1..Len(t)
             /\ \E type \in Range(t[f[2].num]) :
                   type \in AnswerTypes /\ f = ResponseFrame(f[2].num, type)
  <2>1. PICK c \in 1..Len(t) : \E type \in Range(t[c]) : f = ResponseFrame(c, type)
    BY DEF ResponseFrames
  <2>2. PICK type \in Range(t[c]) : f = ResponseFrame(c, type)
    BY <2>1
  <2>3. c \in Nat \ {0} /\ t[c] \in Told
    OBVIOUS
  <2>4. type \in AnswerTypes
    BY <2>2, <2>3 DEF Told, Range, AnswerTypes
  <2>5. IsFrame(f) /\ f[2].num = c
    BY <2>2, <2>3, <2>4, ResponseShape
  <2> QED BY <2>2, <2>4, <2>5
<1>2. ASSUME NEW d, WellFramed(d, ResponseFrames(t)), NEW i \in 1..Len(d), d[i].width = "meta"
      PROVE  d[i].num \in 1..Len(t) /\ Range(t[d[i].num]) # {}
  <2>1. PICK f \in ResponseFrames(t) : d[i] = f[2]
    BY <1>2 DEF WellFramed
  <2> QED BY <1>1, <2>1
<1> QED BY <1>1, <1>2

\* Answers that stay told keep their frames.
LEMMA KeptAnswers ==
    ASSUME NEW t, NEW u,
           \A c \in 1..Len(t) : Range(t[c]) # {} => c \in 1..Len(u) /\ u[c] = t[c]
    PROVE  ResponseFrames(t) \subseteq ResponseFrames(u)
<1> SUFFICES ASSUME NEW c \in 1..Len(t), NEW type \in Range(t[c])
             PROVE  ResponseFrame(c, type) \in ResponseFrames(u)
  BY DEF ResponseFrames
<1>1. c \in 1..Len(u) /\ u[c] = t[c]
  OBVIOUS
<1> QED BY <1>1 DEF ResponseFrames

\* A request, or the beginning of one, is written.
LEMMA RequestWritten ==
    ASSUME NEW s \in Seq(Requests), NEW m \in Requests, NEW t \in Seq(Told), Len(t) = Len(s),
           NEW u, WellFramed(u, RequestFrames(s)), Untold(u, t),
           NEW k \in 1..Len(encode_frame(m, Len(s) + 1, "request"))
    PROVE  LET v == u \o SubSeq(encode_frame(m, Len(s) + 1, "request"), 1, k) IN
           /\ WellFramed(v, RequestFrames(Append(s, m)))
           /\ Untold(v, Append(t, <<>>))
<1> DEFINE f == encode_frame(m, Len(s) + 1, "request")
           v == u \o SubSeq(f, 1, k)
           z == Append(s, m)
           w == Append(t, <<>>)
<1>1. /\ z \in Seq(Requests) /\ Len(z) = Len(s) + 1 /\ Len(s) \in Nat
      /\ z[Len(s) + 1] = m /\ \A i \in 1..Len(s) : z[i] = s[i]
  BY AppendProperties
<1>2. /\ w \in Seq(Told) /\ Len(w) = Len(t) + 1
      /\ w[Len(t) + 1] = <<>> /\ \A i \in 1..Len(t) : w[i] = t[i]
  <2>1. <<>> \in Told
    BY DEF Told
  <2> QED BY <2>1, AppendProperties
<1> HIDE DEF f, z, w
<1>3. f = RequestFrame(z, Len(s) + 1) /\ Len(s) + 1 \in 1..Len(z)
  BY <1>1 DEF RequestFrame, f
<1>4. f \in RequestFrames(z) /\ IsFrame(f) /\ f[2].num = Len(s) + 1 /\ f[2].width = "meta"
  BY <1>1, <1>3, RequestShape DEF RequestFrames
<1>5. RequestFrames(s) \subseteq RequestFrames(z)
  <2> SUFFICES ASSUME NEW c \in 1..Len(s)
               PROVE  RequestFrame(s, c) \in RequestFrames(z)
    BY DEF RequestFrames
  <2>1. c \in 1..Len(z) /\ RequestFrame(s, c) = RequestFrame(z, c)
    BY <1>1 DEF RequestFrame
  <2> QED BY <2>1 DEF RequestFrames
<1>6. WellFramed(u, RequestFrames(z))
  BY <1>5, MoreFrames
<1>7. \A i \in 1..Len(u) : u[i].width = "meta" => u[i].num \in 1..Len(s)
  BY RequestHeaders
<1>8. \A i \in 1..Len(u) : u[i] # f[2]
  BY <1>1, <1>4, <1>7
<1>9. k \in 1..Len(f)
  BY DEF f
<1>10. WellFramed(v, RequestFrames(z))
  BY <1>4, <1>6, <1>8, <1>9, GrownFramed
<1>11. /\ u \in Seq(Cells) /\ f \in Seq(Cells) /\ Len(u) \in Nat /\ Len(f) \in Nat
  BY <1>4 DEF WellFramed, IsFrame
<1>12. /\ Len(v) = Len(u) + k
       /\ \A i \in 1..(Len(u) + k) : v[i] = IF i <= Len(u) THEN u[i] ELSE f[i - Len(u)]
  BY <1>9, <1>11, GrownCells
<1> HIDE DEF v
<1>13. ASSUME NEW i \in 1..Len(v), v[i].width = "meta"
       PROVE  w[v[i].num] = <<>>
  <2>1. CASE i <= Len(u)
    <3>1. i \in 1..Len(u) /\ v[i] = u[i]
      BY <1>11, <1>12, <2>1
    <3> QED BY <1>2, <1>7, <1>13, <3>1 DEF Untold
  <2>2. CASE ~(i <= Len(u))
    <3>1. i - Len(u) \in 1..Len(f) /\ v[i] = f[i - Len(u)]
      BY <1>9, <1>11, <1>12, <2>2
    <3>2. i - Len(u) = 2
      BY <1>4, <1>13, <3>1, FrameCells
    <3> QED BY <1>2, <1>4, <3>1, <3>2
  <2> QED BY <2>1, <2>2
<1> QED BY <1>10, <1>13 DEF Untold, f, v, z, w

\* A frame is written whole behind what is on the stream.
LEMMA WrittenWhole ==
    ASSUME NEW F, NEW s, WellFramed(s, F), NEW f \in F, IsFrame(f),
           \A i \in 1..Len(s) : s[i] # f[2]
    PROVE  /\ WellFramed(s \o f, F)
           /\ \A i \in 1..Len(s \o f) : (s \o f)[i].width = "meta" =>
                 (s \o f)[i] = f[2] \/ \E j \in 1..Len(s) : (s \o f)[i] = s[j]
<1>1. s \in Seq(Cells) /\ f \in Seq(Cells) /\ Len(f) \in Nat /\ Len(f) \in 1..Len(f) /\ Len(s) \in Nat
  BY DEF WellFramed, IsFrame
<1>2. SubSeq(f, 1, Len(f)) = f
  BY <1>1, SubSeqFull
<1>3. WellFramed(s \o f, F)
  BY <1>1, <1>2, GrownFramed
<1>4. /\ Len(s \o f) = Len(s) + Len(f)
      /\ \A i \in 1..(Len(s) + Len(f)) : (s \o f)[i] = IF i <= Len(s) THEN s[i] ELSE f[i - Len(s)]
  BY <1>1, ConcatProperties
<1>5. ASSUME NEW i \in 1..Len(s \o f), (s \o f)[i].width = "meta"
      PROVE  (s \o f)[i] = f[2] \/ \E j \in 1..Len(s) : (s \o f)[i] = s[j]
  <2>1. CASE i <= Len(s)
    <3>1. i \in 1..Len(s) /\ (s \o f)[i] = s[i]
      BY <1>1, <1>4, <2>1
    <3> QED BY <3>1
  <2>2. CASE ~(i <= Len(s))
    <3>1. i - Len(s) \in 1..Len(f) /\ (s \o f)[i] = f[i - Len(s)]
      BY <1>1, <1>4, <2>2
    <3>2. i - Len(s) = 2
      BY <1>5, <3>1, FrameCells
    <3> QED BY <3>1, <3>2
  <2> QED BY <2>1, <2>2
<1> QED BY <1>3, <1>5

\* The answers to a request that has none yet are written.
LEMMA AnswersWritten ==
    ASSUME NEW t \in Seq(Told), NEW c \in 1..Len(t), t[c] = <<>>, NEW a \in Told \ {<<>>},
           NEW d, WellFramed(d, ResponseFrames(t))
    PROVE  WellFramed(d \o AnswerFrames(a, c), ResponseFrames([t EXCEPT ![c] = a]))
<1> DEFINE u == [t EXCEPT ![c] = a]
           F == ResponseFrames(u)
<1>1. /\ u \in Seq(Told) /\ Len(u) = Len(t) /\ Len(t) \in Nat /\ c \in Nat \ {0}
      /\ \A j \in 1..Len(t) : u[j] = IF j = c THEN a ELSE t[j]
  BY ExceptSeq
<1>2. Range(<<>>) = {}
  BY DEF Range
<1>3. ResponseFrames(t) \subseteq ResponseFrames(u)
  <2> HIDE DEF u
  <2>1. \A e \in 1..Len(t) : Range(t[e]) # {} => e \in 1..Len(u) /\ u[e] = t[e]
    BY <1>1, <1>2
  <2> QED BY <2>1, KeptAnswers
<1>4. ASSUME NEW type \in Range(a)
      PROVE  ResponseFrame(c, type) \in F
  <2> HIDE DEF u
  <2>1. c \in 1..Len(u) /\ u[c] = a
    BY <1>1
  <2> QED BY <2>1 DEF ResponseFrames
<1> HIDE DEF u
<1>5. WellFramed(d, F)
  BY <1>3, MoreFrames
<1> HIDE DEF F
<1>6. \A i \in 1..Len(d) : d[i].width = "meta" => d[i].num # c
  BY <1>2, ResponseHeaders
<1>7. CASE \E x \in AnswerTypes : a = <<x>>
  <2>1. PICK x \in AnswerTypes : a = <<x>>
    BY <1>7
  <2> DEFINE f == ResponseFrame(c, x)
  <2>2. Len(a) = 1 /\ a[1] = x /\ x \in Range(a)
    BY <2>1 DEF Range
  <2>3. AnswerFrames(a, c) = f
    BY <2>2 DEF AnswerFrames, ResponseFrame
  <2>4. f \in F /\ IsFrame(f) /\ f[2].width = "meta" /\ f[2].num = c
    BY <1>1, <1>4, <2>2, ResponseShape
  <2> HIDE DEF f
  <2>5. \A i \in 1..Len(d) : d[i] # f[2]
    BY <1>6, <2>4
  <2>6. WellFramed(d \o f, F)
    BY <1>5, <2>4, <2>5, WrittenWhole
  <2> QED BY <2>3, <2>6 DEF F, u
<1>8. CASE a = <<"SnapshotResponse", "Result">>
  <2> DEFINE f == ResponseFrame(c, "SnapshotResponse")
             g == ResponseFrame(c, "Result")
  <2>1. /\ Len(a) = 2 /\ a[1] = "SnapshotResponse" /\ a[2] = "Result"
        /\ "SnapshotResponse" \in Range(a) /\ "Result" \in Range(a)
        /\ "SnapshotResponse" \in AnswerTypes /\ "Result" \in AnswerTypes
    BY <1>8 DEF Range, AnswerTypes
  <2>2. AnswerFrames(a, c) = f \o g
    BY <2>1 DEF AnswerFrames, ResponseFrame
  <2>3. /\ f \in F /\ IsFrame(f) /\ f[2].width = "meta" /\ f[2].num = c
        /\ f[2].value = <<"SnapshotResponse", "response">>
    BY <1>1, <1>4, <2>1, ResponseShape
  <2>4. /\ g \in F /\ IsFrame(g) /\ g[2].width = "meta" /\ g[2].num = c
        /\ g[2].value = <<"Result", "response">>
    BY <1>1, <1>4, <2>1, ResponseShape
  <2> HIDE DEF f, g
  <2>5. \A i \in 1..Len(d) : d[i] # f[2] /\ d[i] # g[2]
    BY <1>6, <2>3, <2>4
  <2>6. f[2] # g[2]
    BY <2>3, <2>4
  <2>7. /\ WellFramed(d \o f, F)
        /\ \A i \in 1..Len(d \o f) : (d \o f)[i].width = "meta" =>
              (d \o f)[i] = f[2] \/ \E j \in 1..Len(d) : (d \o f)[i] = d[j]
    BY <1>5, <2>3, <2>5, WrittenWhole
  <2>8. \A i \in 1..Len(d \o f) : (d \o f)[i] # g[2]
    BY <2>4, <2>5, <2>6, <2>7
  <2>9. WellFramed((d \o f) \o g, F)
    BY <2>4, <2>7, <2>8, WrittenWhole
  <2>10. (d \o f) \o g = d \o (f \o g)
    <3>1. d \in Seq(Cells) /\ f \in Seq(Cells) /\ g \in Seq(Cells)
      BY <1>5, <2>3, <2>4 DEF WellFramed, IsFrame
    <3> QED BY <3>1, ConcatAssociative
  <2> QED BY <2>2, <2>9, <2>10 DEF F, u
<1> QED BY <1>7, <1>8 DEF Told

\* What a handler may answer, and which boot the session has then.
LEMMA OutcomeShape ==
    ASSUME WireTypeOK, NEW type, NEW read,
           read.ok => \A f \in read.fields : Last(f[2]) \in Boots,
           NEW o \in Outcomes(type, read)
    PROVE  /\ \/ \E x \in AnswerTypes \ {"SnapshotResponse"} : o.types = <<x>>
              \/ type = "SnapshotRequest" /\ o.types = <<"SnapshotResponse", "Result">>
           /\ o.boot \in Boots \cup {None}
           /\ o.boot # bound => bound = None /\ type = "Register"
<1> DEFINE Plain(types) == [types |-> types, boot |-> bound]
           new == BootIn(read, <<"boot", "text">>)
           Short == {Plain(<<x>>) : x \in AnswerTypes \ {"SnapshotResponse"}}
           Both == Plain(<<"SnapshotResponse", "Result">>)
           Bound == [types |-> <<"RegisterAck">>, boot |-> new]
<1>1. /\ Plain(<<"Error">>) \in Short /\ Plain(<<"Result">>) \in Short
      /\ Plain(<<"HelloAck">>) \in Short /\ Plain(<<"RegisterAck">>) \in Short
  BY DEF AnswerTypes
<1> HIDE DEF new
<1>2. \/ o \in Short
      \/ type = "SnapshotRequest" /\ o = Both
      \/ type = "Register" /\ MayRegister(read) /\ o = Bound
  <2>1. CASE type = "Hello"
    <3>1. o = Plain(<<IF read.ok THEN "HelloAck" ELSE "Error">>)
      BY <2>1 DEF Outcomes
    <3> HIDE DEF Short, Plain
    <3> QED BY <1>1, <3>1
  <2>2. CASE type # "Hello" /\ session = "greeting"
    <3>1. o = Plain(<<"Error">>)
      BY <2>2 DEF Outcomes
    <3> QED BY <1>1, <3>1
  <2>3. CASE type = "Register" /\ session # "greeting"
    <3>1. o \in {Plain(<<"Error">>)} \cup
               (IF MayRegister(read) THEN {Plain(<<"RegisterAck">>), Bound} ELSE {})
      BY <2>3 DEF Outcomes, Mutations, new
    <3> HIDE DEF Short, Plain, Bound
    <3> QED BY <1>1, <2>3, <3>1
  <2>4. CASE type = "Query" /\ session # "greeting"
    <3>1. o = Plain(<<IF read.ok THEN "Result" ELSE "Error">>)
      BY <2>4 DEF Outcomes, Mutations
    <3> HIDE DEF Short, Plain
    <3> QED BY <1>1, <3>1
  <2>5. CASE /\ type \notin {"Hello", "Register", "Query"} /\ session # "greeting"
             /\ type \in Mutations /\ MayMutate(read)
    <3>1. o \in {Plain(<<"Result">>)} \cup
               (IF type = "SnapshotRequest" THEN {Both} ELSE {})
      BY <2>5 DEF Outcomes
    <3> HIDE DEF Short, Plain, Both
    <3> QED BY <1>1, <3>1
  <2>6. CASE /\ type \notin {"Hello", "Register", "Query"} /\ session # "greeting"
             /\ ~(type \in Mutations /\ MayMutate(read))
    <3>1. o = Plain(<<"Error">>)
      BY <2>6 DEF Outcomes
    <3> QED BY <1>1, <3>1
  <2> QED BY <2>1, <2>2, <2>3, <2>4, <2>5, <2>6
<1>3. bound \in Boots \cup {None}
  BY DEF WireTypeOK
<1>4. CASE o \in Short
  <2>1. PICK x \in AnswerTypes \ {"SnapshotResponse"} : o = Plain(<<x>>)
    BY <1>4
  <2>2. o.types = <<x>> /\ o.boot = bound
    BY <2>1
  <2> QED BY <1>3, <2>2
<1>5. CASE type = "SnapshotRequest" /\ o = Both
  <2>1. o.types = <<"SnapshotResponse", "Result">> /\ o.boot = bound
    BY <1>5
  <2> QED BY <1>3, <1>5, <2>1
<1>6. CASE type = "Register" /\ MayRegister(read) /\ o = Bound
  <2>1. o.types = <<"RegisterAck">> /\ o.boot = new
    BY <1>6
  <2>2. read.ok /\ new # None /\ bound \in {None, new}
    BY <1>6 DEF MayRegister, new
  <2>3. new \in Boots
    <3> DEFINE values == {f[2] : f \in {g \in read.fields : g[1] = <<"boot", "text">>}}
    <3>1. new = IF values = {} THEN None ELSE Last(CHOOSE v \in values : TRUE)
      BY DEF new, BootIn
    <3>2. \A v \in values : Last(v) \in Boots
      BY <2>2
    <3> HIDE DEF values
    <3> QED BY <2>2, <3>1, <3>2
  <2>4. "RegisterAck" \in AnswerTypes \ {"SnapshotResponse"}
    BY DEF AnswerTypes
  <2> QED BY <1>6, <2>1, <2>2, <2>3, <2>4
<1> QED BY <1>2, <1>4, <1>5, <1>6

-----------------------------------------------------------------------------
(* The client's steps *)

\* A request joins those sent, and its frame or the beginning of it the stream.
LEMMA SendKeeps ==
    ASSUME WireIndInv, NEW m \in NextRequests, sent' = Append(sent, m), told' = Append(told, <<>>),
           NEW k \in 1..Len(encode_frame(m, Len(sent) + 1, "request")),
           up' = up \o SubSeq(encode_frame(m, Len(sent) + 1, "request"), 1, k),
           awaiting' \in {0, Len(sent')}, faults' \in 0..MaxFaults,
           UNCHANGED <<open, down, session, bound, handled, applied, concluded, mismatched>>
    PROVE  /\ WireTypeOK' /\ HistoryOK'
           /\ WellFramed(up, RequestFrames(sent))' /\ WellFramed(down, ResponseFrames(told))'
           /\ Untold(up, told)' /\ HandledAsSent' /\ ConcludesOwnAnswer'
           /\ Len(sent') = Len(sent) + 1 /\ sent'[Len(sent) + 1] = m
           /\ \A i \in 1..Len(sent) : sent'[i] = sent[i]
<1> USE DEF WireIndInv
<1>1. m \in Requests /\ Len(Payload[m]) <= MaxPayload
  <2>1. PICK c \in Conversations : Len(c) > Len(sent) /\ m = c[Len(sent) + 1]
    BY DEF NextRequests
  <2>2. c \in Seq(Requests) /\ Len(sent) \in Nat
    BY WireAssumption DEF WireTypeOK
  <2>3. Len(sent) + 1 \in 1..Len(c)
    BY <2>1, <2>2
  <2>4. Len(Payload[m]) <= MaxPayload
    BY DEF NextRequests
  <2> QED BY <2>1, <2>2, <2>3, <2>4
<1>2. sent \in Seq(Requests) /\ told \in Seq(Told) /\ Len(told) = Len(sent) /\ Len(sent) \in Nat
  BY DEF WireTypeOK, HistoryOK
<1>3. /\ sent' \in Seq(Requests) /\ Len(sent') = Len(sent) + 1
      /\ sent'[Len(sent) + 1] = m /\ \A i \in 1..Len(sent) : sent'[i] = sent[i]
  BY <1>1, <1>2, AppendProperties
<1>4. /\ told' \in Seq(Told) /\ Len(told') = Len(told) + 1
      /\ told'[Len(told) + 1] = <<>> /\ \A i \in 1..Len(told) : told'[i] = told[i]
  <2>1. <<>> \in Told
    BY DEF Told
  <2> QED BY <1>2, <2>1, AppendProperties
<1>5. WellFramed(up', RequestFrames(sent')) /\ Untold(up', told')
  <2>1. WellFramed(up, RequestFrames(sent)) /\ Untold(up, told)
    OBVIOUS
  <2> QED BY <1>1, <1>2, <2>1, RequestWritten
<1>6. WellFramed(down', ResponseFrames(told'))
  <2>1. ResponseFrames(told) \subseteq ResponseFrames(told')
    <3>1. \A c \in 1..Len(told) : c \in 1..Len(told') /\ told'[c] = told[c]
      BY <1>2, <1>4
    <3> QED BY <3>1, KeptAnswers
  <2> QED BY <2>1, MoreFrames
<1>7. WireTypeOK'
  BY <1>2, <1>3, <1>4 DEF WireTypeOK
<1>8. HistoryOK'
  <2>1. \A i \in 1..Len(sent') : Len(Payload[sent'[i]]) <= MaxPayload
    <3> TAKE i \in 1..Len(sent')
    <3>1. i \in 1..Len(sent) \/ i = Len(sent) + 1
      BY <1>2, <1>3
    <3> QED BY <1>1, <1>3, <3>1 DEF HistoryOK
  <2>2. \A i \in 1..Len(sent) : i \in 1..Len(sent')
    BY <1>2, <1>3
  <2> QED BY <1>4, <2>1, <2>2 DEF HistoryOK
<1>9. HandledAsSent'
  BY <1>3 DEF HandledAsSent, HistoryOK
<1>10. ConcludesOwnAnswer'
  BY <1>2, <1>4 DEF ConcludesOwnAnswer, HistoryOK
<1> QED BY <1>3, <1>5, <1>6, <1>7, <1>8, <1>9, <1>10

\* exchange sends a request.
LEMMA RequestKeepsInv ==
    ASSUME WireIndInv, NEW m \in NextRequests, Request(m)
    PROVE  WireIndInv'
<1> DEFINE f == encode_frame(m, Len(sent) + 1, "request")
<1>1. /\ sent \in Seq(Requests) /\ Len(sent) \in Nat /\ m \in Requests
  <2>1. PICK c \in Conversations : Len(c) > Len(sent) /\ m = c[Len(sent) + 1]
    BY DEF NextRequests
  <2>2. c \in Seq(Requests) /\ Len(sent) \in Nat /\ sent \in Seq(Requests)
    BY WireAssumption DEF WireIndInv, WireTypeOK
  <2>3. Len(sent) + 1 \in 1..Len(c)
    BY <2>1, <2>2
  <2> QED BY <2>1, <2>2, <2>3
<1>2. sent' \in Seq(Requests) /\ Len(sent') = Len(sent) + 1 /\ sent'[Len(sent) + 1] = m
  BY <1>1, AppendProperties DEF Request
<1>3. f = RequestFrame(sent', Len(sent')) /\ Len(sent') \in 1..Len(sent')
  BY <1>1, <1>2 DEF RequestFrame
<1>4. IsFrame(f)
  BY <1>2, <1>3, RequestShape
<1>5. up' = up \o f /\ awaiting' = Len(sent')
  BY <1>2 DEF Request
<1> HIDE DEF f
<1>6. f \in Seq(Cells) /\ Len(f) \in Nat /\ Len(f) >= 4 /\ Len(f) \in 1..Len(f)
  BY <1>4 DEF IsFrame
<1>7. SubSeq(f, 1, Len(f)) = f
  BY <1>6, SubSeqFull
<1>8. up' = up \o SubSeq(f, 1, Len(f))
  BY <1>5, <1>7
<1>9. /\ WireTypeOK' /\ HistoryOK'
      /\ WellFramed(up, RequestFrames(sent))' /\ WellFramed(down, ResponseFrames(told))'
      /\ Untold(up, told)' /\ HandledAsSent' /\ ConcludesOwnAnswer'
      /\ \A i \in 1..Len(sent) : sent'[i] = sent[i]
  <2>1. sent' = Append(sent, m) /\ told' = Append(told, <<>>)
    BY DEF Request
  <2>2. UNCHANGED <<open, down, session, bound, handled, applied, concluded, mismatched>>
    BY DEF Request
  <2>3. awaiting' \in {0, Len(sent')}
    BY <1>5
  <2>4. faults' \in 0..MaxFaults
    BY DEF Request, WireIndInv, WireTypeOK
  <2> QED BY <1>6, <1>8, <2>1, <2>2, <2>3, <2>4, SendKeeps DEF f
<1>10. ASSUME Undisturbed'
       PROVE  InStep'
  <2>1. Undisturbed
    <3>1. faults = 0
      BY <1>10 DEF Undisturbed, Request
    <3>2. DOMAIN sent = 1..Len(sent) /\ DOMAIN sent' = 1..Len(sent')
      BY <1>1, <1>2
    <3>3. \A i \in DOMAIN sent : i \in DOMAIN sent' /\ sent'[i] = sent[i]
      BY <1>1, <1>2, <1>9, <3>2
    <3>4. ASSUME sent # <<>> PROVE sent[1].type = "Hello"
      <4>1. 1 \in DOMAIN sent /\ sent' # <<>>
        BY <1>1, <1>2, <3>2, <3>4
      <4> QED BY <1>10, <3>3, <4>1 DEF Undisturbed
    <3> QED BY <1>10, <3>1, <3>3, <3>4 DEF Undisturbed
  <2>2. InStep /\ awaiting = 0 /\ open
    BY <2>1 DEF WireIndInv, Request
  <2>3. up = <<>> /\ down = <<>>
    BY <2>2 DEF InStep
  <2>4. up' = f
    BY <1>5, <1>6, <2>3, ConcatEmptySeq
  <2>5. ASSUME session = "greeting"
        PROVE  sent = <<>>
    <3>1. ASSUME Len(sent) = 1, up = RequestFrame(sent, 1) PROVE FALSE
      <4>1. 1 \in 1..Len(sent)
        BY <3>1
      <4>2. IsFrame(up)
        BY <1>1, <3>1, <4>1, RequestShape
      <4> QED BY <2>3, <4>2 DEF IsFrame
    <3> QED BY <2>2, <2>5, <3>1 DEF InStep
  <2>6. session' = "greeting" => Len(sent') = 1 /\ up' = RequestFrame(sent', 1)
    <3>1. sent = <<>> => Len(sent) = 0
      OBVIOUS
    <3> QED BY <1>2, <1>3, <2>4, <2>5, <3>1 DEF Request
  <2>7. /\ ~mismatched' /\ (open' => session' # "ended") /\ open' /\ down' = <<>>
        /\ up' = RequestFrame(sent', awaiting') /\ awaiting' # 0
    BY <1>1, <1>2, <1>3, <1>5, <2>2, <2>3, <2>4 DEF InStep, Request
  <2> QED BY <2>6, <2>7 DEF InStep
<1> QED BY <1>9, <1>10 DEF WireIndInv

\* exchange gives up in the middle of sending.
LEMMA RequestCutKeepsInv ==
    ASSUME WireIndInv, NEW m \in NextRequests, RequestCut(m)
    PROVE  WireIndInv'
<1> DEFINE f == encode_frame(m, Len(sent) + 1, "request")
<1>1. sent \in Seq(Requests) /\ Len(sent) \in Nat
  BY DEF WireIndInv, WireTypeOK
<1>2. sent' = Append(sent, m) /\ Len(sent') = Len(sent) + 1
  <2>1. sent' = Append(sent, m)
    BY DEF RequestCut
  <2>2. Len(Append(sent, m)) = Len(sent) + 1
    BY <1>1
  <2> QED BY <2>1, <2>2
<1>3. PICK k \in CutsOf(Len(f)) \ {Len(f)} : up' = up \o SubSeq(f, 1, k)
  BY <1>2 DEF RequestCut
<1>4. k \in 1..Len(f)
  BY <1>3 DEF CutsOf
<1>5. faults \in 0..MaxFaults /\ faults' = faults + 1 /\ faults < MaxFaults /\ MaxFaults \in Nat
  BY WireAssumption DEF RequestCut, Fault, WireIndInv, WireTypeOK
<1>6. faults' \in 0..MaxFaults /\ faults' # 0
  BY <1>5
<1>7. awaiting' \in {0, Len(sent')}
  BY DEF RequestCut
<1> HIDE DEF f
<1>8. /\ WireTypeOK' /\ HistoryOK'
      /\ WellFramed(up, RequestFrames(sent))' /\ WellFramed(down, ResponseFrames(told))'
      /\ Untold(up, told)' /\ HandledAsSent' /\ ConcludesOwnAnswer'
  <2>1. told' = Append(told, <<>>)
    BY DEF RequestCut
  <2>2. UNCHANGED <<open, down, session, bound, handled, applied, concluded, mismatched>>
    BY DEF RequestCut
  <2> QED BY <1>2, <1>3, <1>4, <1>6, <1>7, <2>1, <2>2, SendKeeps DEF f
<1>9. ~Undisturbed'
  BY <1>6 DEF Undisturbed
<1> QED BY <1>8, <1>9 DEF WireIndInv

\* Nothing is received from an empty stream.
LEMMA NothingReceived == Received(<<>>) = {}
<1>1. Len(<<>>) = 0 /\ kFrameHeader = 3
  BY DEF kFrameHeader
<1> QED BY <1>1 DEF Received

\* exchange receives an answer, and what its callers make of it.
LEMMA TakeAnswerKeepsInv ==
    ASSUME WireIndInv, TakeAnswer
    PROVE  WireIndInv'
<1> USE DEF WireIndInv
<1>1. PICK r \in Received(down) :
        /\ down' = r.rest
        /\ IF /\ r.status = "Ok" /\ Matches(r.frame[2])
              /\ TypeOf(r.frame) \in Readable
              /\ Decode(TypeOf(r.frame), PayloadOf(r.frame), 0).ok
           THEN /\ \E read \in {Decode(TypeOf(r.frame), PayloadOf(r.frame), 0)} :
                     concluded' = [corr |-> awaiting, type |-> TypeOf(r.frame),
                                   faithful |-> read.fields = Meaning[Answer(TypeOf(r.frame))]]
                /\ UNCHANGED mismatched
           ELSE mismatched' = TRUE /\ UNCHANGED concluded
  BY DEF TakeAnswer
<1>2. /\ open /\ awaiting # 0 /\ awaiting' = 0
      /\ UNCHANGED <<sent, open, up, session, bound, handled, told, applied, faults>>
  BY DEF TakeAnswer
<1>3. /\ sent \in Seq(Requests) /\ told \in Seq(Told) /\ Len(told) = Len(sent) /\ Len(sent) \in Nat
      /\ awaiting = Len(sent) /\ awaiting \in 1..Len(sent)
  BY <1>2 DEF WireTypeOK, HistoryOK
<1> DEFINE F == ResponseFrames(told)
           G == /\ r.status = "Ok" /\ Matches(r.frame[2])
                /\ TypeOf(r.frame) \in Readable
                /\ Decode(TypeOf(r.frame), PayloadOf(r.frame), 0).ok
<1>4. /\ \A f \in F : IsFrame(f) /\ \E type \in Range(told[f[2].num]) :
            type \in AnswerTypes /\ f = ResponseFrame(f[2].num, type)
      /\ \A f \in F : f[2].num \in 1..Len(told)
  BY <1>3, ResponseHeaders
<1>5. WellFramed(r.rest, F) /\ (r.status = "Ok" => r.frame \in F)
  BY <1>4, ReceivedParts
<1>6. ASSUME NEW t \in AnswerTypes, t \in Readable
      PROVE  /\ Decode(t, Payload[Answer(t)], 0).ok
             /\ Decode(t, Payload[Answer(t)], 0).fields = Meaning[Answer(t)]
  <2>1. Answer(t) \in Catalogue /\ Answer(t).type = t
    BY DEF Catalogue, Answer
  <2>2. Admits(Answer(t), 0)
    BY AnswerAssumption
  <2>3. /\ Decode(Answer(t).type, Payload[Answer(t)], 0).ok = Admits(Answer(t), 0)
        /\ Decode(Answer(t).type, Payload[Answer(t)], 0).ok =>
              Decode(Answer(t).type, Payload[Answer(t)], 0).fields = Meaning[Answer(t)]
    BY <1>6, <2>1, CodecAssumption
  <2> QED BY <2>1, <2>2, <2>3
<1>7. ASSUME G
      PROVE  /\ concluded'.corr = awaiting /\ concluded'.faithful
             /\ concluded'.type \in Range(told[awaiting])
             /\ mismatched' = mismatched
  <2>1. r.frame \in F /\ r.frame[2].num = awaiting
    BY <1>5, <1>7 DEF Matches
  <2>2. PICK type \in Range(told[awaiting]) :
          type \in AnswerTypes /\ r.frame = ResponseFrame(awaiting, type)
    BY <1>4, <2>1
  <2>3. TypeOf(r.frame) = type /\ PayloadOf(r.frame) = Payload[Answer(type)]
    BY <1>3, <2>2, ResponseShape
  <2>4. /\ concluded' = [corr |-> awaiting, type |-> type,
                         faithful |-> Decode(type, Payload[Answer(type)], 0).fields
                                        = Meaning[Answer(type)]]
        /\ mismatched' = mismatched
    BY <1>1, <1>7, <2>3
  <2>5. Decode(type, Payload[Answer(type)], 0).fields = Meaning[Answer(type)]
    BY <1>6, <1>7, <2>2, <2>3
  <2> QED BY <2>4, <2>5
<1>8. ASSUME ~G
      PROVE  mismatched' = TRUE /\ concluded' = concluded
  BY <1>1, <1>8
<1>9. WellFramed(down', ResponseFrames(told'))
  BY <1>1, <1>2, <1>5
<1>10. ASSUME Undisturbed
       PROVE  InStep' /\ G
  <2>1. InStep
    BY <1>10
  <2>2. down # <<>>
    BY <1>1, NothingReceived
  <2>3. PICK t \in AnswerTypes \ {"SnapshotResponse"} :
          up = <<>> /\ down = ResponseFrame(awaiting, t)
    BY <1>2, <2>1, <2>2 DEF InStep
  <2>4. /\ IsFrame(down) /\ Len(down) = 4 + Len(Payload[Answer(t)])
        /\ down[2].num = awaiting /\ down[2].value = <<t, "response">>
        /\ down[3].width = "length" /\ down[3].num = Len(Payload[Answer(t)])
        /\ TypeOf(down) = t /\ PayloadOf(down) = Payload[Answer(t)]
        /\ Len(Payload[Answer(t)]) \in Nat
    BY <1>3, <2>3, ResponseShape
  <2>5. down[3].num = Len(down) - 4 /\ Len(down) - 4 <= MaxPayload
    BY <2>3, <2>4, AnswerAssumption
  <2>6. r.status = "Ok" /\ r.frame = down /\ r.rest = <<>>
    BY <2>4, <2>5, ReceivedWhole
  <2>7. t \in Readable
    BY <2>3, AnswerAssumption
  <2>8. down[2].value[2] = "response"
    BY <2>4
  <2>9. G
    BY <1>6, <2>4, <2>6, <2>7, <2>8 DEF Matches
  <2>10. mismatched' = mismatched
    BY <1>7, <2>9
  <2>11. up' = <<>> /\ down' = <<>>
    BY <1>1, <1>2, <2>3, <2>6
  <2> HIDE DEF G
  <2> QED BY <1>2, <2>1, <2>9, <2>10, <2>11 DEF InStep
<1>11. WireTypeOK'
  BY <1>2 DEF WireTypeOK
<1>12. HistoryOK' /\ ConcludesOwnAnswer'
  <2>1. CASE G
    <3> HIDE DEF G
    <3> QED BY <1>2, <1>3, <1>7, <2>1 DEF HistoryOK, ConcludesOwnAnswer
  <2>2. CASE ~G
    <3> HIDE DEF G
    <3> QED BY <1>2, <1>3, <1>8, <2>2 DEF HistoryOK, ConcludesOwnAnswer
  <2> QED BY <2>1, <2>2
<1>13. HandledAsSent'
  BY <1>2 DEF HandledAsSent
<1>14. Undisturbed' => InStep'
  BY <1>2, <1>10 DEF Undisturbed
<1> QED BY <1>2, <1>9, <1>11, <1>12, <1>13, <1>14

\* The answer does not come in time.
LEMMA AnswerTimesOutKeepsInv ==
    ASSUME WireIndInv, AnswerTimesOut
    PROVE  WireIndInv'
<1> USE DEF WireIndInv
<1>1. /\ awaiting' = 0 /\ down' \in {down} \cup Dropped(down)
      /\ UNCHANGED <<sent, open, up, session, bound, handled, told, applied, concluded, mismatched>>
  BY DEF AnswerTimesOut
<1>2. faults \in 0..MaxFaults /\ faults' = faults + 1 /\ faults < MaxFaults /\ MaxFaults \in Nat
  BY WireAssumption DEF AnswerTimesOut, Fault, WireTypeOK
<1>3. WellFramed(down', ResponseFrames(told'))
  BY <1>1, DroppedParts
<1>4. WireTypeOK'
  BY <1>1, <1>2 DEF WireTypeOK
<1>5. HistoryOK' /\ HandledAsSent' /\ ConcludesOwnAnswer'
  BY <1>1 DEF HistoryOK, HandledAsSent, ConcludesOwnAnswer
<1>6. ~Undisturbed'
  BY <1>2 DEF Undisturbed
<1> QED BY <1>1, <1>3, <1>4, <1>5, <1>6

\* The session has ended before the answer was whole.
LEMMA AnswerFailsKeepsInv ==
    ASSUME WireIndInv, AnswerFails
    PROVE  WireIndInv'
<1> USE DEF WireIndInv
<1>1. /\ awaiting' = 0 /\ down' = <<>> /\ open /\ session = "ended" /\ mismatched' = TRUE
      /\ UNCHANGED <<sent, open, up, session, bound, handled, told, applied, concluded, faults>>
  BY DEF AnswerFails
<1>2. WellFramed(down', ResponseFrames(told'))
  BY <1>1, EmptyFramed
<1>3. WireTypeOK'
  BY <1>1 DEF WireTypeOK
<1>4. HistoryOK' /\ HandledAsSent' /\ ConcludesOwnAnswer'
  BY <1>1 DEF HistoryOK, HandledAsSent, ConcludesOwnAnswer
<1>5. ~Undisturbed'
  BY <1>1 DEF Undisturbed, InStep
<1> QED BY <1>1, <1>2, <1>3, <1>4, <1>5

\* The client closes.
LEMMA CloseKeepsInv ==
    ASSUME WireIndInv, Close
    PROVE  WireIndInv'
<1> USE DEF WireIndInv
<1>1. /\ awaiting = 0 /\ open' = FALSE
      /\ UNCHANGED <<sent, awaiting, up, down, session, bound, handled, told, applied, concluded,
                     mismatched, faults>>
  BY DEF Close
<1>2. WireTypeOK'
  BY <1>1 DEF WireTypeOK
<1>3. HistoryOK' /\ HandledAsSent' /\ ConcludesOwnAnswer'
  BY <1>1 DEF HistoryOK, HandledAsSent, ConcludesOwnAnswer
<1>4. Undisturbed' => InStep'
  BY <1>1 DEF Undisturbed, InStep
<1> QED BY <1>1, <1>2, <1>3, <1>4

-----------------------------------------------------------------------------
(* The session's steps *)

\* A request on its way is the one awaited, while nothing has gone wrong.
LEMMA InStepReceives ==
    ASSUME WireTypeOK, HistoryOK, InStep, NEW r \in Received(up)
    PROVE  /\ awaiting # 0 /\ awaiting = Len(sent) /\ up = RequestFrame(sent, awaiting)
           /\ down = <<>> /\ open
           /\ r.status = "Ok" /\ r.frame = up /\ r.rest = <<>>
<1>1. up # <<>>
  BY NothingReceived
<1>2. awaiting # 0 /\ up = RequestFrame(sent, awaiting) /\ down = <<>> /\ open
  BY <1>1 DEF InStep
<1>3. /\ awaiting = Len(sent) /\ sent \in Seq(Requests) /\ awaiting \in 1..Len(sent)
      /\ Len(Payload[sent[awaiting]]) <= MaxPayload
  BY <1>2 DEF WireTypeOK, HistoryOK
<1>4. /\ IsFrame(up) /\ Len(up) = 4 + Len(Payload[sent[awaiting]])
      /\ Len(Payload[sent[awaiting]]) \in Nat
      /\ up[3].width = "length" /\ up[3].num = Len(Payload[sent[awaiting]])
  BY <1>2, <1>3, RequestShape
<1>5. up[3].num = Len(up) - 4 /\ Len(up) - 4 <= MaxPayload
  BY <1>3, <1>4
<1>6. r.status = "Ok" /\ r.frame = up /\ r.rest = <<>>
  BY <1>4, <1>5, ReceivedWhole
<1> QED BY <1>2, <1>3, <1>6

\* serve: a request is received, handled and answered.
LEMMA ServeKeepsInv ==
    ASSUME WireIndInv, Serve
    PROVE  WireIndInv'
<1> USE DEF WireIndInv
<1>1. /\ session # "ended"
      /\ UNCHANGED <<sent, awaiting, open, concluded, mismatched, faults>>
  BY DEF Serve
<1>2. PICK r \in Received(up) :
        /\ r.status = "Ok" /\ up' = r.rest
        /\ \E read \in {Decode(TypeOf(r.frame), PayloadOf(r.frame), MaxItems)} :
              Handle(r.frame[2].num, TypeOf(r.frame), read)
  BY DEF Serve
<1>3. /\ sent \in Seq(Requests) /\ told \in Seq(Told) /\ Len(told) = Len(sent) /\ Len(sent) \in Nat
  BY DEF WireTypeOK, HistoryOK
<1> DEFINE F == RequestFrames(sent)
           c == r.frame[2].num
           type == TypeOf(r.frame)
           m == sent[c]
           read == Decode(type, PayloadOf(r.frame), MaxItems)
<1>4. \A f \in F : IsFrame(f)
  BY <1>3, RequestHeaders
<1>5. /\ WellFramed(r.rest, F) /\ r.frame \in F
      /\ \A i \in 1..Len(r.rest) : \E j \in 1..Len(up) : r.rest[i] = up[j]
      /\ \A i \in 1..Len(r.rest) : r.rest[i] # r.frame[2]
      /\ r.frame[2] = up[2] /\ 2 \in 1..Len(up)
  <2>1. WellFramed(up, F)
    OBVIOUS
  <2>2. r.status = "Ok"
    BY <1>2
  <2> HIDE DEF F, WireIndInv
  <2>3. /\ WellFramed(r.rest, F)
        /\ \A i \in 1..Len(r.rest) : \E j \in 1..Len(up) : r.rest[i] = up[j]
        /\ r.status = "Ok" => /\ r.frame \in F
                              /\ \A i \in 1..Len(r.rest) : r.rest[i] # r.frame[2]
                              /\ r.frame[2] = up[2] /\ 2 \in 1..Len(up)
    BY <1>4, <2>1, ReceivedParts
  <2> QED BY <2>2, <2>3
<1>6. PICK e \in 1..Len(sent) : r.frame = RequestFrame(sent, e)
  BY <1>5 DEF RequestFrames
<1>7. /\ c = e /\ r.frame[2].width = "meta" /\ type = sent[e].type
      /\ PayloadOf(r.frame) = Payload[sent[e]]
  BY <1>3, <1>6, RequestShape
<1>8. c \in 1..Len(sent) /\ type = m.type /\ PayloadOf(r.frame) = Payload[m] /\ m \in Requests
  BY <1>3, <1>7
<1>9. told[c] = <<>>
  BY <1>5, <1>7 DEF Untold
<1>10. /\ read.ok = Admits(m, MaxItems)
       /\ read.ok => read.fields = Meaning[m]
       /\ read.ok => \A f \in read.fields : Last(f[2]) \in Boots
  <2>1. m \in Catalogue /\ m.type \in Readable
    BY <1>8, WireAssumption DEF Catalogue
  <2>2. /\ Decode(m.type, Payload[m], MaxItems).ok = Admits(m, MaxItems)
        /\ Decode(m.type, Payload[m], MaxItems).ok =>
              Decode(m.type, Payload[m], MaxItems).fields = Meaning[m]
    BY <2>1, CodecAssumption
  <2>3. \A f \in Meaning[m] : Last(f[2]) \in Boots
    BY <1>8, CodecAssumption
  <2>4. read = Decode(m.type, Payload[m], MaxItems)
    BY <1>8
  <2> QED BY <2>2, <2>3, <2>4
<1>11. Handle(c, type, read)
  BY <1>2
<1> HIDE DEF F, c, type, m, read
<1>12. PICK o \in Outcomes(type, read) :
         /\ bound' = o.boot
         /\ told' = [told EXCEPT ![c] = o.types]
         /\ down' = down \o AnswerFrames(o.types, c)
  BY <1>11 DEF Handle, Answers
<1>13. /\ handled' = [corr |-> c, type |-> type, ok |-> read.ok,
                      faithful |-> read.fields = Meaning[m]]
       /\ applied' = applied \cup Applied(type, read)
       /\ session' = IF session = "greeting" /\ type # "Hello" THEN "ended" ELSE "serving"
  BY <1>11 DEF Handle, m
<1>14. /\ \/ \E x \in AnswerTypes \ {"SnapshotResponse"} : o.types = <<x>>
          \/ type = "SnapshotRequest" /\ o.types = <<"SnapshotResponse", "Result">>
       /\ o.boot \in Boots \cup {None}
       /\ o.boot # bound => bound = None /\ type = "Register"
  BY <1>10, OutcomeShape
<1>15. o.types \in Told \ {<<>>}
  <2>1. CASE \E x \in AnswerTypes \ {"SnapshotResponse"} : o.types = <<x>>
    <3>1. PICK x \in AnswerTypes : o.types = <<x>>
      BY <2>1
    <3>2. Len(o.types) = 1
      BY <3>1
    <3>3. o.types # <<>>
      BY <3>2
    <3> QED BY <3>1, <3>3 DEF Told
  <2>2. CASE o.types = <<"SnapshotResponse", "Result">>
    <3>1. Len(o.types) = 2
      BY <2>2
    <3>2. o.types # <<>>
      BY <3>1
    <3> QED BY <2>2, <3>2 DEF Told
  <2> QED BY <1>14, <2>1, <2>2
<1>16. /\ told' \in Seq(Told) /\ Len(told') = Len(told)
       /\ \A j \in 1..Len(told) : j # c => told'[j] = told[j]
  <2>1. c \in 1..Len(told) /\ o.types \in Told
    BY <1>3, <1>8, <1>15
  <2> QED BY <1>3, <1>12, <2>1, ExceptSeq
<1>17. WellFramed(down', ResponseFrames(told'))
  <2>1. c \in 1..Len(told)
    BY <1>3, <1>8
  <2>2. WellFramed(down, ResponseFrames(told))
    OBVIOUS
  <2>3. WellFramed(down \o AnswerFrames(o.types, c), ResponseFrames([told EXCEPT ![c] = o.types]))
    BY <1>3, <1>9, <1>15, <2>1, <2>2, AnswersWritten
  <2> QED BY <1>12, <2>3
<1>18. WellFramed(up', RequestFrames(sent'))
  BY <1>1, <1>2, <1>5 DEF F
<1>19. Untold(up', told')
  <2> SUFFICES ASSUME NEW i \in 1..Len(up'), up'[i].width = "meta"
               PROVE  told'[up'[i].num] = <<>>
    BY DEF Untold
  <2>1. PICK j \in 1..Len(up) : up'[i] = up[j]
    BY <1>2, <1>5
  <2>2. up[j].num \in 1..Len(sent) /\ told[up[j].num] = <<>>
    BY <1>3, <2>1, RequestHeaders DEF Untold
  <2>3. up[j].num # c
    <3>1. up[j] # up[2]
      BY <1>2, <1>5, <2>1
    <3>2. PICK g \in F : up[j] = g[2]
      BY <2>1 DEF WellFramed, F
    <3>3. PICK d \in 1..Len(sent) : g = RequestFrame(sent, d)
      BY <3>2 DEF RequestFrames, F
    <3>4. up[j].num = d
      BY <1>3, <3>2, <3>3, RequestShape
    <3>5. d # e
      BY <1>5, <1>6, <3>1, <3>2, <3>3
    <3> QED BY <1>7, <3>4, <3>5 DEF c
  <2> QED BY <1>3, <1>16, <2>1, <2>2, <2>3
<1>20. WireTypeOK' /\ HistoryOK'
  <2>1. bound \in Boots \cup {None} /\ applied \subseteq {bound} /\ applied \subseteq Boots
    BY DEF WireTypeOK, HistoryOK
  <2>2. applied' \subseteq Boots /\ applied' \subseteq {bound'}
    <3>1. CASE type = "Register"
      <4>1. Applied(type, read) = IF bound' # bound THEN {bound'} ELSE {}
        BY <3>1 DEF Applied, Mutations
      <4>2. bound' # bound => bound = None /\ applied = {}
        BY <1>12, <1>14, <2>1, WireAssumption
      <4> QED BY <1>12, <1>13, <1>14, <2>1, <4>1, <4>2
    <3>2. CASE type # "Register"
      <4>1. bound' = bound
        BY <1>12, <1>14, <3>2
      <4>2. Applied(type, read) \subseteq {bound} \cap Boots
        <5>1. CASE type \in Mutations /\ session = "serving" /\ MayMutate(read)
          <6>1. Applied(type, read) = {BootIn(read, <<"authority", "boot", "text">>)}
            BY <3>2, <5>1 DEF Applied
          <6>2. BootIn(read, <<"authority", "boot", "text">>) = bound /\ bound # None
            BY <5>1 DEF MayMutate
          <6> QED BY <2>1, <6>1, <6>2
        <5>2. CASE ~(type \in Mutations /\ session = "serving" /\ MayMutate(read))
          BY <3>2, <5>2 DEF Applied
        <5> QED BY <5>1, <5>2
      <4> QED BY <1>13, <2>1, <4>1, <4>2
    <3> QED BY <3>1, <3>2
  <2>3. WireTypeOK'
    BY <1>1, <1>3, <1>12, <1>13, <1>14, <1>16, <2>2 DEF WireTypeOK
  <2>4. handled'.corr = c
    BY <1>13
  <2>5. HistoryOK'
    BY <1>1, <1>8, <1>16, <2>2, <2>4 DEF HistoryOK
  <2> QED BY <2>3, <2>5
<1>21. HandledAsSent'
  <2>1. /\ handled'.corr = c /\ handled'.type = type /\ handled'.ok = read.ok
        /\ handled'.faithful = (read.fields = Meaning[m])
    BY <1>13
  <2>2. sent'[c] = m
    BY <1>1 DEF m
  <2> QED BY <1>8, <1>10, <2>1, <2>2 DEF HandledAsSent
<1>22. ConcludesOwnAnswer'
  <2> SUFFICES ASSUME concluded.corr # 0
               PROVE  concluded.faithful /\ concluded.type \in Range(told'[concluded.corr])
    BY <1>1 DEF ConcludesOwnAnswer
  <2>1. /\ concluded.corr \in 1..Len(told) /\ concluded.faithful
        /\ concluded.type \in Range(told[concluded.corr])
    BY <1>3 DEF HistoryOK, ConcludesOwnAnswer
  <2>2. Range(<<>>) = {}
    BY DEF Range
  <2>3. concluded.corr # c
    BY <1>9, <2>1, <2>2
  <2> QED BY <1>16, <2>1, <2>3
<1>23. ASSUME Undisturbed'
       PROVE  InStep'
  <2>1. Undisturbed
    BY <1>1, <1>23 DEF Undisturbed
  <2>2. InStep
    BY <2>1
  <2>3. /\ awaiting # 0 /\ awaiting = Len(sent) /\ up = RequestFrame(sent, awaiting)
        /\ down = <<>> /\ open /\ r.frame = up /\ r.rest = <<>>
    BY <2>2, InStepReceives
  <2>4. c = awaiting /\ awaiting \in 1..Len(sent)
    <3>1. awaiting \in 1..Len(sent)
      BY <1>3, <2>3
    <3>2. RequestFrame(sent, awaiting)[2].num = awaiting
      BY <1>3, <3>1, RequestShape
    <3> QED BY <2>3, <3>1, <3>2 DEF c
  <2>5. DOMAIN sent = 1..Len(sent)
    BY <1>3
  <2>6. type # "SnapshotRequest"
    BY <1>8, <2>1, <2>4, <2>5 DEF Undisturbed, m
  <2>7. PICK x \in AnswerTypes \ {"SnapshotResponse"} : o.types = <<x>>
    BY <1>14, <2>6
  <2>8. AnswerFrames(o.types, c) = ResponseFrame(awaiting, x)
    <3>1. Len(o.types) = 1 /\ o.types[1] = x
      BY <2>7
    <3> QED BY <2>4, <3>1 DEF AnswerFrames, ResponseFrame
  <2>9. ResponseFrame(awaiting, x) \in Seq(Cells)
    <3>1. awaiting \in Nat \ {0} /\ x \in AnswerTypes
      BY <2>4, <2>7
    <3>2. IsFrame(ResponseFrame(awaiting, x))
      BY <3>1, ResponseShape
    <3> QED BY <3>2 DEF IsFrame
  <2>10. down' = ResponseFrame(awaiting, x)
    BY <1>12, <2>3, <2>8, <2>9, ConcatEmptySeq
  <2>11. session' = "serving"
    <3>1. ASSUME session = "greeting"
          PROVE  type = "Hello"
      <4>1. sent # <<>> /\ Len(sent) # 0
        BY <1>3, <2>3
      <4>2. Len(sent) = 1
        BY <2>2, <3>1, <4>1 DEF InStep
      <4>3. c = 1
        BY <2>3, <2>4, <4>2
      <4> QED BY <1>8, <2>1, <4>1, <4>3 DEF Undisturbed, m
    <3> QED BY <1>13, <3>1
  <2>12. up' = <<>> /\ awaiting' = awaiting /\ open' = open /\ mismatched' = mismatched
    BY <1>1, <1>2, <2>3
  <2> QED BY <2>2, <2>3, <2>7, <2>10, <2>11, <2>12 DEF InStep
<1> QED BY <1>17, <1>18, <1>19, <1>20, <1>21, <1>22, <1>23

\* serve: a receive is over before a request has come.
LEMMA ServeTimesOutKeepsInv ==
    ASSUME WireIndInv, ServeTimesOut
    PROVE  WireIndInv'
<1> USE DEF WireIndInv
<1>1. /\ up' \in Dropped(up) \/ up' = <<>>
      /\ session' \in {session, "ended"}
      /\ UNCHANGED <<sent, awaiting, open, down, bound, handled, told, applied, concluded, mismatched>>
  BY DEF ServeTimesOut
<1>2. faults \in 0..MaxFaults /\ faults' = faults + 1 /\ faults < MaxFaults /\ MaxFaults \in Nat
  BY WireAssumption DEF ServeTimesOut, Fault, WireTypeOK
<1>3. WellFramed(up', RequestFrames(sent')) /\ Untold(up', told')
  <2>1. CASE up' \in Dropped(up)
    BY <1>1, <2>1, DroppedParts DEF Untold
  <2>2. CASE up' = <<>>
    BY <1>1, <2>2, EmptyFramed DEF Untold
  <2> QED BY <1>1, <2>1, <2>2
<1>4. WireTypeOK'
  BY <1>1, <1>2 DEF WireTypeOK
<1>5. HistoryOK' /\ HandledAsSent' /\ ConcludesOwnAnswer'
  BY <1>1 DEF HistoryOK, HandledAsSent, ConcludesOwnAnswer
<1>6. ~Undisturbed'
  BY <1>2 DEF Undisturbed
<1> QED BY <1>1, <1>3, <1>4, <1>5, <1>6

\* serve: what was received is no frame, or the client is gone.
LEMMA ServeFailsKeepsInv ==
    ASSUME WireIndInv, ServeFails
    PROVE  WireIndInv'
<1> USE DEF WireIndInv
<1>1. /\ up' = <<>> /\ session' \in {session, "ended"}
      /\ UNCHANGED <<sent, awaiting, open, down, bound, handled, told, applied, concluded,
                     mismatched, faults>>
      /\ (\E r \in Received(up) : r.status # "Ok") \/ ~open
  BY DEF ServeFails
<1>2. session' = "ended"
  BY DEF ServeFails, SessionSurvives
<1>3. WellFramed(up', RequestFrames(sent')) /\ Untold(up', told')
  BY <1>1, EmptyFramed DEF Untold
<1>4. WireTypeOK'
  BY <1>1 DEF WireTypeOK
<1>5. HistoryOK' /\ HandledAsSent' /\ ConcludesOwnAnswer'
  BY <1>1 DEF HistoryOK, HandledAsSent, ConcludesOwnAnswer
<1>6. ASSUME Undisturbed'
      PROVE  InStep'
  <2>1. InStep
    BY <1>1, <1>6 DEF Undisturbed
  <2>2. ~open
    BY <1>1, <2>1, InStepReceives
  <2> QED BY <1>1, <1>2, <2>1, <2>2 DEF InStep
<1> QED BY <1>1, <1>3, <1>4, <1>5, <1>6

-----------------------------------------------------------------------------
(* Theorems *)

\* A new connection satisfies the inductive invariant.
THEOREM WireInitInv == WireInit => WireIndInv
<1> SUFFICES ASSUME WireInit PROVE WireIndInv
  OBVIOUS
<1>1. WireTypeOK
  BY WireAssumption DEF WireInit, WireTypeOK
<1>2. HistoryOK
  <2>1. <<>> \in Seq(Told) /\ Len(<<>>) = 0 /\ 1..0 = {}
    OBVIOUS
  <2>2. told \in Seq(Told) /\ open \in BOOLEAN /\ mismatched \in BOOLEAN
    BY <2>1 DEF WireInit
  <2>3. \A i \in 1..Len(sent) : Len(Payload[sent[i]]) <= MaxPayload
    BY <2>1 DEF WireInit
  <2>4. handled.corr = 0 /\ concluded.corr = 0 /\ applied \subseteq {bound}
    BY DEF WireInit
  <2> QED BY <2>2, <2>3, <2>4 DEF HistoryOK
<1>3. WellFramed(up, RequestFrames(sent)) /\ WellFramed(down, ResponseFrames(told))
  BY EmptyFramed DEF WireInit
<1>4. Untold(up, told) /\ HandledAsSent /\ ConcludesOwnAnswer
  BY DEF WireInit, Untold, HandledAsSent, ConcludesOwnAnswer
<1>5. InStep
  BY DEF WireInit, InStep
<1> QED BY <1>1, <1>2, <1>3, <1>4, <1>5 DEF WireIndInv

\* Every step of client and session keeps it.
THEOREM WireStepInv == WireIndInv /\ [WireNext]_wireVars => WireIndInv'
<1> SUFFICES ASSUME WireIndInv, [WireNext]_wireVars PROVE WireIndInv'
  OBVIOUS
<1>1. CASE \E message \in NextRequests : Request(message) \/ RequestCut(message)
  BY <1>1, RequestKeepsInv, RequestCutKeepsInv
<1>2. CASE TakeAnswer
  BY <1>2, TakeAnswerKeepsInv
<1>3. CASE AnswerTimesOut
  BY <1>3, AnswerTimesOutKeepsInv
<1>4. CASE AnswerFails
  BY <1>4, AnswerFailsKeepsInv
<1>5. CASE Close
  BY <1>5, CloseKeepsInv
<1>6. CASE Serve
  BY <1>6, ServeKeepsInv
<1>7. CASE ServeTimesOut
  BY <1>7, ServeTimesOutKeepsInv
<1>8. CASE ServeFails
  BY <1>8, ServeFailsKeepsInv
<1>9. CASE UNCHANGED wireVars
  BY <1>9 DEF wireVars, WireIndInv, WireTypeOK, HistoryOK, HandledAsSent, ConcludesOwnAnswer,
              Undisturbed, InStep
<1> QED BY <1>1, <1>2, <1>3, <1>4, <1>5, <1>6, <1>7, <1>8, <1>9 DEF WireNext

\* The inductive invariant holds throughout.
THEOREM WireAlwaysInv == WireSpec => []WireIndInv
  BY WireInitInv, WireStepInv, PTL DEF WireSpec

\* Connection and session are well formed, and all the requests of a session reach the
\* fabric under one boot.
THEOREM WireCorrect == WireSpec => []WireInv
<1>1. WireIndInv => WireInv
  BY DEF WireIndInv, HistoryOK, WireInv, OneBootPerSession
<1> QED BY <1>1, WireAlwaysInv, PTL

\* Wherever frames were cut, receives gave up and headers were read from the middle, a
\* handler is only given what the client sent, as the client meant it.
THEOREM RequestsHandledAsSent == WireSpec => []HandledAsSent
<1>1. WireIndInv => HandledAsSent
  BY DEF WireIndInv
<1> QED BY <1>1, WireAlwaysInv, PTL

\* An exchange that succeeds has the answer the coordinator wrote to its own request.
THEOREM AnswersConcluded == WireSpec => []ConcludesOwnAnswer
<1>1. WireIndInv => ConcludesOwnAnswer
  BY DEF WireIndInv
<1> QED BY <1>1, WireAlwaysInv, PTL

\* Without timeouts, cut sends and snapshot requests no exchange fails on what it receives.
THEOREM StaysInStep == WireSpec => []UndisturbedStaysInStep
<1>1. WireIndInv => UndisturbedStaysInStep
  BY DEF WireIndInv, Undisturbed, InStep, UndisturbedStaysInStep
<1> QED BY <1>1, WireAlwaysInv, PTL
=============================================================================
