------------------------- MODULE ReplyBufferProofs -------------------------
(***************************************************************************)
(* Proofs about ReplyBuffer, for all sizes of the buffers: the types, the  *)
(* soundness of the two buffers that share one cursor, and with it the     *)
(* in-order delivery that ReplyStream promises.                            *)
(***************************************************************************)
EXTENDS ReplyBuffer, SequenceTheorems, TLAPS

(* A new reply is a sequence of numbers, as long as it says.               *)
LEMMA NewBytesProperties ==
  ASSUME accepted \in Nat, NEW len \in Nat
  PROVE  /\ NewBytes(len) \in Seq(Nat)
         /\ Len(NewBytes(len)) = len
         /\ \A i \in 1..len : NewBytes(len)[i] = accepted + i
<1>1. \A i \in 1..len : accepted + i \in Nat
  OBVIOUS
<1>2. NewBytes(len) \in Seq(Nat)
  BY <1>1, IsASeq DEF NewBytes
<1>3. QED
  BY <1>2 DEF NewBytes

(* The part of a sequence after the first c elements.                      *)
LEMMA SuffixProperties ==
  ASSUME NEW s \in Seq(Nat), NEW c \in Nat, c < Len(s)
  PROVE  /\ SubSeq(s, c + 1, Len(s)) \in Seq(Nat)
         /\ Len(SubSeq(s, c + 1, Len(s))) = Len(s) - c
         /\ \A j \in 1..(Len(s) - c) : SubSeq(s, c + 1, Len(s))[j] = s[c + j]
<1>1. Len(s) \in Nat /\ c + 1 \in Int /\ Len(s) \in Int
  OBVIOUS
<1>2. \A i \in (c + 1)..Len(s) : s[i] \in Nat
  BY ElementOfSeq
<1>3. /\ SubSeq(s, c + 1, Len(s)) \in Seq(Nat)
      /\ Len(SubSeq(s, c + 1, Len(s))) = Len(s) - (c + 1) + 1
      /\ \A j \in 1..(Len(s) - (c + 1) + 1) : SubSeq(s, c + 1, Len(s))[j] = s[c + 1 + j - 1]
  BY <1>1, <1>2, SubSeqProperties
<1>4. Len(s) - (c + 1) + 1 = Len(s) - c
  BY <1>1
<1>5. ASSUME NEW j \in 1..(Len(s) - c) PROVE c + 1 + j - 1 = c + j
  OBVIOUS
<1>6. QED
  BY <1>3, <1>4, <1>5

-----------------------------------------------------------------------------
(* The two buffers and the cursor, and their relation to the stream.       *)

(* The part of the type invariant that the buffers take part in.           *)
OutputType ==
  /\ buf \in Seq(Nat)
  /\ replies \in Seq(Seq(Nat))
  /\ replyBytes \in Nat
  /\ sendLen \in Nat
  /\ accepted \in Nat
  /\ delivered \in Seq(Nat)

Sound == OutputType /\ InOrder /\ CursorSound /\ ListSound /\ ChunksSound

LEMMA SoundInit == Init => Sound
<1> SUFFICES ASSUME Init PROVE Sound
  OBVIOUS
<1>1. /\ buf = << >> /\ replies = << >> /\ delivered = << >>
      /\ replyBytes = 0 /\ sendLen = 0 /\ accepted = 0
      /\ Len(<< >>) = 0
  BY DEF Init
<1>2. OutputType
  <2>1. << >> \in Seq(Nat) /\ << >> \in Seq(Seq(Nat))
    OBVIOUS
  <2>2. QED
    BY <1>1, <2>1 DEF OutputType
<1>3. InOrder
  BY <1>1 DEF InOrder
<1>4. CursorSound
  BY <1>1, SizesAssumption DEF CursorSound
<1>5. ListSound
  <2>1. Base = 0 /\ Len(replies) = 0
    BY <1>1 DEF Base
  <2>2. 1..Len(replies) = {} /\ 1..(Len(replies) - 1) = {}
    BY <2>1
  <2>3. QED
    BY <1>1, <2>1, <2>2 DEF ListSound
<1>6. ChunksSound
  BY <1>1 DEF ChunksSound
<1>7. QED
  BY <1>2, <1>3, <1>4, <1>5, <1>6 DEF Sound

(* Nothing changes for the buffers while only the control state does.      *)
LEMMA SoundUnchanged == Sound /\ UNCHANGED <<output, stream>> => Sound'
BY DEF Sound, OutputType, InOrder, CursorSound, ListSound, ChunksSound, Base, output, stream

(* A reply that fits continues the fixed buffer; the list is empty.        *)
LEMMA SoundBuffer ==
  ASSUME Sound, NEW len \in Nat, FitsBuffer(len), addReplyToBuffer(len),
         accepted' = accepted + len, UNCHANGED <<sendLen, delivered>>
  PROVE  Sound'
<1>1. /\ NewBytes(len) \in Seq(Nat)
      /\ Len(NewBytes(len)) = len
      /\ \A i \in 1..len : NewBytes(len)[i] = accepted + i
  BY NewBytesProperties DEF Sound, OutputType
<1>2. /\ buf' \in Seq(Nat)
      /\ Len(buf') = Len(buf) + len
      /\ \A i \in 1..(Len(buf) + len) :
            buf'[i] = IF i <= Len(buf) THEN buf[i] ELSE NewBytes(len)[i - Len(buf)]
  <2>1. buf \in Seq(Nat) /\ buf' = buf \o NewBytes(len)
    BY DEF addReplyToBuffer, Sound, OutputType
  <2>2. /\ buf' \in Seq(Nat)
        /\ Len(buf') = Len(buf) + Len(NewBytes(len))
        /\ \A i \in 1..(Len(buf) + Len(NewBytes(len))) :
              buf'[i] = IF i <= Len(buf) THEN buf[i] ELSE NewBytes(len)[i - Len(buf)]
    BY <1>1, <2>1, ConcatProperties
  <2>3. QED
    BY <1>1, <2>2
<1>3. replies = << >> /\ replies' = << >> /\ replyBytes' = replyBytes /\ Len(replies) = 0
  BY DEF FitsBuffer, addReplyToBuffer
<1>4. Len(delivered) \in Nat /\ Len(buf) \in Nat /\ sendLen \in Nat /\ accepted \in Nat
  BY DEF Sound, OutputType
<1>5. Len(delivered) + Len(buf) - sendLen = accepted /\ replyBytes = 0
  BY <1>3, <1>4 DEF Sound, ListSound, Base
<1>6. OutputType'
  BY <1>2, <1>3, <1>4 DEF Sound, OutputType
<1>7. InOrder'
  BY <1>4 DEF Sound, InOrder
<1>8. CursorSound'
  <2>1. Len(buf') <= BufSize
    BY <1>2, <1>4, SizesAssumption DEF FitsBuffer
  <2>2. ASSUME NEW i \in 1..Len(buf')
        PROVE  buf'[i] = Len(delivered') - sendLen' + i
    <3>1. CASE i <= Len(buf)
      <4>1. i \in 1..Len(buf) /\ buf'[i] = buf[i]
        BY <3>1, <1>2, <1>4
      <4>2. buf[i] = Len(delivered) - sendLen + i
        BY <4>1 DEF Sound, CursorSound
      <4>3. QED
        BY <4>1, <4>2
    <3>2. CASE i > Len(buf)
      <4>1. i - Len(buf) \in 1..len
        BY <3>2, <1>2, <1>4
      <4>2. buf'[i] = accepted + (i - Len(buf))
        BY <4>1, <3>2, <1>1, <1>2, <1>4
      <4>3. QED
        BY <4>2, <1>4, <1>5
    <3>3. QED
      BY <3>1, <3>2, <1>2, <1>4
  <2>3. IF buf' # << >> THEN sendLen' < Len(buf') ELSE sendLen' = 0
    <3>1. CASE buf # << >>
      <4>1. sendLen < Len(buf)
        BY <3>1 DEF Sound, CursorSound
      <4>2. sendLen' < Len(buf')
        BY <4>1, <1>2, <1>4
      <4>3. buf' # << >>
        BY <4>2, <1>4
      <4>4. QED
        BY <4>2, <4>3
    <3>2. CASE buf = << >>
      <4>1. sendLen = 0
        BY <3>2, <1>3 DEF Sound, CursorSound
      <4>2. buf' # << >> => Len(buf') > 0
        BY <1>2, EmptySeq
      <4>3. QED
        BY <4>1, <4>2
    <3>3. QED
      BY <3>1, <3>2
  <2>4. QED
    BY <2>1, <2>2, <2>3, <1>3 DEF CursorSound
<1>9. ListSound'
  <2>1. Base' = accepted + len
    <3>1. Base' = Len(delivered) + Len(buf') - sendLen
      BY DEF Base
    <3>2. QED
      BY <3>1, <1>2, <1>4, <1>5
  <2>2. 1..Len(replies') = {} /\ 1..(Len(replies') - 1) = {}
    BY <1>3
  <2>3. QED
    BY <1>3, <1>4, <1>5, <2>1, <2>2 DEF ListSound
<1>10. ChunksSound'
  BY <1>3 DEF ChunksSound
<1>11. QED
  BY <1>6, <1>7, <1>8, <1>9, <1>10 DEF Sound

(* Facts about the list that every change to it starts from.               *)
LEMMA ListFacts ==
  ASSUME Sound
  PROVE  /\ Len(delivered) \in Nat /\ Len(buf) \in Nat /\ sendLen \in Nat
         /\ accepted \in Nat /\ replyBytes \in Nat /\ Base \in Int
         /\ Len(replies) \in Nat /\ (replies = << >> <=> Len(replies) = 0)
         /\ \A k \in 1..Len(replies) :
              /\ replies[k] \in Seq(Nat)
              /\ Len(replies[k]) \in 1..ChunkBytes
              /\ \A i \in 1..Len(replies[k]) : replies[k][i] \in Nat
<1>1. /\ Len(delivered) \in Nat /\ Len(buf) \in Nat /\ sendLen \in Nat
      /\ accepted \in Nat /\ replyBytes \in Nat
  BY DEF Sound, OutputType
<1>2. Base \in Int
  BY <1>1 DEF Base
<1>3. replies \in Seq(Seq(Nat))
  BY DEF Sound, OutputType
<1>4. Len(replies) \in Nat /\ (replies = << >> <=> Len(replies) = 0)
  BY <1>3, EmptySeq, LenProperties
<1>5. \A k \in 1..Len(replies) : replies[k] \in Seq(Nat)
  BY <1>3, ElementOfSeq
<1>6. \A k \in 1..Len(replies) : Len(replies[k]) \in 1..ChunkBytes
  BY DEF Sound, ChunksSound
<1>7. \A k \in 1..Len(replies) : \A i \in 1..Len(replies[k]) : replies[k][i] \in Nat
  BY <1>5, ElementOfSeq
<1>8. QED
  BY <1>1, <1>2, <1>4, <1>5, <1>6, <1>7

(* A reply that joins the last chunk continues it; the cursor, which may   *)
(* stand in that very chunk, is not disturbed.                             *)
LEMMA SoundJoin ==
  ASSUME Sound, NEW len \in Nat, NEW n, n = Len(replies), n # 0,
         Len(replies[n]) + len <= ChunkBytes,
         replies' = [replies EXCEPT ![n] = @ \o NewBytes(len)],
         replyBytes' = replyBytes + len, accepted' = accepted + len,
         buf' = buf, sendLen' = sendLen, delivered' = delivered
  PROVE  Sound'
<1>1. /\ Len(delivered) \in Nat /\ Len(buf) \in Nat /\ sendLen \in Nat
      /\ accepted \in Nat /\ replyBytes \in Nat /\ Base \in Int
      /\ n \in Nat /\ n \in 1..n /\ 1 \in 1..n
      /\ \A k \in 1..n :
           /\ replies[k] \in Seq(Nat)
           /\ Len(replies[k]) \in 1..ChunkBytes
  BY ListFacts
<1>2. /\ NewBytes(len) \in Seq(Nat)
      /\ Len(NewBytes(len)) = len
      /\ \A i \in 1..len : NewBytes(len)[i] = accepted + i
  BY <1>1, NewBytesProperties
<1> DEFINE c == replies[n]
           j == c \o NewBytes(len)
<1>3. /\ j \in Seq(Nat)
      /\ Len(j) = Len(c) + len
      /\ \A i \in 1..(Len(c) + len) :
            j[i] = IF i <= Len(c) THEN c[i] ELSE NewBytes(len)[i - Len(c)]
  <2>1. c \in Seq(Nat)
    BY <1>1
  <2> HIDE DEF c
  <2>2. /\ j \in Seq(Nat)
        /\ Len(j) = Len(c) + Len(NewBytes(len))
        /\ \A i \in 1..(Len(c) + Len(NewBytes(len))) :
              j[i] = IF i <= Len(c) THEN c[i] ELSE NewBytes(len)[i - Len(c)]
    BY <1>2, <2>1, ConcatProperties
  <2>3. QED
    BY <1>2, <2>2
<1>4. /\ replies' \in Seq(Seq(Nat))
      /\ Len(replies') = n
      /\ replies'[n] = j
      /\ \A k \in 1..n : k # n => replies'[k] = replies[k]
  <2>1. replies \in Seq(Seq(Nat)) /\ replies' = [replies EXCEPT ![n] = j]
    BY DEF Sound, OutputType
  <2>2. j \in Seq(Nat) /\ n \in 1..Len(replies)
    BY <1>1, <1>3
  <2> HIDE DEF j
  <2>3. /\ [replies EXCEPT ![n] = j] \in Seq(Seq(Nat))
        /\ Len([replies EXCEPT ![n] = j]) = Len(replies)
        /\ \A k \in 1..Len(replies) :
              [replies EXCEPT ![n] = j][k] = IF k = n THEN j ELSE replies[k]
    BY <2>1, <2>2, ExceptSeq
  <2>4. QED
    BY <1>1, <2>1, <2>3
<1>5. Len(c) \in Nat /\ Len(c) >= 1 /\ 1 \in 1..Len(c) /\ Len(c) \in 1..Len(c)
  BY <1>1
<1>6. /\ c[Len(c)] = accepted
      /\ \A i \in 1..Len(c) : c[i] = c[1] + i - 1 /\ c[i] <= accepted
      /\ c[1] \in Nat
  <2>1. replies # << >>
    BY ListFacts
  <2>2. c[1] \in Nat
    BY <1>1, <1>5, ElementOfSeq
  <2>3. QED
    BY <1>1, <2>1, <2>2 DEF Sound, ListSound
<1>7. /\ j[1] = c[1]
      /\ Len(j) \in Nat /\ Len(j) \in 1..Len(j)
      /\ j[Len(j)] = accepted + len
      /\ \A i \in 1..Len(j) : j[i] = j[1] + i - 1 /\ j[i] <= accepted + len
  <2> HIDE DEF c, j
  <2>1. j[1] = c[1]
    BY <1>3, <1>5
  <2>2. ASSUME NEW i \in 1..Len(j)
        PROVE  j[i] = c[1] + i - 1 /\ j[i] <= accepted + len
    <3>0. i \in 1..(Len(c) + len) /\ i \in Nat
      BY <1>3
    <3>1. CASE i <= Len(c)
      <4>1. i \in 1..Len(c) /\ j[i] = c[i]
        BY <3>0, <3>1, <1>3, <1>5
      <4>2. c[i] = c[1] + i - 1 /\ c[i] <= accepted
        BY <4>1, <1>6
      <4>3. QED
        BY <4>1, <4>2, <3>0, <1>1, <1>6
    <3>2. CASE i > Len(c)
      <4>1. i - Len(c) \in 1..len
        BY <3>0, <3>2, <1>5
      <4>2. j[i] = NewBytes(len)[i - Len(c)]
        BY <3>0, <3>2, <1>3, <1>5
      <4>3. j[i] = accepted + (i - Len(c))
        BY <4>1, <4>2, <1>2
      <4>4. accepted = c[1] + Len(c) - 1
        BY <1>5, <1>6
      <4>5. Len(c) \in Nat /\ c[1] \in Nat /\ accepted \in Nat /\ len \in Nat
        BY <1>1, <1>5, <1>6
      <4>6. j[i] = c[1] + i - 1
        <5>1. ASSUME NEW x \in Nat, NEW y \in Nat, NEW a \in Nat, a = x + y - 1
              PROVE  a + (i - y) = x + i - 1
          BY <3>0, <5>1
        <5>2. QED
          BY <4>3, <4>4, <4>5, <5>1
      <4>7. j[i] <= accepted + len
        BY <3>0, <4>1, <4>3, <4>5
      <4>8. QED
        BY <4>6, <4>7
    <3>3. QED
      BY <3>1, <3>2, <1>3, <1>5
  <2>3. Len(j) \in Nat /\ Len(j) \in 1..Len(j)
    BY <1>3, <1>5
  <2>4. j[Len(j)] = accepted + len
    <3>1. j[Len(j)] = c[1] + Len(j) - 1
      BY <2>2, <2>3
    <3>2. accepted = c[1] + Len(c) - 1
      BY <1>5, <1>6
    <3>3. /\ Len(j) = Len(c) + len
          /\ Len(c) \in Nat /\ c[1] \in Nat /\ accepted \in Nat /\ len \in Nat
      BY <1>1, <1>3, <1>5, <1>6
    <3>4. QED
      BY <3>1, <3>2, <3>3
  <2>5. QED
    BY <2>1, <2>2, <2>3, <2>4
<1> HIDE DEF j
<1>8. OutputType'
  BY <1>1, <1>4 DEF Sound, OutputType
<1>9. InOrder'
  BY <1>1 DEF Sound, InOrder
<1>10. replies # << >> /\ replies' # << >>
  BY <1>1, <1>4, ListFacts, EmptySeq
<1>11. Len(replies'[1]) >= Len(replies[1]) /\ replies'[1][1] = replies[1][1]
  <2>1. CASE n = 1
    <3>1. replies'[1] = j /\ replies[1] = c
      BY <2>1, <1>4
    <3>2. j[1] = c[1] /\ Len(j) >= Len(c)
      BY <1>3, <1>5, <1>7
    <3> HIDE DEF c, j
    <3>3. QED
      BY <3>1, <3>2
  <2>2. CASE n # 1
    <3>1. replies'[1] = replies[1]
      BY <2>2, <1>1, <1>4
    <3>2. Len(replies[1]) \in Nat /\ Len(replies[1]) >= Len(replies[1])
      BY <1>1
    <3>3. QED
      BY <3>1, <3>2, Zenon
  <2>3. QED
    BY <2>1, <2>2
<1>12. CursorSound'
  <2>1. buf = << >> => sendLen < Len(replies'[1])
    <3>1. Len(replies[1]) \in Nat /\ Len(replies'[1]) \in Nat
      BY <1>1, <1>3, <1>4, <1>5
    <3>2. buf = << >> => sendLen < Len(replies[1])
      BY <1>10 DEF Sound, CursorSound
    <3>3. QED
      BY <3>1, <3>2, <1>1, <1>11
  <2>2. QED
    BY <2>1, <1>10 DEF Sound, CursorSound
<1>13. ListSound'
  <2>1. Base' = Base
    BY DEF Base
  <2>2. replyBytes' = accepted' - Base'
    BY <1>1, <2>1 DEF Sound, ListSound
  <2>3. replies'[1][1] = Base' + 1
    BY <1>10, <1>11, <2>1 DEF Sound, ListSound
  <2>4. replies'[Len(replies')][Len(replies'[Len(replies')])] = accepted'
    BY <1>4, <1>7
  <2>5. ASSUME NEW k \in 1..Len(replies'), NEW i \in 1..Len(replies'[k])
        PROVE  replies'[k][i] = replies'[k][1] + i - 1 /\ replies'[k][i] <= accepted'
    <3>1. CASE k = n
      BY <3>1, <1>4, <1>7
    <3>2. CASE k # n
      <4>1. k \in 1..n /\ replies'[k] = replies[k]
        BY <3>2, <1>4
      <4>2. i \in 1..Len(replies[k])
        BY <4>1
      <4>3. replies[k][i] \in Nat
        BY <4>1, <4>2, ListFacts
      <4>4. replies[k][i] = replies[k][1] + i - 1 /\ replies[k][i] <= accepted
        BY <4>1, <4>2 DEF Sound, ListSound
      <4>5. replies[k][i] <= accepted'
        BY <4>3, <4>4, <1>1
      <4>6. QED
        BY <4>1, <4>4, <4>5
    <3>3. QED
      BY <3>1, <3>2
  <2>6. ASSUME NEW k \in 1..(Len(replies') - 1)
        PROVE  replies'[k + 1][1] = replies'[k][Len(replies'[k])] + 1
    <3>1. k \in 1..n /\ k # n /\ k + 1 \in 1..n /\ k \in 1..(n - 1)
      BY <1>1, <1>4
    <3>2. replies'[k] = replies[k] /\ replies'[k + 1][1] = replies[k + 1][1]
      BY <3>1, <1>4, <1>7
    <3>3. QED
      BY <3>1, <3>2 DEF Sound, ListSound
  <2>7. QED
    BY <2>2, <2>3, <2>4, <2>5, <2>6, <1>10 DEF ListSound
<1>14. ChunksSound'
  <2>1. Len(j) \in 1..ChunkBytes
    BY <1>1, <1>3, <1>5, SizesAssumption
  <2>2. QED
    BY <2>1, <1>1, <1>4 DEF ChunksSound
<1>15. QED
  BY <1>8, <1>9, <1>12, <1>13, <1>14 DEF Sound

(* A reply that opens a new chunk: it follows the last byte accepted, and  *)
(* if it is the first chunk the cursor is either 0 or in the fixed buffer. *)
LEMMA SoundPush ==
  ASSUME Sound, NEW len \in 1..ChunkBytes,
         replies' = Append(replies, NewBytes(len)),
         replyBytes' = replyBytes + len, accepted' = accepted + len,
         buf' = buf, sendLen' = sendLen, delivered' = delivered
  PROVE  Sound'
<1> DEFINE n == Len(replies)
           c == NewBytes(len)
<1>1. /\ Len(delivered) \in Nat /\ Len(buf) \in Nat /\ sendLen \in Nat
      /\ accepted \in Nat /\ replyBytes \in Nat /\ Base \in Int
      /\ n \in Nat /\ (replies = << >> <=> n = 0)
      /\ len \in Nat /\ len >= 1
  BY ListFacts, SizesAssumption
<1>2. /\ c \in Seq(Nat) /\ Len(c) = len /\ Len(c) \in Nat /\ Len(c) \in 1..Len(c)
      /\ \A i \in 1..len : c[i] = accepted + i
  <2>1. c \in Seq(Nat) /\ Len(c) = len /\ \A i \in 1..len : c[i] = accepted + i
    BY <1>1, NewBytesProperties
  <2> HIDE DEF c
  <2>2. Len(c) \in Nat /\ Len(c) \in 1..Len(c)
    BY <1>1, <2>1
  <2>3. QED
    BY <2>1, <2>2
<1> HIDE DEF c
<1>3. /\ c[1] = accepted + 1
      /\ c[Len(c)] = accepted + len
      /\ \A i \in 1..Len(c) : c[i] = c[1] + i - 1 /\ c[i] <= accepted + len
  <2>1. c[1] = accepted + 1 /\ c[Len(c)] = accepted + len
    BY <1>1, <1>2
  <2>2. ASSUME NEW i \in 1..Len(c) PROVE c[i] = c[1] + i - 1 /\ c[i] <= accepted + len
    <3>1. c[i] = accepted + i /\ i <= len
      BY <1>1, <1>2
    <3>2. QED
      BY <3>1, <2>1, <1>1
  <2>3. QED
    BY <2>1, <2>2
<1>4. replies \in Seq(Seq(Nat)) /\ replies' = Append(replies, c)
  BY DEF Sound, OutputType, c
<1>5. /\ replies' \in Seq(Seq(Nat)) /\ replies' # << >>
      /\ Len(replies') = n + 1
      /\ \A k \in 1..n : replies'[k] = replies[k]
      /\ replies'[n + 1] = c
  BY <1>2, <1>4, AppendProperties
<1>6. OutputType'
  BY <1>1, <1>5 DEF Sound, OutputType
<1>7. InOrder'
  BY <1>1 DEF Sound, InOrder
<1>8. CursorSound'
  <2>1. buf = << >> => sendLen < Len(replies'[1])
    <3>1. CASE n = 0
      <4>1. buf = << >> => sendLen = 0
        BY <3>1, <1>1 DEF Sound, CursorSound
      <4>2. replies'[1] = c
        BY <3>1, <1>5
      <4>3. QED
        BY <4>1, <4>2, <1>1, <1>2
    <3>2. CASE n # 0
      <4>1. replies'[1] = replies[1]
        BY <3>2, <1>1, <1>5
      <4>2. buf = << >> => sendLen < Len(replies[1])
        BY <3>2, <1>1 DEF Sound, CursorSound
      <4>3. QED
        BY <4>1, <4>2
    <3>3. QED
      BY <3>1, <3>2
  <2>2. QED
    BY <2>1, <1>5 DEF Sound, CursorSound
<1>9. ListSound'
  <2>1. Base' = Base
    BY DEF Base
  <2>2. replyBytes' = accepted' - Base'
    BY <1>1, <2>1 DEF Sound, ListSound
  <2>3. replies'[1][1] = Base' + 1
    <3>1. CASE n = 0
      <4>1. Base = accepted
        BY <3>1, <1>1 DEF Sound, ListSound
      <4>2. replies'[1] = c
        BY <3>1, <1>5
      <4>3. QED
        BY <4>1, <4>2, <2>1, <1>3
    <3>2. CASE n # 0
      <4>1. replies'[1] = replies[1]
        BY <3>2, <1>1, <1>5
      <4>2. replies[1][1] = Base + 1
        BY <3>2, <1>1 DEF Sound, ListSound
      <4>3. QED
        BY <4>1, <4>2, <2>1
    <3>3. QED
      BY <3>1, <3>2
  <2>4. replies'[Len(replies')][Len(replies'[Len(replies')])] = accepted'
    BY <1>3, <1>5
  <2>5. ASSUME NEW k \in 1..Len(replies'), NEW i \in 1..Len(replies'[k])
        PROVE  replies'[k][i] = replies'[k][1] + i - 1 /\ replies'[k][i] <= accepted'
    <3>1. CASE k = n + 1
      BY <3>1, <1>3, <1>5
    <3>2. CASE k # n + 1
      <4>1. k \in 1..n /\ replies'[k] = replies[k]
        BY <3>2, <1>1, <1>5
      <4>2. i \in 1..Len(replies[k])
        BY <4>1
      <4>3. replies[k][i] \in Nat
        BY <4>1, <4>2, ListFacts
      <4>4. replies[k][i] = replies[k][1] + i - 1 /\ replies[k][i] <= accepted
        BY <4>1, <4>2 DEF Sound, ListSound
      <4>5. replies[k][i] <= accepted'
        BY <4>3, <4>4, <1>1
      <4>6. QED
        BY <4>1, <4>4, <4>5
    <3>3. QED
      BY <3>1, <3>2
  <2>6. ASSUME NEW k \in 1..(Len(replies') - 1)
        PROVE  replies'[k + 1][1] = replies'[k][Len(replies'[k])] + 1
    <3>1. k \in 1..n /\ k + 1 \in 1..(n + 1) /\ replies'[k] = replies[k]
      BY <1>1, <1>5
    <3>2. CASE k = n
      <4>1. n # 0 /\ replies # << >>
        BY <3>1, <3>2, <1>1
      <4>2. replies[n][Len(replies[n])] = accepted
        BY <4>1 DEF Sound, ListSound
      <4>3. QED
        BY <3>1, <3>2, <4>2, <1>3, <1>5
    <3>3. CASE k # n
      <4>1. k \in 1..(n - 1) /\ k + 1 \in 1..n /\ replies'[k + 1] = replies[k + 1]
        BY <3>1, <3>3, <1>1, <1>5
      <4>2. replies[k + 1][1] = replies[k][Len(replies[k])] + 1
        BY <4>1 DEF Sound, ListSound
      <4>3. QED
        BY <3>1, <4>1, <4>2
    <3>4. QED
      BY <3>2, <3>3
  <2>7. QED
    BY <2>2, <2>3, <2>4, <2>5, <2>6, <1>5 DEF ListSound
<1>10. ChunksSound'
  <2>1. ASSUME NEW k \in 1..Len(replies') PROVE Len(replies'[k]) \in 1..ChunkBytes
    <3>1. CASE k = n + 1
      BY <3>1, <1>1, <1>2, <1>5
    <3>2. CASE k # n + 1
      <4>1. k \in 1..n /\ replies'[k] = replies[k]
        BY <3>2, <1>1, <1>5
      <4>2. QED
        BY <4>1, ListFacts
    <3>3. QED
      BY <3>1, <3>2
  <2>2. QED
    BY <2>1 DEF ChunksSound
<1>11. QED
  BY <1>6, <1>7, <1>8, <1>9, <1>10 DEF Sound

(* What the loop offers to write(2) is the rest, never empty, of the       *)
(* buffer that sendLen belongs to.                                         *)
LEMMA OfferedType ==
  ASSUME Sound, ~hasNoPending
  PROVE  /\ Offered \in Seq(Nat)
         /\ Len(Offered) > 0
         /\ buf # << >> =>
              /\ Len(Offered) = Len(buf) - sendLen
              /\ \A j \in 1..Len(Offered) : Offered[j] = buf[sendLen + j]
         /\ buf = << >> =>
              /\ replies # << >>
              /\ Len(Offered) = Len(replies[1]) - sendLen
              /\ \A j \in 1..Len(Offered) : Offered[j] = replies[1][sendLen + j]
<1>1. CASE buf # << >>
  <2>1. buf \in Seq(Nat) /\ sendLen \in Nat /\ sendLen < Len(buf)
    BY <1>1 DEF Sound, OutputType, CursorSound
  <2>2. Offered = SubSeq(buf, sendLen + 1, Len(buf))
    BY <1>1 DEF Offered
  <2>3. QED
    BY <1>1, <2>1, <2>2, SuffixProperties
<1>2. CASE buf = << >>
  <2>1. replies # << >> /\ replies \in Seq(Seq(Nat))
    BY <1>2 DEF hasNoPending, Sound, OutputType
  <2>2. Len(replies) \in Nat \ {0}
    BY <2>1, EmptySeq
  <2>3. replies[1] \in Seq(Nat)
    BY <2>1, <2>2, ElementOfSeq
  <2>4. sendLen < Len(replies[1]) /\ sendLen \in Nat
    BY <1>2, <2>1 DEF Sound, OutputType, CursorSound
  <2>5. Offered = SubSeq(replies[1], sendLen + 1, Len(replies[1]))
    BY <1>2 DEF Offered
  <2>6. QED
    BY <1>2, <2>1, <2>3, <2>4, <2>5, SuffixProperties
<1>3. QED
  BY <1>1, <1>2
(* It is what follows the bytes already delivered.                         *)
LEMMA OfferedNext ==
  ASSUME Sound, ~hasNoPending
  PROVE  \A j \in 1..Len(Offered) :
           Offered[j] = Len(delivered) + j /\ Len(delivered) + j <= accepted
<1>1. /\ Len(delivered) \in Nat /\ Len(buf) \in Nat /\ sendLen \in Nat
      /\ accepted \in Nat /\ Base \in Int
      /\ Len(replies) \in Nat /\ (replies = << >> <=> Len(replies) = 0)
  BY ListFacts
<1> SUFFICES ASSUME NEW j \in 1..Len(Offered)
             PROVE  Offered[j] = Len(delivered) + j /\ Len(delivered) + j <= accepted
  OBVIOUS
<1>2. CASE buf # << >>
  <2>1. /\ Len(Offered) = Len(buf) - sendLen
        /\ Offered[j] = buf[sendLen + j]
    BY <1>2, OfferedType
  <2>2. sendLen + j \in 1..Len(buf) /\ j \in Nat /\ j <= Len(buf) - sendLen
    BY <2>1, <1>1
  <2>3. buf[sendLen + j] = Len(delivered) - sendLen + (sendLen + j)
    BY <2>2 DEF Sound, CursorSound
  <2>4. Base <= accepted
    <3>1. CASE replies = << >>
      BY <3>1, <1>1 DEF Sound, ListSound
    <3>2. CASE replies # << >>
      <4>1. 1 \in 1..Len(replies) /\ 1 \in 1..Len(replies[1])
        BY <3>2, <1>1, ListFacts
      <4>2. replies[1][1] <= accepted /\ replies[1][1] = Base + 1
        BY <3>2, <4>1 DEF Sound, ListSound
      <4>3. QED
        BY <4>2, <1>1
    <3>3. QED
      BY <3>1, <3>2
  <2>5. Len(delivered) + Len(buf) - sendLen <= accepted
    BY <2>4 DEF Base
  <2>6. QED
    BY <2>1, <2>2, <2>3, <2>5, <1>1
<1>3. CASE buf = << >>
  <2>1. /\ replies # << >>
        /\ Len(Offered) = Len(replies[1]) - sendLen
        /\ Offered[j] = replies[1][sendLen + j]
    BY <1>3, OfferedType
  <2>2. 1 \in 1..Len(replies) /\ Len(replies[1]) \in Nat
    BY <2>1, <1>1, ListFacts
  <2>3. sendLen + j \in 1..Len(replies[1]) /\ j \in Nat
    BY <2>1, <2>2, <1>1
  <2>4. /\ replies[1][sendLen + j] = replies[1][1] + (sendLen + j) - 1
        /\ replies[1][sendLen + j] <= accepted
        /\ replies[1][1] = Base + 1
    BY <2>1, <2>2, <2>3 DEF Sound, ListSound
  <2>5. Len(buf) = 0
    BY <1>3
  <2>6. Base = Len(delivered) - sendLen
    BY <2>5, <1>1 DEF Base
  <2>7. QED
    BY <2>1, <2>3, <2>4, <2>6, <1>1
<1>4. QED
  BY <1>2, <1>3

(* What a write adds to the delivered bytes.                               *)
LEMMA WriteDelivers ==
  ASSUME Sound, ~hasNoPending, NEW n \in 1..Len(Offered),
         delivered' = delivered \o SubSeq(Offered, 1, n)
  PROVE  /\ delivered' \in Seq(Nat)
         /\ Len(delivered') = Len(delivered) + n
         /\ Len(delivered) + n <= accepted
         /\ \A i \in 1..(Len(delivered) + n) : delivered'[i] = i
<1> DEFINE d == Len(delivered)
           s == SubSeq(Offered, 1, n)
<1>1. /\ delivered \in Seq(Nat) /\ d \in Nat /\ n \in Nat
      /\ Offered \in Seq(Nat) /\ Len(Offered) \in Nat
  BY ListFacts, OfferedType DEF Sound, OutputType
<1>2. s \in Seq(Nat) /\ Len(s) = n /\ \A j \in 1..n : s[j] = Offered[j]
  <2>1. \A i \in 1..n : Offered[i] \in Nat
    BY <1>1, ElementOfSeq
  <2>2. /\ s \in Seq(Nat)
        /\ Len(s) = IF 1 <= n THEN n - 1 + 1 ELSE 0
        /\ \A j \in 1..(n - 1 + 1) : s[j] = Offered[1 + j - 1]
    BY <1>1, <2>1, SubSeqProperties
  <2> HIDE DEF s
  <2>3. 1 <= n /\ n - 1 + 1 = n /\ \A j \in 1..n : 1 + j - 1 = j
    BY <1>1
  <2>4. QED
    BY <2>2, <2>3
<1>3. d + n <= accepted /\ \A j \in 1..n : s[j] = d + j
  BY <1>1, <1>2, OfferedNext
<1> HIDE DEF s
<1>4. /\ delivered' \in Seq(Nat)
      /\ Len(delivered') = d + n
      /\ \A i \in 1..(d + n) : delivered'[i] = IF i <= d THEN delivered[i] ELSE s[i - d]
  <2>1. delivered' = delivered \o s
    BY DEF s
  <2>2. /\ delivered' \in Seq(Nat)
        /\ Len(delivered') = d + Len(s)
        /\ \A i \in 1..(d + Len(s)) :
              delivered'[i] = IF i <= d THEN delivered[i] ELSE s[i - d]
    BY <1>1, <1>2, <2>1, ConcatProperties
  <2>3. QED
    BY <1>2, <2>2
<1>5. ASSUME NEW i \in 1..(d + n) PROVE delivered'[i] = i
  <2>1. CASE i <= d
    BY <2>1, <1>1, <1>4 DEF Sound, InOrder
  <2>2. CASE i > d
    <3>1. i - d \in 1..n
      BY <2>2, <1>1
    <3>2. delivered'[i] = s[i - d]
      BY <2>2, <1>1, <1>4
    <3>3. s[i - d] = d + (i - d)
      BY <3>1, <1>3
    <3>4. QED
      BY <3>2, <3>3, <1>1
  <2>3. QED
    BY <2>1, <2>2, <1>1
<1>6. QED
  BY <1>3, <1>4, <1>5

(* A short write moves the cursor inside the buffer it stands in.          *)
LEMMA SoundShortWrite ==
  ASSUME Sound, ~hasNoPending, NEW n \in 1..Len(Offered), n < Len(Offered),
         delivered' = delivered \o SubSeq(Offered, 1, n), sendLen' = sendLen + n,
         buf' = buf, replies' = replies, replyBytes' = replyBytes, accepted' = accepted
  PROVE  Sound'
<1>1. /\ Len(delivered) \in Nat /\ Len(buf) \in Nat /\ sendLen \in Nat
      /\ n \in Nat /\ accepted \in Nat
  BY ListFacts, OfferedType
<1>2. /\ delivered' \in Seq(Nat)
      /\ Len(delivered') = Len(delivered) + n
      /\ Len(delivered) + n <= accepted
      /\ \A i \in 1..(Len(delivered) + n) : delivered'[i] = i
  BY WriteDelivers
<1>3. Base' = Base
  <2>1. Base' = Len(delivered') + Len(buf) - (sendLen + n)
    BY DEF Base
  <2>2. QED
    BY <2>1, <1>1, <1>2 DEF Base
<1>4. OutputType'
  BY <1>1, <1>2 DEF Sound, OutputType
<1>5. InOrder'
  BY <1>2 DEF InOrder
<1>6. CursorSound'
  <2>1. CASE buf # << >>
    <3>1. sendLen + n < Len(buf)
      BY <2>1, <1>1, OfferedType
    <3>2. ASSUME NEW i \in 1..Len(buf) PROVE buf[i] = Len(delivered') - sendLen' + i
      <4>1. buf[i] = Len(delivered) - sendLen + i
        BY DEF Sound, CursorSound
      <4>2. Len(delivered') - sendLen' = Len(delivered) - sendLen
        BY <1>1, <1>2
      <4>3. QED
        BY <4>1, <4>2
    <3>3. Len(buf) <= BufSize
      BY DEF Sound, CursorSound
    <3>4. QED
      BY <2>1, <3>1, <3>2, <3>3 DEF CursorSound
  <2>2. CASE buf = << >>
    <3>1. replies # << >> /\ Len(Offered) = Len(replies[1]) - sendLen
      BY <2>2, OfferedType
    <3>2. Len(replies[1]) \in Nat
      BY <3>1, ListFacts
    <3>3. sendLen + n < Len(replies[1])
      BY <3>1, <3>2, <1>1
    <3>4. Len(buf) = 0
      BY <2>2
    <3>5. 1..Len(buf) = {}
      BY <3>4
    <3>6. QED
      BY <2>2, <3>1, <3>3, <3>4, <3>5, SizesAssumption DEF CursorSound
  <2>3. QED
    BY <2>1, <2>2
<1>7. ListSound'
  BY <1>3 DEF Sound, ListSound
<1>8. ChunksSound'
  BY DEF Sound, ChunksSound
<1>9. QED
  BY <1>4, <1>5, <1>6, <1>7, <1>8 DEF Sound

(* A write that empties the fixed buffer resets the cursor; the list, if   *)
(* there is one, comes next.                                               *)
LEMMA SoundBufferWritten ==
  ASSUME Sound, NEW n \in 1..Len(Offered), n = Len(Offered), buf # << >>,
         delivered' = delivered \o SubSeq(Offered, 1, n), sendLen' = 0,
         buf' = << >>, replies' = replies, replyBytes' = replyBytes, accepted' = accepted
  PROVE  Sound'
<1>0. ~hasNoPending
  BY DEF hasNoPending
<1>1. /\ Len(delivered) \in Nat /\ Len(buf) \in Nat /\ sendLen \in Nat
      /\ n \in Nat /\ accepted \in Nat
      /\ Len(replies) \in Nat /\ (replies = << >> <=> Len(replies) = 0)
  BY <1>0, ListFacts, OfferedType
<1>2. /\ delivered' \in Seq(Nat)
      /\ Len(delivered') = Len(delivered) + n
      /\ Len(delivered) + n <= accepted
      /\ \A i \in 1..(Len(delivered) + n) : delivered'[i] = i
  BY <1>0, WriteDelivers
<1>3. n = Len(buf) - sendLen
  BY <1>0, OfferedType
<1>4. Len(buf') = 0
  OBVIOUS
<1>5. Base' = Base
  <2>1. Base' = Len(delivered') + 0 - 0
    BY <1>4 DEF Base
  <2>2. QED
    BY <2>1, <1>1, <1>2, <1>3 DEF Base
<1>6. OutputType'
  BY <1>1, <1>2 DEF Sound, OutputType
<1>7. InOrder'
  BY <1>2 DEF InOrder
<1>8. CursorSound'
  <2>1. replies # << >> => 0 < Len(replies[1])
    <3>1. ASSUME replies # << >> PROVE 1 \in 1..Len(replies)
      BY <3>1, <1>1
    <3>2. QED
      BY <3>1, ListFacts
  <2>2. 1..Len(buf') = {}
    BY <1>4
  <2>3. QED
    BY <2>1, <2>2, <1>4, SizesAssumption DEF CursorSound
<1>9. ListSound'
  BY <1>5 DEF Sound, ListSound
<1>10. ChunksSound'
  BY DEF Sound, ChunksSound
<1>11. QED
  BY <1>6, <1>7, <1>8, <1>9, <1>10 DEF Sound

(* A write that finishes the first chunk drops it from the list.           *)
LEMMA SoundChunkWritten ==
  ASSUME Sound, ~hasNoPending, NEW n \in 1..Len(Offered), n = Len(Offered), buf = << >>,
         delivered' = delivered \o SubSeq(Offered, 1, n), sendLen' = 0,
         replies' = Tail(replies), replyBytes' = replyBytes - Len(replies[1]),
         buf' = buf, accepted' = accepted
  PROVE  Sound'
<1> DEFINE m == Len(replies)
           c == replies[1]
<1>1. /\ Len(delivered) \in Nat /\ sendLen \in Nat /\ Len(buf) = 0
      /\ n \in Nat /\ accepted \in Nat /\ replyBytes \in Nat
      /\ m \in Nat /\ (replies = << >> <=> m = 0)
  BY ListFacts, OfferedType
<1>2. /\ delivered' \in Seq(Nat)
      /\ Len(delivered') = Len(delivered) + n
      /\ Len(delivered) + n <= accepted
      /\ \A i \in 1..(Len(delivered) + n) : delivered'[i] = i
  BY WriteDelivers
<1>3. /\ replies # << >> /\ m >= 1
      /\ n = Len(c) - sendLen
      /\ Len(c) \in Nat /\ 1 <= Len(c) /\ c \in Seq(Nat)
  <2>1. replies # << >> /\ n = Len(c) - sendLen
    BY OfferedType
  <2>2. 1 \in 1..Len(replies) /\ m >= 1
    BY <2>1, <1>1
  <2>3. QED
    BY <2>1, <2>2, ListFacts
<1>4. /\ replies' \in Seq(Seq(Nat))
      /\ Len(replies') = m - 1
      /\ \A k \in 1..(m - 1) : replies'[k] = replies[k + 1]
  <2>1. replies \in Seq(Seq(Nat))
    BY DEF Sound, OutputType
  <2>2. QED
    BY <1>3, <2>1, HeadTailProperties
<1>5. /\ Base = Len(delivered) - sendLen
      /\ Base' = Base + Len(c)
  <2>1. Base = Len(delivered) - sendLen
    BY <1>1 DEF Base
  <2>2. Base' = Len(delivered') + Len(buf) - 0
    BY DEF Base
  <2>3. QED
    BY <2>1, <2>2, <1>1, <1>2, <1>3
<1>6. /\ replyBytes = accepted - Base
      /\ c[Len(c)] = Base + Len(c)
      /\ Base + Len(c) <= accepted
  <2>1. Len(c) \in 1..Len(c) /\ 1 \in 1..m
    BY <1>1, <1>3
  <2>2. c[1] = Base + 1 /\ c[Len(c)] = c[1] + Len(c) - 1 /\ c[Len(c)] <= accepted
    BY <2>1, <1>3 DEF Sound, ListSound
  <2>3. replyBytes = accepted - Base
    BY DEF Sound, ListSound
  <2>4. Base \in Int /\ Len(c) \in Nat
    BY <1>1, <1>3, <1>5
  <2>5. c[Len(c)] = Base + 1 + Len(c) - 1
    BY <2>2
  <2>6. c[Len(c)] = Base + Len(c)
    <3>1. ASSUME NEW b \in Int, NEW l \in Nat PROVE b + 1 + l - 1 = b + l
      OBVIOUS
    <3>2. Base + 1 + Len(c) - 1 = Base + Len(c)
      BY <2>4, <3>1, Zenon
    <3>3. QED
      BY <2>5, <3>2, Zenon
  <2>7. Base + Len(c) <= accepted
    BY <2>2, <2>6
  <2>8. QED
    BY <2>3, <2>6, <2>7
<1>7. OutputType'
  <2>1. replyBytes' \in Nat
    BY <1>1, <1>3, <1>5, <1>6
  <2>2. QED
    BY <2>1, <1>1, <1>2, <1>4 DEF Sound, OutputType
<1>8. InOrder'
  BY <1>2 DEF InOrder
<1>9. replies' # << >> <=> m > 1
  <2>1. replies' = << >> <=> Len(replies') = 0
    BY <1>4, EmptySeq, LenProperties
  <2>2. replies' = << >> <=> m - 1 = 0
    BY <2>1, <1>4, Zenon
  <2>3. m \in Nat /\ m >= 1
    BY <1>1, <1>3
  <2> HIDE DEF m
  <2>4. ~(m - 1 = 0) <=> m > 1
    BY <2>3
  <2>5. QED
    BY <2>2, <2>4, Zenon
<1>10. CursorSound'
  <2>1. replies' # << >> => 0 < Len(replies'[1])
    <3>1. ASSUME m > 1 PROVE 0 < Len(replies'[1])
      <4>1. 1 \in 1..(m - 1) /\ 1 + 1 \in 1..m
        BY <3>1, <1>1
      <4>2. replies'[1] = replies[1 + 1]
        BY <4>1, <1>4
      <4>3. Len(replies[1 + 1]) \in 1..ChunkBytes
        BY <4>1, ListFacts
      <4>4. 0 < Len(replies[1 + 1])
        BY <4>3, SizesAssumption
      <4>5. QED
        BY <4>2, <4>4, Zenon
    <3>2. QED
      BY <3>1, <1>9
  <2>2. 1..Len(buf') = {}
    BY <1>1
  <2>3. QED
    BY <2>1, <2>2, <1>1, SizesAssumption DEF CursorSound
<1>11. ListSound'
  <2>1. replyBytes' = accepted' - Base'
    BY <1>1, <1>3, <1>5, <1>6
  <2>2. replies' = << >> => Base' = accepted'
    <3>1. ASSUME replies' = << >> PROVE m = 1
      <4>1. ~(m > 1) /\ m \in Nat /\ m >= 1
        BY <3>1, <1>1, <1>3, <1>9, Zenon
      <4> HIDE DEF m
      <4>2. QED
        BY <4>1
    <3>2. ASSUME m = 1 PROVE c[Len(c)] = accepted
      BY <3>2, <1>3 DEF Sound, ListSound
    <3>3. QED
      BY <3>1, <3>2, <1>5, <1>6
  <2>3. ASSUME replies' # << >>
        PROVE  /\ replies'[1][1] = Base' + 1
               /\ replies'[Len(replies')][Len(replies'[Len(replies')])] = accepted'
    <3>1. /\ m - 1 \in Nat /\ 1 \in 1..(m - 1) /\ m - 1 \in 1..(m - 1)
          /\ m - 1 + 1 = m /\ 1 + 1 = 2
      BY <2>3, <1>1, <1>9
    <3>2. replies'[1] = replies[2] /\ replies'[Len(replies')] = replies[m]
      BY <3>1, <1>4
    <3>3. replies[2][1] = c[Len(c)] + 1
      BY <3>1 DEF Sound, ListSound
    <3>4. replies[m][Len(replies[m])] = accepted
      BY <1>3 DEF Sound, ListSound
    <3>5. QED
      BY <3>2, <3>3, <3>4, <1>5, <1>6
  <2>4. ASSUME NEW k \in 1..Len(replies'), NEW i \in 1..Len(replies'[k])
        PROVE  replies'[k][i] = replies'[k][1] + i - 1 /\ replies'[k][i] <= accepted'
    <3>1. k + 1 \in 1..m /\ replies'[k] = replies[k + 1]
      BY <1>1, <1>4
    <3>2. i \in 1..Len(replies[k + 1])
      BY <3>1
    <3>3. QED
      BY <3>1, <3>2 DEF Sound, ListSound
  <2>5. ASSUME NEW k \in 1..(Len(replies') - 1)
        PROVE  replies'[k + 1][1] = replies'[k][Len(replies'[k])] + 1
    <3>1. k + 1 \in 1..(m - 1) /\ k \in 1..(m - 1)
      BY <1>1, <1>4
    <3>2. replies'[k] = replies[k + 1] /\ replies'[k + 1] = replies[k + 1 + 1]
      BY <3>1, <1>4
    <3>3. replies[k + 1 + 1][1] = replies[k + 1][Len(replies[k + 1])] + 1
      BY <3>1 DEF Sound, ListSound
    <3>4. QED
      BY <3>2, <3>3
  <2>6. QED
    BY <2>1, <2>2, <2>3, <2>4, <2>5 DEF ListSound
<1>12. ChunksSound'
  <2>1. ASSUME NEW k \in 1..Len(replies') PROVE Len(replies'[k]) \in 1..ChunkBytes
    <3>1. k + 1 \in 1..m /\ replies'[k] = replies[k + 1]
      BY <1>1, <1>4
    <3>2. QED
      BY <3>1, ListFacts
  <2>2. QED
    BY <2>1 DEF ChunksSound
<1>13. QED
  BY <1>7, <1>8, <1>10, <1>11, <1>12 DEF Sound

-----------------------------------------------------------------------------
(* The actions.  addReplyRaw chooses one of the three ways to take bytes.  *)
LEMMA SoundAddReplyRaw ==
  ASSUME Sound, NEW len \in 0..MaxReply, NEW extra, addReplyRaw(len, extra)
  PROVE  Sound'
<1>1. CASE UNCHANGED <<output, accepted>>
  BY <1>1, SoundUnchanged DEF addReplyRaw, stream
<1>2. CASE ~UNCHANGED <<output, accepted>>
  <2>1. /\ accepted' = accepted + len
        /\ sendLen' = sendLen /\ delivered' = delivered
        /\ IF FitsBuffer(len) THEN addReplyToBuffer(len) ELSE addReplyToReplyList(len)
    BY <1>2 DEF addReplyRaw
  <2>2. len \in Nat /\ len <= ChunkBytes
    BY SizesAssumption
  <2>3. CASE FitsBuffer(len)
    BY <2>1, <2>2, <2>3, SoundBuffer
  <2>4. CASE ~FitsBuffer(len)
    <3> DEFINE n == Len(replies)
    <3>1. /\ n \in Nat /\ (replies = << >> <=> n = 0) /\ Len(buf) \in Nat
          /\ \A k \in 1..n : Len(replies[k]) \in 1..ChunkBytes
      BY ListFacts
    <3>2. /\ replies' = IF n # 0 /\ Len(replies[n]) + len <= ChunkBytes
                        THEN [replies EXCEPT ![n] = @ \o NewBytes(len)]
                        ELSE Append(replies, NewBytes(len))
          /\ replyBytes' = replyBytes + len /\ buf' = buf
      BY <2>1, <2>4 DEF addReplyToReplyList
    <3>3. CASE n # 0 /\ Len(replies[n]) + len <= ChunkBytes
      BY <3>2, <3>3, <2>1, <2>2, SoundJoin
    <3>4. CASE ~(n # 0 /\ Len(replies[n]) + len <= ChunkBytes)
      <4>1. len # 0
        <5>1. CASE n = 0
          <6>1. replies = << >> /\ Len(buf) <= BufSize
            BY <5>1, <3>1 DEF Sound, CursorSound
          <6>2. ~(BufSize - Len(buf) >= len)
            BY <6>1, <2>4 DEF FitsBuffer
          <6>3. QED
            BY <6>1, <6>2, <3>1, SizesAssumption
        <5>2. CASE n # 0
          <6>1. n \in 1..n
            BY <5>2, <3>1
          <6>2. Len(replies[n]) \in 1..ChunkBytes
            BY <6>1, <3>1
          <6>3. QED
            BY <6>2, <5>2, <3>4, SizesAssumption
        <5>3. QED
          BY <5>1, <5>2
      <4>2. len \in 1..ChunkBytes
        BY <4>1, <2>2, SizesAssumption
      <4>3. QED
        BY <4>2, <3>2, <3>4, <2>1, SoundPush
    <3>5. QED
      BY <3>3, <3>4
  <2>5. QED
    BY <2>3, <2>4
<1>3. QED
  BY <1>1, <1>2

(* One write(2) of the loop.                                               *)
LEMMA SoundWrite ==
  ASSUME Sound, LoopGoesOn, NEW n \in 1..Len(Offered), Write(n)
  PROVE  Sound'
<1>1. ~hasNoPending
  BY DEF LoopGoesOn
<1>2. /\ delivered' = delivered \o SubSeq(Offered, 1, n)
      /\ accepted' = accepted
  BY DEF Write
<1>3. CASE n < Len(Offered)
  <2>1. /\ sendLen' = sendLen + n
        /\ buf' = buf /\ replies' = replies /\ replyBytes' = replyBytes
    BY <1>3 DEF Write
  <2>2. QED
    BY <1>1, <1>2, <1>3, <2>1, SoundShortWrite
<1>4. CASE n = Len(Offered) /\ buf # << >>
  <2>1. /\ sendLen' = 0
        /\ buf' = << >> /\ replies' = replies /\ replyBytes' = replyBytes
    BY <1>4 DEF Write
  <2>2. QED
    BY <1>2, <1>4, <2>1, SoundBufferWritten
<1>5. CASE n = Len(Offered) /\ buf = << >>
  <2>1. /\ sendLen' = 0 /\ buf' = buf
        /\ replies' = Tail(replies) /\ replyBytes' = replyBytes - Len(replies[1])
    BY <1>5 DEF Write
  <2>2. QED
    BY <1>1, <1>2, <1>5, <2>1, SoundChunkWritten
<1>6. QED
  <2>1. Len(Offered) \in Nat
    BY <1>1, OfferedType
  <2>2. n < Len(Offered) \/ n = Len(Offered)
    BY <2>1
  <2>3. QED
    BY <1>3, <1>4, <1>5, <2>2

(* The cursor is 0 whenever nothing is pending, so resetting it is idle.   *)
LEMMA SoundFinish ==
  ASSUME Sound, NEW res, Finish(res)
  PROVE  Sound'
<1>1. sendLen' = sendLen
  <2>1. CASE hasNoPending
    <3>1. sendLen = 0
      BY <2>1 DEF Sound, CursorSound, hasNoPending
    <3>2. QED
      BY <3>1 DEF Finish
  <2>2. CASE ~hasNoPending
    BY <2>2 DEF Finish
  <2>3. QED
    BY <2>1, <2>2
<1>2. QED
  BY <1>1, SoundUnchanged DEF Finish, output, stream

LEMMA SoundNext == Sound /\ [Next]_vars => Sound'
<1> SUFFICES ASSUME Sound, [Next]_vars PROVE Sound'
  OBVIOUS
<1>1. ASSUME NEW len \in 0..MaxReply, AddReply(len) PROVE Sound'
  BY <1>1, SoundAddReplyRaw DEF AddReply
<1>2. ASSUME NEW len \in 0..MaxReply, ProtocolError(len) PROVE Sound'
  BY <1>2, SoundAddReplyRaw DEF ProtocolError
<1>3. CASE BeforeSleep
  BY <1>3, SoundUnchanged DEF BeforeSleep
<1>4. CASE SendReplyToClient
  BY <1>4, SoundUnchanged DEF SendReplyToClient
<1>5. CASE WriteSome
  BY <1>5, SoundWrite DEF WriteSome
<1>6. ASSUME NEW res \in {"EAGAIN", "error"}, WriteFails(res) PROVE Sound'
  BY <1>6, SoundFinish DEF WriteFails
<1>7. CASE LoopEnds
  BY <1>7, SoundFinish DEF LoopEnds
<1>8. CASE PeerCloses
  BY <1>8, SoundUnchanged DEF PeerCloses
<1>9. CASE ServerCron
  BY <1>9, SoundUnchanged DEF ServerCron
<1>10. CASE UNCHANGED vars
  BY <1>10, SoundUnchanged DEF vars
<1>11. QED
  BY <1>1, <1>2, <1>3, <1>4, <1>5, <1>6, <1>7, <1>8, <1>9, <1>10 DEF Next

-----------------------------------------------------------------------------
(* The rest of the type invariant.                                         *)
ControlType ==
  /\ flags \in SUBSET Flags
  /\ listed \in Nat
  /\ handler \in BOOLEAN
  /\ toClose \in BOOLEAN
  /\ sock \in {"open", "closed", "none"}
  /\ pc \in {"idle", "writing", "crashed"}
  /\ installed \in BOOLEAN
  /\ total \in Nat
  /\ result \in Results

LEMMA ControlTypeRaw ==
  ASSUME ControlType, NEW len, NEW extra \in SUBSET Flags, addReplyRaw(len, extra),
         pc' \in {"idle", "writing", "crashed"}
  PROVE  ControlType'
<1>1. listed' \in Nat
  <2>1. listed \in Nat /\ listed + 1 \in Nat
    BY DEF ControlType
  <2>2. QED
    BY <2>1 DEF addReplyRaw
<1>2. flags' \in SUBSET Flags
  <2>1. flags \in SUBSET Flags /\ FlagsWhenListed \in SUBSET Flags
    BY DEF ControlType, FlagsWhenListed, Flags
  <2>2. flags' = flags \cup extra \/ flags' = FlagsWhenListed \cup extra
    BY DEF addReplyRaw
  <2>3. QED
    BY <2>1, <2>2
<1>3. UNCHANGED <<handler, toClose, sock, installed, total, result>>
  BY DEF addReplyRaw, loop
<1>4. QED
  BY <1>1, <1>2, <1>3 DEF ControlType

LEMMA ControlTypeFinish ==
  ASSUME ControlType, NEW res \in Results, Finish(res)
  PROVE  ControlType'
<1>1. flags' \in SUBSET Flags /\ toClose' \in BOOLEAN /\ sock' \in {"open", "closed", "none"}
  BY DEF ControlType, Finish, freeClientAsyncAndClose, Flags
<1>2. handler' \in BOOLEAN /\ listed' \in Nat
  BY DEF ControlType, Finish
<1>3. pc' = "idle" /\ result' = res /\ installed' = installed /\ total' = total
  BY DEF Finish
<1>4. QED
  BY <1>1, <1>2, <1>3 DEF ControlType

LEMMA ControlTypeUnlink ==
  ASSUME ControlType, freeClient, UNCHANGED <<flags, loop>>
  PROVE  ControlType'
<1>1. listed' \in Nat
  <2>1. listed \in Nat
    BY DEF ControlType
  <2>2. listed > 0 => listed - 1 \in Nat
    BY <2>1
  <2>3. QED
    BY <2>1, <2>2 DEF freeClient
<1>2. QED
  BY <1>1 DEF ControlType, freeClient, MayCrash, loop

LEMMA ControlTypeNext == Sound /\ ControlType /\ [Next]_vars => ControlType'
<1> SUFFICES ASSUME Sound, ControlType, [Next]_vars PROVE ControlType'
  OBVIOUS
<1>1. ASSUME NEW len \in 0..MaxReply, AddReply(len) PROVE ControlType'
  <2>1. {} \in SUBSET Flags /\ pc' \in {"idle", "writing", "crashed"}
    BY <1>1 DEF AddReply, ControlType
  <2>2. QED
    BY <1>1, <2>1, ControlTypeRaw DEF AddReply
<1>2. ASSUME NEW len \in 0..MaxReply, ProtocolError(len) PROVE ControlType'
  <2>1. {"CLOSE_AFTER_REPLY"} \in SUBSET Flags
    BY DEF Flags
  <2>2. QED
    BY <1>2, <2>1, ControlTypeRaw DEF ProtocolError, MayCrash
<1>3. CASE BeforeSleep
  BY <1>3 DEF BeforeSleep, ControlType, server, Results, Flags
<1>4. CASE SendReplyToClient
  BY <1>4 DEF SendReplyToClient, ControlType, server, Results
<1>5. CASE WriteSome
  <2>1. PICK n \in 1..Len(Offered) : Write(n)
    BY <1>5 DEF WriteSome
  <2>2. n \in Nat
    BY <1>5, OfferedType DEF WriteSome, LoopGoesOn
  <2>3. total' \in Nat
    BY <2>1, <2>2 DEF Write, ControlType
  <2>4. QED
    BY <2>1, <2>3 DEF Write, ControlType, server, Results
<1>6. ASSUME NEW res \in {"EAGAIN", "error"}, WriteFails(res) PROVE ControlType'
  BY <1>6, ControlTypeFinish DEF WriteFails, Results
<1>7. CASE LoopEnds
  BY <1>7, ControlTypeFinish DEF LoopEnds, ControlType
<1>8. CASE PeerCloses
  BY <1>8, ControlTypeUnlink DEF PeerCloses
<1>9. CASE ServerCron
  BY <1>9, ControlTypeUnlink DEF ServerCron
<1>10. CASE UNCHANGED vars
  BY <1>10 DEF vars, ControlType, server, loop
<1>11. QED
  BY <1>1, <1>2, <1>3, <1>4, <1>5, <1>6, <1>7, <1>8, <1>9, <1>10 DEF Next

-----------------------------------------------------------------------------
(* TypeOK and Sound together are the inductive invariant.                  *)
LEMMA InductiveInvariant == Spec => [](Sound /\ ControlType)
<1>1. Init => Sound /\ ControlType
  <2>1. ASSUME Init PROVE ControlType
    <3>1. flags = {} /\ handler = FALSE /\ toClose = FALSE /\ installed = FALSE
      BY <2>1, Zenon DEF Init
    <3>2. /\ listed = 0 /\ total = 0
          /\ sock = "open" /\ pc = "idle" /\ result = "wrote"
      BY <2>1 DEF Init
    <3>3. flags \in SUBSET Flags
      BY <3>1
    <3>4. handler \in BOOLEAN /\ toClose \in BOOLEAN /\ installed \in BOOLEAN
      BY <3>1, Zenon
    <3>5. QED
      BY <3>2, <3>3, <3>4 DEF ControlType, Results
  <2>2. QED
    BY <2>1, SoundInit
<1>2. (Sound /\ ControlType) /\ [Next]_vars => (Sound /\ ControlType)'
  BY SoundNext, ControlTypeNext
<1>3. QED
  BY <1>1, <1>2, PTL DEF Spec

(* Every variable of the output path keeps its type.                       *)
THEOREM TypeCorrect == Spec => []TypeOK
<1>1. Sound /\ ControlType => TypeOK
  BY DEF Sound, OutputType, ControlType, TypeOK
<1>2. QED
  BY <1>1, InductiveInvariant, PTL

(* Whatever the sizes of the two buffers and however write(2) cuts the     *)
(* output up, the peer receives the accepted bytes in order, none skipped  *)
(* and none twice.                                                         *)
THEOREM DeliversInOrder == Spec => []InOrder
<1>1. Sound /\ ControlType => InOrder
  BY DEF Sound
<1>2. QED
  BY <1>1, InductiveInvariant, PTL

(* The one cursor always belongs to the buffer that is being written, and  *)
(* the fixed buffer, of at most BufSize bytes, holds the next bytes.       *)
THEOREM CursorIsSound == Spec => []CursorSound
<1>1. Sound /\ ControlType => CursorSound
  BY DEF Sound
<1>2. QED
  BY <1>1, InductiveInvariant, PTL

(* The list continues the fixed buffer and replyBytes counts its bytes.    *)
THEOREM ListIsSound == Spec => []ListSound
<1>1. Sound /\ ControlType => ListSound
  BY DEF Sound
<1>2. QED
  BY <1>1, InductiveInvariant, PTL

(* No chunk is empty or longer than PROTO_REPLY_CHUNK_BYTES.               *)
THEOREM ChunksAreSound == Spec => []ChunksSound
<1>1. Sound /\ ControlType => ChunksSound
  BY DEF Sound
<1>2. QED
  BY <1>1, InductiveInvariant, PTL

(* CLIENT_CLOSE_AFTER_REPLY closes the socket only when every accepted     *)
(* byte was delivered: only a failed write closes it earlier.              *)
LEMMA CloseStep ==
  ASSUME Sound, [Next]_vars, sock = "open", sock' = "closed", result' # "error"
  PROVE  Len(delivered) = accepted
<1>1. ASSUME NEW res, Finish(res) PROVE Len(delivered) = accepted
  <2>1. hasNoPending
    BY <1>1 DEF Finish
  <2>2. /\ sendLen = 0 /\ Len(buf) = 0 /\ Base = accepted
        /\ Len(delivered) \in Nat
    BY <2>1, ListFacts DEF hasNoPending, Sound, CursorSound, ListSound
  <2>3. QED
    BY <2>2 DEF Base
<1>2. \E res : Finish(res)
  BY DEF Next, vars, AddReply, ProtocolError, addReplyRaw, BeforeSleep, SendReplyToClient,
         WriteSome, Write, WriteFails, LoopEnds, PeerCloses, ServerCron, freeClient
<1>3. QED
  BY <1>1, <1>2

THEOREM ClosingLosesNothing == Spec => CloseLosesNothing
<1>1. Sound /\ [Next]_vars =>
        [(sock = "open" /\ sock' = "closed" /\ result' # "error")
           => Len(delivered) = accepted]_vars
  BY CloseStep
<1>2. QED
  BY <1>1, InductiveInvariant, PTL DEF Spec, CloseLosesNothing

-----------------------------------------------------------------------------
(* Every step is a step of the byte stream: the replies are accepted, each *)
(* write(2) delivers the next bytes, and closing or unlinking ends it.     *)
StreamStep == [Stream!SNext]_<<accepted, delivered, sock = "open">>

LEMMA DeliverStep ==
  ASSUME Sound, LoopGoesOn, sock = "open", NEW n \in 1..Len(Offered), Write(n)
  PROVE  Stream!SDeliver
<1>1. ~hasNoPending
  BY DEF LoopGoesOn
<1>2. /\ delivered' = delivered \o SubSeq(Offered, 1, n)
      /\ accepted' = accepted /\ sock' = sock
  BY DEF Write, server
<1>3. /\ delivered' \in Seq(Nat)
      /\ Len(delivered') = Len(delivered) + n
      /\ Len(delivered) + n <= accepted
      /\ \A i \in 1..(Len(delivered) + n) : delivered'[i] = i
  BY <1>1, <1>2, WriteDelivers
<1>4. Len(delivered) \in Nat /\ accepted \in Nat /\ n \in Nat
  BY <1>1, ListFacts, OfferedType
<1>5. Len(delivered) + n \in Len(delivered)..accepted
  BY <1>3, <1>4
<1>6. delivered' = Stream!Prefix(Len(delivered) + n)
  <2> DEFINE p == Stream!Prefix(Len(delivered) + n)
  <2>1. \A i \in 1..(Len(delivered) + n) : i \in Nat
    OBVIOUS
  <2>2. Len(delivered) + n \in Nat
    BY <1>4
  <2>3. p \in Seq(Nat)
    BY <2>1, <2>2, IsASeq DEF Stream!Prefix
  <2>4. Len(p) = Len(delivered) + n /\ \A i \in 1..(Len(delivered) + n) : p[i] = i
    BY <2>2, <2>3 DEF Stream!Prefix
  <2> HIDE DEF p
  <2>5. delivered' = p
    BY <1>3, <2>3, <2>4, SeqEqual
  <2>6. QED
    BY <2>5 DEF p
<1>7. QED
  BY <1>2, <1>5, <1>6 DEF Stream!SDeliver

LEMMA AcceptStep ==
  ASSUME Sound, NEW len \in 0..MaxReply, NEW extra, addReplyRaw(len, extra)
  PROVE  Stream!SAccept
<1>1. /\ accepted' = accepted \/ accepted' = accepted + len
      /\ delivered' = delivered /\ sock' = sock
  BY DEF addReplyRaw
<1>2. accepted \in Nat /\ len \in Nat
  BY SizesAssumption DEF Sound, OutputType
<1>3. accepted' \in Nat /\ accepted' >= accepted
  BY <1>1, <1>2
<1>4. QED
  BY <1>1, <1>3 DEF Stream!SAccept

LEMMA StreamNext == Sound /\ [Next]_vars => StreamStep
<1> SUFFICES ASSUME Sound, [Next]_vars PROVE StreamStep
  OBVIOUS
<1>1. ASSUME NEW len \in 0..MaxReply, AddReply(len) PROVE StreamStep
  BY <1>1, AcceptStep DEF AddReply, StreamStep, Stream!SNext
<1>2. ASSUME NEW len \in 0..MaxReply, ProtocolError(len) PROVE StreamStep
  BY <1>2, AcceptStep DEF ProtocolError, StreamStep, Stream!SNext
<1>3. CASE BeforeSleep
  BY <1>3 DEF BeforeSleep, StreamStep, stream
<1>4. CASE SendReplyToClient
  BY <1>4 DEF SendReplyToClient, StreamStep, stream
<1>5. CASE WriteSome
  BY <1>5, DeliverStep DEF WriteSome, StreamStep, Stream!SNext
<1>6. ASSUME NEW res, Finish(res) PROVE StreamStep
  <2>1. accepted' = accepted /\ delivered' = delivered
    BY <1>6 DEF Finish, stream
  <2>2. sock' = sock \/ sock' = "closed"
    BY <1>6 DEF Finish, freeClientAsyncAndClose
  <2>3. QED
    BY <2>1, <2>2 DEF StreamStep, Stream!SNext, Stream!SClose
<1>7. ASSUME NEW res \in {"EAGAIN", "error"}, WriteFails(res) PROVE StreamStep
  BY <1>6, <1>7 DEF WriteFails
<1>8. CASE LoopEnds
  BY <1>6, <1>8 DEF LoopEnds
<1>9. ASSUME freeClient, UNCHANGED stream PROVE StreamStep
  BY <1>9 DEF freeClient, stream, StreamStep, Stream!SNext, Stream!SClose
<1>10. CASE PeerCloses
  BY <1>9, <1>10 DEF PeerCloses
<1>11. CASE ServerCron
  BY <1>9, <1>11 DEF ServerCron
<1>12. CASE UNCHANGED vars
  BY <1>12 DEF vars, stream, StreamStep
<1>13. QED
  BY <1>1, <1>2, <1>3, <1>4, <1>5, <1>7, <1>8, <1>10, <1>11, <1>12 DEF Next

(* The buffers, the pending list and the write handler together implement  *)
(* ReplyStream: whatever a peer can see of a connection is a prefix of the *)
(* accepted bytes until the connection ends, for all sizes.                *)
THEOREM Implementation == Spec => ImplementsStream
<1>1. Init => Stream!SInit
  BY DEF Init, Stream!SInit
<1>2. Sound /\ [Next]_vars => [Stream!SNext]_(Stream!svars)
  BY StreamNext DEF StreamStep, Stream!svars
<1>3. QED
  BY <1>1, <1>2, InductiveInvariant, PTL DEF Spec, ImplementsStream, Stream!SSpec

-----------------------------------------------------------------------------
(* Scheduling.  The client is on the pending list exactly when it carries  *)
(* CLIENT_PENDING_WRITE, and never while the write handler is installed.   *)
Listed    == listed = 1 /\ "PENDING_WRITE" \in flags
NotListed == listed = 0 /\ "PENDING_WRITE" \notin flags

WhenIdle ==
  /\ sock = "none" => ~handler /\ listed = 0
  /\ sock # "none" => Listed \/ NotListed
  /\ handler => ~hasNoPending /\ NotListed
  /\ sock = "open" /\ ~hasNoPending => handler \/ Listed

(* Inside writeToClient.  A loop entered by the handler has work when it   *)
(* starts, so that it ends with nothing pending only after a write.        *)
WhenWriting ==
  /\ sock # "none"
  /\ installed => handler /\ NotListed /\ (hasNoPending => result = "wrote")
  /\ ~installed => ~handler /\ "PENDING_WRITE" \notin flags /\ listed = 1

OneWriter ==
  /\ pc \in {"idle", "crashed"} => WhenIdle
  /\ pc = "writing" => WhenWriting

(* Taking more bytes never empties the buffers.                            *)
LEMMA StillPending ==
  ASSUME Sound, NEW len \in 0..MaxReply, NEW extra, addReplyRaw(len, extra),
         ~hasNoPending
  PROVE  ~hasNoPending'
<1>1. CASE UNCHANGED output
  BY <1>1 DEF hasNoPending, output
<1>2. CASE ~UNCHANGED output
  <2>1. IF FitsBuffer(len) THEN addReplyToBuffer(len) ELSE addReplyToReplyList(len)
    BY <1>2 DEF addReplyRaw
  <2>2. len \in Nat /\ accepted \in Nat /\ buf \in Seq(Nat) /\ replies \in Seq(Seq(Nat))
    BY SizesAssumption DEF Sound, OutputType
  <2>3. NewBytes(len) \in Seq(Nat)
    BY <2>2, NewBytesProperties
  <2>4. CASE FitsBuffer(len)
    <3>1. buf' = buf \o NewBytes(len) /\ buf # << >>
      BY <2>1, <2>4 DEF addReplyToBuffer, FitsBuffer, hasNoPending
    <3>2. Len(buf) \in Nat /\ Len(buf) # 0 /\ Len(NewBytes(len)) \in Nat
      BY <2>2, <2>3, <3>1, EmptySeq, LenProperties
    <3>3. Len(buf') = Len(buf) + Len(NewBytes(len))
      BY <2>2, <2>3, <3>1, ConcatProperties
    <3>4. Len(buf') # 0
      BY <3>2, <3>3
    <3>5. QED
      BY <3>4 DEF hasNoPending
  <2>5. CASE ~FitsBuffer(len)
    <3> DEFINE n == Len(replies)
    <3>1. n \in Nat
      BY <2>2, LenProperties
    <3>2. CASE replies' = Append(replies, NewBytes(len))
      <4>1. Len(replies') = n + 1
        BY <2>2, <2>3, <3>2, AppendProperties
      <4>2. Len(replies') # 0
        BY <3>1, <4>1
      <4>3. QED
        BY <4>2 DEF hasNoPending
    <3>3. CASE replies' = [replies EXCEPT ![n] = @ \o NewBytes(len)] /\ n # 0
      <4>1. DOMAIN replies' = DOMAIN replies
        BY <3>3
      <4>2. DOMAIN replies = 1..n /\ n \in 1..n
        BY <2>2, <3>1, <3>3, LenProperties
      <4>3. DOMAIN replies' # {}
        BY <4>1, <4>2
      <4>4. DOMAIN << >> = {}
        OBVIOUS
      <4>5. QED
        BY <4>3, <4>4 DEF hasNoPending
    <3>4. QED
      BY <2>1, <2>5, <3>2, <3>3 DEF addReplyToReplyList
  <2>6. QED
    BY <2>4, <2>5
<1>3. QED
  BY <1>1, <1>2

LEMMA OneWriterRaw ==
  ASSUME Sound, OneWriter, pc = "idle", NEW len \in 0..MaxReply,
         NEW extra, "PENDING_WRITE" \notin extra, addReplyRaw(len, extra),
         pc' \in {"idle", "crashed"}
  PROVE  OneWriter'
<1>1. WhenIdle
  BY DEF OneWriter
<1>2. /\ pc' # "writing" /\ sock' = sock /\ handler' = handler
  BY DEF addReplyRaw
<1>3. ~hasNoPending => ~hasNoPending'
  BY StillPending
<1>4. CASE sock = "none"
  <2>1. listed' = listed /\ buf' = buf /\ replies' = replies
    BY <1>4 DEF addReplyRaw, output
  <2>2. WhenIdle'
    BY <1>1, <1>2, <1>4, <2>1 DEF WhenIdle
  <2>3. QED
    BY <1>2, <2>2 DEF OneWriter
<1>5. CASE sock # "none"
  <2>1. /\ listed' = IF MustList THEN listed + 1 ELSE listed
        /\ flags' = FlagsWhenListed \cup extra
    BY <1>5 DEF addReplyRaw
  <2>2. CASE MustList
    <3>1. NotListed /\ hasNoPending
      BY <1>1, <1>5, <2>2 DEF WhenIdle, Listed, MustList
    <3>2. Listed'
      BY <2>1, <2>2, <3>1 DEF NotListed, Listed, FlagsWhenListed
    <3>3. ~handler
      BY <1>1, <3>1 DEF WhenIdle
    <3>4. WhenIdle'
      BY <1>2, <1>5, <3>2, <3>3 DEF WhenIdle
    <3>5. QED
      BY <1>2, <3>4 DEF OneWriter
  <2>3. CASE ~MustList
    <3>1. /\ listed' = listed
          /\ "PENDING_WRITE" \in flags' <=> "PENDING_WRITE" \in flags
      BY <2>1, <2>3 DEF FlagsWhenListed
    <3>2. (Listed <=> Listed') /\ (NotListed <=> NotListed')
      BY <3>1 DEF Listed, NotListed
    <3>3. hasNoPending => Listed
      BY <1>1, <1>5, <2>3 DEF WhenIdle, MustList, Listed, NotListed
    <3>4. WhenIdle'
      BY <1>1, <1>2, <1>3, <1>5, <3>2, <3>3 DEF WhenIdle
    <3>5. QED
      BY <1>2, <3>4 DEF OneWriter
  <2>4. QED
    BY <2>2, <2>3
<1>6. QED
  BY <1>4, <1>5

LEMMA OneWriterFinish ==
  ASSUME OneWriter, pc = "writing", NEW res, Finish(res),
         installed /\ hasNoPending => res # "error"
  PROVE  OneWriter'
<1>1. WhenWriting
  BY DEF OneWriter
<1>2. /\ pc' = "idle" /\ (hasNoPending' <=> hasNoPending)
      /\ listed' = IF installed THEN listed ELSE 0
  BY DEF Finish, hasNoPending
<1>3. /\ "PENDING_WRITE" \notin flags
      /\ flags' = flags \/ flags' = {"CLOSE_ASAP"}
  BY <1>1 DEF WhenWriting, NotListed, Finish, freeClientAsyncAndClose
<1>4. NotListed'
  BY <1>1, <1>2, <1>3 DEF WhenWriting, NotListed
<1>5. sock' # "none" /\ (sock' = "open" => sock = "open")
  BY <1>1 DEF WhenWriting, Finish, freeClientAsyncAndClose
<1>6. handler' => ~hasNoPending
  BY <1>1 DEF WhenWriting, Finish
<1>7. (sock' = "open" /\ ~hasNoPending) => handler'
  <2>1. ASSUME res = "error" PROVE sock' # "open"
    BY <2>1, <1>1 DEF Finish, freeClientAsyncAndClose
  <2>2. ASSUME res # "error", ~hasNoPending PROVE handler'
    BY <2>2 DEF Finish
  <2>3. QED
    BY <2>1, <2>2
<1>8. WhenIdle'
  BY <1>2, <1>4, <1>5, <1>6, <1>7 DEF WhenIdle
<1>9. QED
  BY <1>2, <1>8 DEF OneWriter

LEMMA OneWriterUnlink ==
  ASSUME OneWriter, pc = "idle", sock # "none", freeClient,
         UNCHANGED <<output, flags, loop>>
  PROVE  OneWriter'
<1>1. Listed \/ NotListed
  BY DEF OneWriter, WhenIdle
<1>2. listed' = 0
  BY <1>1 DEF freeClient, Listed, NotListed
<1>3. pc' # "writing" /\ sock' = "none" /\ ~handler'
  BY DEF freeClient, MayCrash, loop
<1>4. WhenIdle'
  BY <1>2, <1>3 DEF WhenIdle
<1>5. QED
  BY <1>3, <1>4 DEF OneWriter

(* A client waiting in clientsToClose was not unlinked: unlinkClient takes *)
(* it out of the list.                                                     *)
ToCloseLinked == toClose => sock # "none"

LEMMA ToCloseNext == ToCloseLinked /\ [Next]_vars => ToCloseLinked'
<1> SUFFICES ASSUME ToCloseLinked, [Next]_vars PROVE ToCloseLinked'
  OBVIOUS
<1>1. ASSUME NEW res, Finish(res) PROVE ToCloseLinked'
  BY <1>1 DEF Finish, freeClientAsyncAndClose, ToCloseLinked
<1>2. ASSUME freeClient PROVE ToCloseLinked'
  BY <1>2 DEF freeClient, ToCloseLinked
<1>3. ASSUME UNCHANGED <<toClose, sock>> PROVE ToCloseLinked'
  BY <1>3 DEF ToCloseLinked
<1>4. QED
  BY <1>1, <1>2, <1>3 DEF Next, vars, server, AddReply, ProtocolError, addReplyRaw, BeforeSleep,
     SendReplyToClient, WriteSome, Write, WriteFails, LoopEnds, PeerCloses, ServerCron

LEMMA OneWriterNext ==
  Sound /\ OneWriter /\ ToCloseLinked /\ [Next]_vars => OneWriter'
<1> SUFFICES ASSUME Sound, OneWriter, ToCloseLinked, [Next]_vars PROVE OneWriter'
  OBVIOUS
<1>1. ASSUME NEW len \in 0..MaxReply, AddReply(len) PROVE OneWriter'
  BY <1>1, OneWriterRaw DEF AddReply
<1>2. ASSUME NEW len \in 0..MaxReply, ProtocolError(len) PROVE OneWriter'
  BY <1>2, OneWriterRaw DEF ProtocolError, MayCrash
<1>3. CASE BeforeSleep
  <2>1. WhenIdle /\ pc' = "writing" /\ ~installed'
    BY <1>3 DEF BeforeSleep, OneWriter
  <2>2. /\ listed' = listed /\ handler' = handler /\ sock' = sock
        /\ "PENDING_WRITE" \notin flags' /\ listed > 0
    BY <1>3 DEF BeforeSleep, server
  <2>3. sock # "none" /\ listed = 1 /\ ~handler
    BY <2>1, <2>2 DEF WhenIdle, Listed, NotListed
  <2>4. WhenWriting'
    BY <2>1, <2>2, <2>3 DEF WhenWriting
  <2>5. QED
    BY <2>1, <2>4 DEF OneWriter
<1>4. CASE SendReplyToClient
  <2>1. WhenIdle /\ pc' = "writing" /\ installed' /\ handler /\ sock = "open"
    BY <1>4 DEF SendReplyToClient, OneWriter
  <2>2. UNCHANGED <<listed, handler, sock, flags, buf, replies>>
    BY <1>4 DEF SendReplyToClient, server, output
  <2>3. ~hasNoPending /\ NotListed
    BY <2>1 DEF WhenIdle
  <2>4. ~hasNoPending' /\ NotListed'
    BY <2>2, <2>3 DEF hasNoPending, NotListed
  <2>5. WhenWriting'
    BY <2>1, <2>2, <2>4 DEF WhenWriting
  <2>6. QED
    BY <2>1, <2>5 DEF OneWriter
<1>5. CASE WriteSome
  <2>1. /\ UNCHANGED <<listed, handler, sock, flags, pc, installed>>
        /\ pc = "writing" /\ result' = "wrote"
    BY <1>5 DEF WriteSome, LoopGoesOn, Write, server
  <2>2. WhenWriting'
    BY <2>1 DEF OneWriter, WhenWriting, NotListed
  <2>3. QED
    BY <2>1, <2>2 DEF OneWriter
<1>6. ASSUME NEW res \in {"EAGAIN", "error"}, WriteFails(res) PROVE OneWriter'
  BY <1>6, OneWriterFinish DEF WriteFails, LoopGoesOn
<1>7. CASE LoopEnds
  <2>1. pc = "writing" /\ Finish(result)
    BY <1>7 DEF LoopEnds
  <2>2. installed /\ hasNoPending => result # "error"
    BY <2>1 DEF OneWriter, WhenWriting
  <2>3. QED
    BY <2>1, <2>2, OneWriterFinish
<1>8. CASE PeerCloses
  BY <1>8, OneWriterUnlink DEF PeerCloses
<1>9. CASE ServerCron
  BY <1>9, OneWriterUnlink DEF ServerCron, ToCloseLinked
<1>10. CASE UNCHANGED vars
  BY <1>10 DEF vars, output, server, loop, OneWriter, WhenIdle, WhenWriting, Listed,
               NotListed, hasNoPending
<1>11. QED
  BY <1>1, <1>2, <1>3, <1>4, <1>5, <1>6, <1>7, <1>8, <1>9, <1>10 DEF Next

LEMMA SchedulingInvariant == Spec => [](OneWriter /\ ControlType)
<1>1. Init => OneWriter /\ ToCloseLinked
  BY DEF Init, OneWriter, WhenIdle, Listed, NotListed, hasNoPending, ToCloseLinked
<1>2. (Sound /\ ControlType) /\ (OneWriter /\ ToCloseLinked) /\ [Next]_vars
        => (OneWriter /\ ToCloseLinked)'
  BY OneWriterNext, ToCloseNext
<1>3. QED
  BY <1>1, <1>2, InductiveInvariant, PTL DEF Spec

(* Output waiting on an open connection is never forgotten and never has   *)
(* two writers: either the pending list or the write handler will send it. *)
THEOREM OutputIsScheduled == Spec => []OutputScheduled
<1>1. OneWriter /\ ControlType => OutputScheduled
  BY DEF OneWriter, WhenIdle, Listed, NotListed, ControlType, OutputScheduled
<1>2. QED
  BY <1>1, SchedulingInvariant, PTL

(* The write handler of an open connection always has something to write.  *)
THEOREM HandlerHasWork == Spec => []WriterHasWork
<1>1. OneWriter /\ ControlType => WriterHasWork
  BY DEF OneWriter, WhenIdle, WriterHasWork
<1>2. QED
  BY <1>1, SchedulingInvariant, PTL

(* CLIENT_PENDING_WRITE tells the truth about the list, also after         *)
(* freeClientAsync has overwritten the flags and after unlinkClient.       *)
THEOREM ListedIsFlagged == Spec => []ListedAsFlagged
<1>1. OneWriter /\ ControlType => ListedAsFlagged
  BY DEF OneWriter, WhenIdle, WhenWriting, Listed, NotListed, ControlType, ListedAsFlagged
<1>2. QED
  BY <1>1, SchedulingInvariant, PTL

(* The two buffers and their cursor agree with what was accepted and       *)
(* delivered, for all sizes.                                               *)
THEOREM BuffersAreSound == Spec => []BuffersSound
BY CursorIsSound, ListIsSound, ChunksAreSound, PTL DEF BuffersSound

(* Waiting output has one writer, and a writer has waiting output.         *)
THEOREM WriterIsScheduled == Spec => []WriterScheduled
BY OutputIsScheduled, HandlerHasWork, ListedIsFlagged, PTL DEF WriterScheduled
=============================================================================
