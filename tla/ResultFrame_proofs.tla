-------------------------- MODULE ResultFrame_proofs --------------------------
(***************************************************************************)
(* The results of a frame, from the tensors to the datagram, for any       *)
(* number of boxes and classes, any scores and thresholds, and bytes of    *)
(* any size.  PostProcess_proofs has what happens before the encoding.     *)
(***************************************************************************)
EXTENDS ResultFrame, PostProcess_proofs

USE PostAssumption, FrameAssumption

Bytes == 0..ByteMod - 1
Words == 0..WordMod - 1

(* A word of a sequence of bytes.                                          *)
WordIn(s, k) ==
  s[k] + ByteMod * (s[k + 1] + ByteMod * (s[k + 2] + ByteMod * s[k + 3]))
-----------------------------------------------------------------------------
(***************************************************************************)
(* A word goes through uint2chars and back.                                *)
(***************************************************************************)
LEMMA TimesNat == ASSUME NEW a \in Nat, NEW b \in Nat PROVE a * b \in Nat
OBVIOUS

LEMMA DivMod ==
  ASSUME NEW n \in Nat, NEW b \in Nat \ {0}
  PROVE  /\ n \div b \in Nat
         /\ n % b \in 0..b - 1
         /\ n = (n % b) + b * (n \div b)
         /\ n < b => n % b = n
OBVIOUS

LEMMA DivLess ==
  ASSUME NEW n \in Nat, NEW b \in Nat \ {0}, NEW m \in Nat, n < b * m
  PROVE  n \div b < m
<1>. DEFINE q == n \div b
<1>1. q \in Nat /\ b * q <= n
  <2>1. q \in Nat /\ n % b \in 0..b - 1 /\ n = (n % b) + b * q
    BY DivMod, Zenon
  <2>. HIDE DEF q
  <2>2. b * q \in Nat
    BY <2>1, TimesNat
  <2>. QED  BY <2>1, <2>2
<1>. HIDE DEF q
<1>2. ASSUME m <= q PROVE FALSE
  <2>1. b * m <= b * q
    <3>1. PICK d \in Nat : q = m + d
      BY <1>1, <1>2
    <3>2. b * q = b * m + b * d /\ b * d \in Nat /\ b * m \in Nat
      BY <3>1, TimesNat
    <3>. QED  BY <3>2
  <2>2. b * m \in Nat /\ b * q \in Nat
    BY <1>1, TimesNat
  <2>. QED  BY <1>1, <2>1, <2>2
<1>. QED  BY <1>1, <1>2 DEF q

LEMMA WordModIs ==
  /\ WordMod \in Nat
  /\ WordMod = ByteMod * (ByteMod * (ByteMod * ByteMod))
  /\ ByteMod * ByteMod \in Nat /\ ByteMod * (ByteMod * ByteMod) \in Nat
<1>1. ByteMod \in Nat
  OBVIOUS
<1>2. ByteMod * ByteMod \in Nat /\ ByteMod * (ByteMod * ByteMod) \in Nat
      /\ ByteMod * (ByteMod * (ByteMod * ByteMod)) \in Nat
  BY <1>1, TimesNat
<1>3. WordMod = ByteMod * (ByteMod * (ByteMod * ByteMod))
  BY <1>1 DEF WordMod
<1>. QED  BY <1>2, <1>3

(* The four bytes of a word are the word again.                            *)
LEMMA Uint2charsReads ==
  ASSUME NEW w \in Words
  PROVE  /\ Uint2chars(w) \in Seq(Bytes) /\ Len(Uint2chars(w)) = 4
         /\ WordIn(Uint2chars(w), 1) = w
<1>. DEFINE q1 == Shift(w)
            q2 == Shift(q1)
            q3 == Shift(q2)
<1>1. w \in Nat /\ w < WordMod /\ ByteMod \in Nat \ {0}
  BY WordModIs DEF Words
<1>2. /\ q1 \in Nat /\ w % ByteMod \in Bytes /\ w = (w % ByteMod) + ByteMod * q1
      /\ q1 < ByteMod * (ByteMod * ByteMod)
  <2>1. w < ByteMod * (ByteMod * (ByteMod * ByteMod))
    BY <1>1, WordModIs
  <2>. QED  BY <1>1, <2>1, DivMod, DivLess, WordModIs DEF Shift, Bytes
<1>. HIDE DEF q1
<1>3. /\ q2 \in Nat /\ q1 % ByteMod \in Bytes /\ q1 = (q1 % ByteMod) + ByteMod * q2
      /\ q2 < ByteMod * ByteMod
  BY <1>1, <1>2, DivMod, DivLess, WordModIs DEF Shift, Bytes
<1>. HIDE DEF q2
<1>4. /\ q3 \in Nat /\ q2 % ByteMod \in Bytes /\ q2 = (q2 % ByteMod) + ByteMod * q3
      /\ q3 < ByteMod
  BY <1>1, <1>3, DivMod, DivLess DEF Shift, Bytes
<1>. HIDE DEF q3
<1>5. q3 % ByteMod = q3 /\ q3 % ByteMod \in Bytes
  BY <1>1, <1>4, DivMod DEF Bytes
<1>6. Uint2chars(w) = <<w % ByteMod, q1 % ByteMod, q2 % ByteMod, q3 % ByteMod>>
  BY DEF Uint2chars, q1, q2, q3
<1>7. Uint2chars(w) \in Seq(Bytes) /\ Len(Uint2chars(w)) = 4
  BY <1>2, <1>3, <1>4, <1>5, <1>6
<1>8. WordIn(Uint2chars(w), 1)
        = (w % ByteMod) + ByteMod * ((q1 % ByteMod)
            + ByteMod * ((q2 % ByteMod) + ByteMod * (q3 % ByteMod)))
  BY <1>6 DEF WordIn
<1>9. WordIn(Uint2chars(w), 1) = w
  BY <1>2, <1>3, <1>4, <1>5, <1>8
<1>. QED  BY <1>7, <1>9

LEMMA SumOfFour ==
  ASSUME NEW a \in Nat, NEW b \in Nat, NEW c \in Nat, NEW d \in Nat
  PROVE  (a + b + c + d) % ByteMod \in Bytes
<1>1. a + b + c + d \in Nat
  OBVIOUS
<1>. QED  BY <1>1, DivMod DEF Bytes

LEMMA SumOfSeven ==
  ASSUME NEW a \in Nat, NEW b \in Nat, NEW c \in Nat, NEW d \in Nat,
         NEW e \in Nat, NEW f \in Nat, NEW g \in Nat
  PROVE  (a + b + c + d + e + f + g) % ByteMod \in Bytes
<1>1. a + b + c + d + e + f + g \in Nat
  OBVIOUS
<1>. QED  BY <1>1, DivMod DEF Bytes

LEMMA ByteSumType ==
  ASSUME NEW w \in Words
  PROVE  ByteSum(w) \in Bytes
<1>. DEFINE b == Uint2chars(w)
<1>1. b[1] \in Nat /\ b[2] \in Nat /\ b[3] \in Nat /\ b[4] \in Nat
  BY Uint2charsReads DEF Bytes
<1>. HIDE DEF b
<1>2. (b[1] + b[2] + b[3] + b[4]) % ByteMod \in Bytes
  BY <1>1, SumOfFour
<1>. QED  BY <1>2 DEF ByteSum, b

(* Several words one after the other.                                      *)
LEMMA BytesOfReads ==
  ASSUME NEW words \in Seq(Words)
  PROVE  /\ BytesOf(words) \in Seq(Bytes)
         /\ Len(BytesOf(words)) = 4 * Len(words)
         /\ \A q \in 1..Len(words) : WordIn(BytesOf(words), (4 * (q - 1)) + 1) = words[q]
<1>. DEFINE L == Len(words)
            t == BytesOf(words)
            at(p) == ((p - 1) \div 4) + 1
            c(p) == ((p - 1) % 4) + 1
<1>1. L \in Nat
  OBVIOUS
<1>2. t = [p \in 1..4 * L |-> Uint2chars(words[at(p)])[c(p)]]
  BY DEF BytesOf
<1>3. ASSUME NEW p \in 1..4 * L
      PROVE  at(p) \in 1..L /\ c(p) \in 1..4
  <2>. HIDE DEF L
  <2>. QED  BY <1>1
<1>4. \A q \in 1..L : words[q] \in Words
  OBVIOUS
<1>5. ASSUME NEW p \in 1..4 * L
      PROVE  t[p] \in Bytes
  <2>1. words[at(p)] \in Words
    BY <1>3, <1>4
  <2>. HIDE DEF at, c, t, L
  <2>2. Uint2chars(words[at(p)])[c(p)] \in Bytes
    BY <1>3, <2>1, Uint2charsReads
  <2>. QED  BY <1>2, <2>2
<1>. HIDE DEF t, L
<1>6. t \in Seq(Bytes) /\ Len(t) = 4 * L
  <2>1. 4 * L \in Nat
    BY <1>1
  <2>2. t \in [1..4 * L -> Bytes]
    BY <1>2, <1>5
  <2>. QED  BY <2>1, <2>2
<1>7. ASSUME NEW q \in 1..L
      PROVE  WordIn(t, (4 * (q - 1)) + 1) = words[q]
  <2>. DEFINE p == (4 * (q - 1)) + 1
              u == Uint2chars(words[q])
  <2>1. /\ p \in 1..4 * L /\ p + 1 \in 1..4 * L /\ p + 2 \in 1..4 * L /\ p + 3 \in 1..4 * L
        /\ at(p) = q /\ at(p + 1) = q /\ at(p + 2) = q /\ at(p + 3) = q
        /\ c(p) = 1 /\ c(p + 1) = 2 /\ c(p + 2) = 3 /\ c(p + 3) = 4
    BY <1>1
  <2>. HIDE DEF p, at, c
  <2>2. t[p] = u[1] /\ t[p + 1] = u[2] /\ t[p + 2] = u[3] /\ t[p + 3] = u[4]
    BY <1>2, <2>1
  <2>3. WordIn(t, p) = WordIn(u, 1)
    BY <2>2 DEF WordIn
  <2>4. WordIn(u, 1) = words[q]
    BY <1>4, Uint2charsReads
  <2>. QED  BY <2>3, <2>4 DEF p
<1>. QED  BY <1>6, <1>7 DEF t, L

(* Bytes pushed back do not disturb those before them.                     *)
LEMMA ConcatReads ==
  ASSUME NEW s \in Seq(Bytes), NEW t \in Seq(Bytes), NEW k \in Nat \ {0}
  PROVE  /\ s \o t \in Seq(Bytes) /\ Len(s \o t) = Len(s) + Len(t)
         /\ k + 3 <= Len(s) => WordIn(s \o t, k) = WordIn(s, k)
         /\ k + 3 <= Len(t) => WordIn(s \o t, Len(s) + k) = WordIn(t, k)
<1>1. /\ Len(s) \in Nat /\ Len(t) \in Nat
      /\ s \o t \in Seq(Bytes) /\ Len(s \o t) = Len(s) + Len(t)
      /\ \A p \in 1..Len(s) + Len(t) :
           (s \o t)[p] = IF p <= Len(s) THEN s[p] ELSE t[p - Len(s)]
  BY ConcatProperties
<1>. DEFINE u == s \o t
            m == Len(s)
            n == Len(t)
<1>2. m \in Nat /\ n \in Nat /\ \A p \in 1..m + n : u[p] = IF p <= m THEN s[p] ELSE t[p - m]
  BY <1>1
<1>. HIDE DEF u, m, n
<1>3. \A p \in 1..m : u[p] = s[p]
  BY <1>2
<1>4. \A p \in 1..n : u[m + p] = t[p]
  <2>1. ASSUME NEW p \in 1..n
        PROVE  m + p \in 1..m + n /\ ~(m + p <= m) /\ (m + p) - m = p
    BY <1>2
  <2>. QED  BY <1>2, <2>1
<1>5. k + 3 <= m => WordIn(u, k) = WordIn(s, k)
  <2>1. k + 3 <= m => k \in 1..m /\ k + 1 \in 1..m /\ k + 2 \in 1..m /\ k + 3 \in 1..m
    BY <1>2
  <2>. QED  BY <1>3, <2>1 DEF WordIn
<1>6. k + 3 <= n => WordIn(u, m + k) = WordIn(t, k)
  <2>1. k + 3 <= n => k \in 1..n /\ k + 1 \in 1..n /\ k + 2 \in 1..n /\ k + 3 \in 1..n
    BY <1>2
  <2>2. (m + k) + 1 = m + (k + 1) /\ (m + k) + 2 = m + (k + 2) /\ (m + k) + 3 = m + (k + 3)
    BY <1>2
  <2>. QED  BY <1>4, <2>1, <2>2 DEF WordIn
<1>. QED  BY <1>1, <1>5, <1>6 DEF u, m, n
-----------------------------------------------------------------------------
(***************************************************************************)
(* What is in the buffer.                                                  *)
(***************************************************************************)
HeadSent == WordAt(5) = id /\ WordAt(9) = Len(result)

BoxSent(k) ==
  \A q \in 1..6 : WordAt((13 + 24 * (k - 1)) + 4 * (q - 1)) = BoxWords(result[k])[q]

EncInv ==
  /\ pc \in {"scan", "outer", "inner", "done", "encode", "encoded"}
  /\ id \in Ids
  /\ toWord \in {"saturate", "wrap"}
  /\ send_buffer \in Seq(Bytes)
  /\ check \in Bytes
  /\ sent \in 0..NBoxes
  /\ pc = "encode" => /\ sent <= Len(result)
                      /\ Len(send_buffer) = 12 + 24 * sent
                      /\ HeadSent
                      /\ \A k \in 1..sent : BoxSent(k)
  /\ pc = "encoded" => /\ Len(send_buffer) = 13 + 24 * Len(result)
                       /\ HeadSent
                       /\ \A k \in 1..Len(result) : BoxSent(k)

Inv == PInv /\ EncInv

LEMMA ToWordType ==
  ASSUME NEW t \in Int, toWord \in {"saturate", "wrap"}
  PROVE  /\ ToWord(t) \in Words
         /\ t \in Words => ToWord(t) = t
<1>1. WordMod \in Nat \ {0}
  BY WordModIs
<1>2. t % WordMod \in 0..WordMod - 1
  <2>. HIDE DEF WordMod
  <2>. QED  BY <1>1
<1>. QED  BY <1>1, <1>2 DEF ToWord, Words

LEMMA TruncatedType == ASSUME NEW v \in Int PROVE Truncated(v) \in Int
BY DEF Truncated

LEMMA BoxWordsType ==
  ASSUME NEW b \in BoxType, toWord \in {"saturate", "wrap"}
  PROVE  BoxWords(b) \in Seq(Words) /\ Len(BoxWords(b)) = 6
<1>1. /\ b.rect.x \in Int /\ b.rect.y \in Int /\ b.rect.w \in Int /\ b.rect.h \in Int
      /\ b.score \in Int /\ b.classIndex \in 0..NClasses - 1
  BY DEF BoxType, RectType
<1>2. /\ Word(b.rect.x) \in Words /\ Word(b.rect.y) \in Words
      /\ Word(b.rect.w) \in Words /\ Word(b.rect.h) \in Words
      /\ ToWord(b.score) \in Words
  BY <1>1, ToWordType, TruncatedType DEF Word
<1>3. b.classIndex \in Words
  <2>1. WordMod \in Nat
    BY WordModIs
  <2>. QED  BY <1>1, <2>1 DEF Words
<1>. QED  BY <1>2, <1>3 DEF BoxWords

LEMMA BoxesTyped ==
  ASSUME PInv
  PROVE  AllBoxes \subseteq BoxType
<1>1. output \in Outputs
  BY DEF PInv, Shape
<1>2. ASSUME NEW b \in AllBoxes
      PROVE  b \in BoxType
  <2>1. /\ b.index \in 1..NBoxes /\ b = BoxOf(b.index) /\ b.score \in Nat
        /\ b.rect = Rect(b.index) /\ b.classIndex \in 0..NClasses - 1
    BY <1>1, BoxFacts
  <2>2. b.rect \in RectType
    BY <1>1, <2>1, RectOk DEF RectType
  <2>3. b = [rect |-> b.rect, score |-> b.score, classIndex |-> b.classIndex,
             index |-> b.index]
    BY <2>1 DEF BoxOf
  <2>. QED  BY <2>1, <2>2, <2>3 DEF BoxType
<1>. QED  BY <1>2

LEMMA InitInv == Init => Inv
<1>. SUFFICES ASSUME Init PROVE Inv
  OBVIOUS
<1>1. PInv
  BY InitPInv DEF Init
<1>2. 0 \in Bytes /\ <<>> \in Seq(Bytes)
  BY DEF Bytes
<1>. QED  BY <1>1, <1>2 DEF Init, ProcessInit, Inv, EncInv

LEMMA ProcessKeepsInv == ASSUME Inv, Process PROVE Inv'
<1>1. PInv'
  BY ProcessStep DEF Inv, Process
<1>2. pc \in {"scan", "outer", "inner"} /\ pc' \in {"scan", "outer", "inner", "done"}
  BY DEF Process, ProcessNext, ScanClass, ScanBox, Sort, Keep, Compare, EraseFirst, Finish
<1>3. UNCHANGED <<id, send_buffer, check, sent, toWord>>
  BY DEF Process, svars
<1>4. EncInv'
  BY <1>2, <1>3 DEF Inv, EncInv
<1>. QED  BY <1>1, <1>4 DEF Inv

(* Once pc has left the loops the buffer is all that changes.              *)
LEMMA EncodingKeepsPInv ==
  ASSUME PInv, pc \in {"done", "encode"}, pc' \in {"encode", "encoded"},
         UNCHANGED <<output, i, best, boxes, result, index>>
  PROVE  PInv'
BY OverStep DEF best

LEMMA EncodeHeadStep == ASSUME Inv, EncodeHead PROVE Inv'
<1>1. /\ pc = "done" /\ pc' = "encode" /\ sent' = 0 /\ UNCHANGED <<id, toWord, result>>
      /\ send_buffer' = FrameHead \o BytesOf(<<id, Len(result)>>)
  BY DEF EncodeHead
<1>2. PInv'
  BY <1>1, EncodingKeepsPInv DEF EncodeHead, Inv
<1>3. id \in Words /\ Len(result) \in Words /\ Len(result) \in Nat
  <2>1. Len(result) <= NBoxes
    BY <1>1 DEF Inv, PInv, Over
  <2>2. Len(result) \in Nat
    BY DEF Inv, PInv, Shape
  <2>3. WordMod \in Nat
    BY WordModIs
  <2>. QED  BY <2>1, <2>2, <2>3 DEF Words, Inv, EncInv
<1>. DEFINE t == BytesOf(<<id, Len(result)>>)
<1>4. /\ t \in Seq(Bytes) /\ Len(t) = 8
      /\ WordIn(t, 1) = id /\ WordIn(t, 5) = Len(result)
  <2>. DEFINE ws == <<id, Len(result)>>
  <2>1. ws \in Seq(Words) /\ Len(ws) = 2 /\ ws[1] = id /\ ws[2] = Len(result)
    BY <1>3
  <2>. HIDE DEF ws
  <2>2. /\ BytesOf(ws) \in Seq(Bytes) /\ Len(BytesOf(ws)) = 4 * Len(ws)
        /\ \A q \in 1..Len(ws) : WordIn(BytesOf(ws), (4 * (q - 1)) + 1) = ws[q]
    BY <2>1, BytesOfReads
  <2>3. WordIn(BytesOf(ws), (4 * (1 - 1)) + 1) = ws[1]
        /\ WordIn(BytesOf(ws), (4 * (2 - 1)) + 1) = ws[2]
    BY <2>1, <2>2
  <2>4. (4 * (1 - 1)) + 1 = 1 /\ (4 * (2 - 1)) + 1 = 5 /\ 4 * 2 = 8
    OBVIOUS
  <2>. QED  BY <2>1, <2>2, <2>3, <2>4 DEF ws
<1>5. FrameHead \in Seq(Bytes) /\ Len(FrameHead) = 4
  <2>1. ByteMod \div 2 - 1 \in Bytes
    BY DEF Bytes
  <2>. QED  BY <2>1 DEF FrameHead
<1>. HIDE DEF t
<1>6. /\ send_buffer' \in Seq(Bytes) /\ Len(send_buffer') = 12
      /\ WordIn(send_buffer', 5) = id /\ WordIn(send_buffer', 9) = Len(result)
  <2>1. /\ FrameHead \o t \in Seq(Bytes) /\ Len(FrameHead \o t) = Len(FrameHead) + Len(t)
        /\ WordIn(FrameHead \o t, Len(FrameHead) + 1) = WordIn(t, 1)
        /\ WordIn(FrameHead \o t, Len(FrameHead) + 5) = WordIn(t, 5)
    <3>1. 1 + 3 <= Len(t) /\ 5 + 3 <= Len(t) /\ 1 \in Nat \ {0} /\ 5 \in Nat \ {0}
      BY <1>4
    <3>. QED  BY <1>4, <1>5, <3>1, ConcatReads
  <2>2. Len(FrameHead) + 1 = 5 /\ Len(FrameHead) + 5 = 9 /\ Len(FrameHead) + Len(t) = 12
    BY <1>4, <1>5
  <2>3. send_buffer' = FrameHead \o t
    BY <1>1 DEF t
  <2>. QED  BY <1>4, <2>1, <2>2, <2>3
<1>7. HeadSent'
  BY <1>1, <1>6 DEF HeadSent, WordAt, WordIn
<1>8. check' \in Bytes
  <2>1. PICK garbage \in 0..ByteMod - 1 :
          check' = (garbage + ByteSum(id) + ByteSum(Len(result))) % ByteMod
    BY DEF EncodeHead
  <2>2. ByteSum(id) \in Nat /\ ByteSum(Len(result)) \in Nat
    BY <1>3, ByteSumType DEF Bytes
  <2>. DEFINE x == ByteSum(id)
              y == ByteSum(Len(result))
  <2>3. x \in Nat /\ y \in Nat
    BY <2>2
  <2>. HIDE DEF x, y
  <2>4. garbage + x + y \in Nat
    BY <2>3
  <2>. QED  BY <2>1, <2>4, DivMod DEF Bytes, x, y
<1>9. EncInv'
  <2>1. /\ sent' \in 0..NBoxes /\ Len(send_buffer') = 12 + 24 * sent'
        /\ \A k \in 1..sent' : FALSE
        /\ sent' <= Len(result')
    <3>1. sent' = 0 /\ Len(send_buffer') = 12 /\ result' = result /\ Len(result) \in Nat
      BY <1>1, <1>3, <1>6
    <3>2. sent' \in 0..NBoxes /\ \A k \in 1..sent' : FALSE
      BY <3>1
    <3>. QED  BY <3>1, <3>2
  <2>2. id' \in Ids /\ toWord' \in {"saturate", "wrap"} /\ pc' = "encode"
    BY <1>1 DEF Inv, EncInv
  <2>. QED  BY <1>6, <1>7, <1>8, <2>1, <2>2 DEF EncInv
<1>. QED  BY <1>2, <1>9 DEF Inv

LEMMA EncodeBoxStep == ASSUME Inv, EncodeBox PROVE Inv'
<1>. DEFINE ws == BoxWords(result[sent + 1])
            t  == BytesOf(ws)
            n  == Len(send_buffer)
<1>1. /\ pc = "encode" /\ pc' = "encode" /\ sent < Len(result) /\ sent' = sent + 1
      /\ UNCHANGED pvars /\ id' = id /\ toWord' = toWord /\ result' = result
      /\ send_buffer' = send_buffer \o t
  BY DEF EncodeBox, pvars
<1>2. PInv /\ PInv'
  BY <1>1, StutterStep DEF Inv
<1>3. /\ id \in Ids /\ toWord \in {"saturate", "wrap"} /\ send_buffer \in Seq(Bytes)
      /\ sent \in 0..NBoxes /\ n = 12 + 24 * sent /\ HeadSent
      /\ \A k \in 1..sent : BoxSent(k)
      /\ result \in Seq(AllBoxes) /\ Len(result) <= NBoxes
  BY <1>1 DEF Inv, EncInv, PInv, Shape, Over
<1>4. ws \in Seq(Words) /\ Len(ws) = 6
  <2>1. sent + 1 \in DOMAIN result
    <3>1. DOMAIN result = 1..Len(result) /\ Len(result) \in Nat
      BY <1>3
    <3>. QED  BY <1>1, <1>3, <3>1
  <2>2. result[sent + 1] \in BoxType
    BY <1>2, <1>3, <2>1, BoxesTyped
  <2>. QED  BY <1>3, <2>2, BoxWordsType
<1>. HIDE DEF ws
<1>5. /\ t \in Seq(Bytes) /\ Len(t) = 24
      /\ \A q \in 1..6 : WordIn(t, (4 * (q - 1)) + 1) = ws[q]
  <2>1. /\ BytesOf(ws) \in Seq(Bytes) /\ Len(BytesOf(ws)) = 4 * Len(ws)
        /\ \A q \in 1..Len(ws) : WordIn(BytesOf(ws), (4 * (q - 1)) + 1) = ws[q]
    BY <1>4, BytesOfReads
  <2>2. 4 * 6 = 24
    OBVIOUS
  <2>. QED  BY <1>4, <2>1, <2>2
<1>6. check' \in Bytes
  <2>1. \A q \in 1..6 : ws[q] \in Words
    BY <1>4
  <2>2. \A q \in 1..6 : ByteSum(ws[q]) \in Nat
    <3>1. \A w \in Words : ByteSum(w) \in Bytes
      BY ByteSumType
    <3>2. Bytes \subseteq Nat
      BY DEF Bytes
    <3>. QED  BY <2>1, <3>1, <3>2
  <2>. DEFINE b(q) == ByteSum(ws[q])
  <2>3. check' = (check + b(1) + b(2) + b(3) + b(4) + b(5) + b(6)) % ByteMod
    BY DEF EncodeBox, ws
  <2>4. /\ b(1) \in Nat /\ b(2) \in Nat /\ b(3) \in Nat /\ b(4) \in Nat
        /\ b(5) \in Nat /\ b(6) \in Nat /\ check \in Nat
    BY <2>2 DEF Inv, EncInv, Bytes
  <2>. HIDE DEF b
  <2>. QED  BY <2>3, <2>4, SumOfSeven
<1>. HIDE DEF t
<1>7. n \in Nat /\ sent \in Nat
  BY <1>3
<1>8. /\ send_buffer' \in Seq(Bytes) /\ Len(send_buffer') = n + 24
      /\ \A k \in Nat \ {0} : k + 3 <= n => WordIn(send_buffer', k) = WordIn(send_buffer, k)
      /\ \A k \in Nat \ {0} : k + 3 <= 24 => WordIn(send_buffer', n + k) = WordIn(t, k)
  <2>1. send_buffer' \in Seq(Bytes) /\ Len(send_buffer') = n + 24
    <3>1. 1 \in Nat \ {0}
      OBVIOUS
    <3>. QED  BY <1>1, <1>3, <1>5, <3>1, ConcatReads
  <2>2. ASSUME NEW k \in Nat \ {0}
        PROVE  /\ k + 3 <= n => WordIn(send_buffer', k) = WordIn(send_buffer, k)
               /\ k + 3 <= 24 => WordIn(send_buffer', n + k) = WordIn(t, k)
    <3>1. /\ k + 3 <= Len(send_buffer) => WordIn(send_buffer \o t, k) = WordIn(send_buffer, k)
          /\ k + 3 <= Len(t) => WordIn(send_buffer \o t, Len(send_buffer) + k) = WordIn(t, k)
      BY <1>3, <1>5, ConcatReads
    <3>. QED  BY <1>1, <1>5, <3>1
  <2>. QED  BY <2>1, <2>2
<1>9. \A k : WordAt(k) = WordIn(send_buffer, k) /\ WordAt(k)' = WordIn(send_buffer', k)
  BY DEF WordAt, WordIn
<1>. HIDE DEF n
<1>10. HeadSent'
  <2>1. 5 + 3 <= n /\ 9 + 3 <= n /\ 5 \in Nat \ {0} /\ 9 \in Nat \ {0}
    BY <1>3, <1>7
  <2>2. WordAt(5)' = WordAt(5) /\ WordAt(9)' = WordAt(9)
    BY <1>8, <1>9, <2>1
  <2>. QED  BY <1>1, <1>3, <2>2 DEF HeadSent
<1>11. ASSUME NEW k \in 1..sent + 1
       PROVE  BoxSent(k)'
  <2>1. \A b : BoxWords(b)' = BoxWords(b)
    BY <1>1 DEF BoxWords, Word, ToWord
  <2>2. ASSUME NEW q \in 1..6
        PROVE  WordAt((13 + 24 * (k - 1)) + 4 * (q - 1))' = BoxWords(result[k])[q]
    <3>. DEFINE at == (13 + 24 * (k - 1)) + 4 * (q - 1)
    <3>1. CASE k \in 1..sent
      <4>1. at \in Nat \ {0} /\ at + 3 <= n
        BY <1>3, <1>7, <3>1
      <4>2. WordAt(at) = BoxWords(result[k])[q]
        BY <1>3, <3>1 DEF BoxSent
      <4>. HIDE DEF at
      <4>3. WordIn(send_buffer', at) = BoxWords(result[k])[q]
        BY <1>8, <1>9, <4>1, <4>2
      <4>. QED  BY <1>9, <4>3 DEF at
    <3>2. CASE k = sent + 1
      <4>. DEFINE p == (4 * (q - 1)) + 1
      <4>1. p \in Nat \ {0} /\ p + 3 <= 24 /\ at = n + p
        BY <1>3, <1>7, <3>2
      <4>2. WordIn(t, p) = ws[q]
        BY <1>5
      <4>. HIDE DEF at, p
      <4>3. WordIn(send_buffer', at) = ws[q]
        BY <1>8, <4>1, <4>2
      <4>. QED  BY <1>9, <3>2, <4>3 DEF at, ws
    <3>. QED  BY <1>7, <3>1, <3>2
  <2>. QED  BY <1>1, <2>1, <2>2 DEF BoxSent
<1>12. EncInv'
  <2>1. /\ sent' <= Len(result') /\ sent' \in 0..NBoxes
        /\ Len(send_buffer') = 12 + 24 * sent'
    <3>1. Len(result) \in Nat
      BY <1>3
    <3>. QED  BY <1>1, <1>3, <1>7, <1>8, <3>1
  <2>2. \A k \in 1..sent' : BoxSent(k)'
    BY <1>1, <1>11
  <2>3. id' \in Ids /\ toWord' \in {"saturate", "wrap"}
    BY <1>1, <1>3
  <2>. QED  BY <1>1, <1>6, <1>8, <1>10, <2>1, <2>2, <2>3 DEF EncInv
<1>. QED  BY <1>2, <1>12 DEF Inv

LEMMA EncodeEndStep == ASSUME Inv, EncodeEnd PROVE Inv'
<1>. DEFINE n == Len(send_buffer)
<1>1. /\ pc = "encode" /\ pc' = "encoded" /\ sent = Len(result) /\ sent' = sent
      /\ id' = id /\ toWord' = toWord /\ result' = result /\ check' = check
      /\ send_buffer' = Append(send_buffer, check)
  BY DEF EncodeEnd
<1>2. PInv'
  BY <1>1, EncodingKeepsPInv DEF EncodeEnd, Inv
<1>3. /\ id \in Ids /\ toWord \in {"saturate", "wrap"} /\ send_buffer \in Seq(Bytes)
      /\ sent \in 0..NBoxes /\ n = 12 + 24 * sent /\ HeadSent /\ check \in Bytes
      /\ \A k \in 1..sent : BoxSent(k)
  BY <1>1 DEF Inv, EncInv
<1>4. n \in Nat /\ sent \in Nat
  BY <1>3
<1>5. /\ send_buffer' \in Seq(Bytes) /\ Len(send_buffer') = n + 1
      /\ \A k \in 1..n : send_buffer'[k] = send_buffer[k]
  <2>1. /\ Append(send_buffer, check) \in Seq(Bytes)
        /\ Len(Append(send_buffer, check)) = Len(send_buffer) + 1
        /\ \A k \in 1..Len(send_buffer) : Append(send_buffer, check)[k] = send_buffer[k]
    BY <1>3, AppendProperties
  <2>. QED  BY <1>1, <2>1
<1>. HIDE DEF n
<1>6. ASSUME NEW k \in Nat \ {0}, k + 3 <= n
      PROVE  WordAt(k)' = WordAt(k)
  <2>1. k \in 1..n /\ k + 1 \in 1..n /\ k + 2 \in 1..n /\ k + 3 \in 1..n
    BY <1>4, <1>6
  <2>. QED  BY <1>5, <2>1 DEF WordAt
<1>7. HeadSent'
  <2>1. 5 + 3 <= n /\ 9 + 3 <= n /\ 5 \in Nat \ {0} /\ 9 \in Nat \ {0}
    BY <1>3, <1>4
  <2>2. WordAt(5)' = WordAt(5) /\ WordAt(9)' = WordAt(9)
    BY <1>6, <2>1
  <2>. QED  BY <1>1, <1>3, <2>2 DEF HeadSent
<1>8. ASSUME NEW k \in 1..sent
      PROVE  BoxSent(k)'
  <2>1. \A b : BoxWords(b)' = BoxWords(b)
    BY <1>1 DEF BoxWords, Word, ToWord
  <2>2. ASSUME NEW q \in 1..6
        PROVE  WordAt((13 + 24 * (k - 1)) + 4 * (q - 1))' = BoxWords(result[k])[q]
    <3>. DEFINE at == (13 + 24 * (k - 1)) + 4 * (q - 1)
    <3>1. at \in Nat \ {0} /\ at + 3 <= n
      BY <1>3, <1>4
    <3>2. WordAt(at) = BoxWords(result[k])[q]
      BY <1>3 DEF BoxSent
    <3>. HIDE DEF at
    <3>3. WordAt(at)' = BoxWords(result[k])[q]
      BY <1>6, <3>1, <3>2
    <3>. QED  BY <3>3 DEF at
  <2>. QED  BY <1>1, <2>1, <2>2 DEF BoxSent
<1>9. Len(send_buffer') = 13 + 24 * Len(result')
  BY <1>1, <1>3, <1>4, <1>5
<1>10. EncInv'
  BY <1>1, <1>3, <1>5, <1>7, <1>8, <1>9 DEF EncInv
<1>. QED  BY <1>2, <1>10 DEF Inv

LEMMA NextInv == Inv /\ [Next]_vars => Inv'
<1>. SUFFICES ASSUME Inv, [Next]_vars PROVE Inv'
  OBVIOUS
<1>1. CASE UNCHANGED vars
  <2>1. UNCHANGED <<pc, result, id, send_buffer, check, sent, toWord>> /\ UNCHANGED pvars
    BY <1>1 DEF vars, pvars, svars
  <2>2. PInv'
    BY <2>1, StutterStep DEF Inv
  <2>3. /\ \A k : WordAt(k)' = WordAt(k)
        /\ \A b : BoxWords(b)' = BoxWords(b)
    BY <2>1 DEF WordAt, BoxWords, Word, ToWord
  <2>4. (HeadSent' <=> HeadSent) /\ \A k : BoxSent(k)' <=> BoxSent(k)
    BY <2>1, <2>3 DEF HeadSent, BoxSent
  <2>5. EncInv'
    BY <2>1, <2>4 DEF Inv, EncInv
  <2>. QED  BY <2>2, <2>5 DEF Inv
<1>. QED
  BY <1>1, ProcessKeepsInv, EncodeHeadStep, EncodeBoxStep, EncodeEndStep
     DEF Next, result_to_uchars
-----------------------------------------------------------------------------
(***************************************************************************)
(* Theorems                                                                *)
(***************************************************************************)
LEMMA InvType == Inv => TypeOK
<1>. SUFFICES ASSUME Inv PROVE TypeOK
  OBVIOUS
<1>1. boxes \in Seq(BoxType) /\ result \in Seq(BoxType)
  <2>1. AllBoxes \subseteq BoxType
    BY BoxesTyped DEF Inv
  <2>2. boxes \in Seq(AllBoxes) /\ result \in Seq(AllBoxes)
    BY DEF Inv, PInv, Shape
  <2>. QED  BY <2>1, <2>2
<1>2. Len(result) <= NBoxes
  <2>1. Len(boxes) \in Nat /\ Len(result) \in Nat /\ Len(<<>>) = 0
    BY <1>1
  <2>2. CASE pc = "scan"
    <3>1. result = <<>>
      BY <2>2 DEF Inv, PInv, Scanned
    <3>. QED  BY <2>1, <3>1
  <2>3. CASE pc = "outer"
    <3>1. Len(result) + Len(boxes) <= NBoxes
      BY <2>3 DEF Inv, PInv, OuterPart
    <3>. QED  BY <2>1, <3>1
  <2>4. CASE pc = "inner"
    <3>1. Len(result) + Len(boxes) <= NBoxes + 1 /\ index \in 1..Len(boxes)
      BY <2>4 DEF Inv, PInv, InnerPart
    <3>. QED  BY <2>1, <3>1
  <2>5. CASE pc \notin {"scan", "outer", "inner"}
    BY <2>5 DEF Inv, PInv, Over
  <2>. QED  BY <2>2, <2>3, <2>4, <2>5
<1>. QED  BY <1>1, <1>2 DEF Inv, PInv, Shape, EncInv, TypeOK, Bytes

LEMMA InvReadsBack == Inv => ClientReadsBack
<1>. SUFFICES ASSUME Inv, pc = "encoded" PROVE ClientReadsBack
  BY DEF ClientReadsBack
<1>1. /\ Len(send_buffer) = 13 + 24 * Len(result) /\ HeadSent
      /\ \A k \in 1..Len(result) : BoxSent(k)
      /\ result \in Seq(AllBoxes) /\ toWord \in {"saturate", "wrap"}
  BY DEF Inv, EncInv, PInv, Shape
<1>2. ASSUME NEW k \in DOMAIN result
      PROVE  LET at == 13 + 24 * (k - 1)
                 r  == result[k].rect
             IN  /\ Reads(at, Truncated(r.x))
                 /\ Reads(at + 4, Truncated(r.y))
                 /\ Reads(at + 8, Truncated(r.w))
                 /\ Reads(at + 12, Truncated(r.h))
                 /\ Reads(at + 16, result[k].score)
                 /\ WordAt(at + 20) = result[k].classIndex
  <2>. DEFINE at == 13 + 24 * (k - 1)
              b  == result[k]
  <2>1. k \in 1..Len(result) /\ k \in Int
    BY <1>1
  <2>2. b \in BoxType
    <3>1. b \in AllBoxes
      BY <1>1
    <3>. QED  BY <3>1, BoxesTyped DEF Inv
  <2>3. at \in Int
    BY <2>1
  <2>4. \A q \in 1..6 : WordAt(at + 4 * (q - 1)) = BoxWords(b)[q]
    BY <1>1, <2>1 DEF BoxSent
  <2>. HIDE DEF at, b
  <2>5. /\ WordAt(at) = BoxWords(b)[1] /\ WordAt(at + 4) = BoxWords(b)[2]
        /\ WordAt(at + 8) = BoxWords(b)[3] /\ WordAt(at + 12) = BoxWords(b)[4]
        /\ WordAt(at + 16) = BoxWords(b)[5] /\ WordAt(at + 20) = BoxWords(b)[6]
    <3>1. /\ at + 4 * (1 - 1) = at /\ at + 4 * (2 - 1) = at + 4
          /\ at + 4 * (3 - 1) = at + 8 /\ at + 4 * (4 - 1) = at + 12
          /\ at + 4 * (5 - 1) = at + 16 /\ at + 4 * (6 - 1) = at + 20
      BY <2>3
    <3>2. 1 \in 1..6 /\ 2 \in 1..6 /\ 3 \in 1..6 /\ 4 \in 1..6 /\ 5 \in 1..6 /\ 6 \in 1..6
      OBVIOUS
    <3>3. /\ WordAt(at + 4 * (1 - 1)) = BoxWords(b)[1]
          /\ WordAt(at + 4 * (2 - 1)) = BoxWords(b)[2]
          /\ WordAt(at + 4 * (3 - 1)) = BoxWords(b)[3]
          /\ WordAt(at + 4 * (4 - 1)) = BoxWords(b)[4]
          /\ WordAt(at + 4 * (5 - 1)) = BoxWords(b)[5]
          /\ WordAt(at + 4 * (6 - 1)) = BoxWords(b)[6]
      BY <2>4, <3>2
    <3>. QED  BY <3>1, <3>3
  <2>6. /\ BoxWords(b)[1] = Word(b.rect.x) /\ BoxWords(b)[2] = Word(b.rect.y)
        /\ BoxWords(b)[3] = Word(b.rect.w) /\ BoxWords(b)[4] = Word(b.rect.h)
        /\ BoxWords(b)[5] = ToWord(b.score) /\ BoxWords(b)[6] = b.classIndex
    BY DEF BoxWords
  <2>7. /\ b.rect.x \in Int /\ b.rect.y \in Int /\ b.rect.w \in Int /\ b.rect.h \in Int
        /\ b.score \in Int
    BY <2>2 DEF BoxType, RectType
  <2>8. /\ Reads(at, Truncated(b.rect.x)) /\ Reads(at + 4, Truncated(b.rect.y))
        /\ Reads(at + 8, Truncated(b.rect.w)) /\ Reads(at + 12, Truncated(b.rect.h))
        /\ Reads(at + 16, b.score)
    <3>1. ASSUME NEW p, NEW t \in Int, WordAt(p) = ToWord(t)
          PROVE  Reads(p, t)
      BY <1>1, <3>1, ToWordType DEF Reads, Words
    <3>. QED  BY <2>5, <2>6, <2>7, <3>1, TruncatedType DEF Word
  <2>. QED  BY <2>5, <2>6, <2>8 DEF at, b
<1>. QED  BY <1>1, <1>2 DEF ClientReadsBack, HeadSent

(* The scan, NMS and the encoding keep to their types: no index leaves its *)
(* vector, and no box is kept twice, however many the model finds.         *)
THEOREM TypeCorrect == Spec => []TypeOK
BY InitInv, NextInv, InvType, PTL DEF Spec

(* The scan finds exactly the boxes that score enough, each under the      *)
(* first of its best classes, and NMS moves them about unharmed.           *)
THEOREM ScanExact == Spec => []ScanIsExact
<1>1. Inv => ScanIsExact
  BY PInvScanIsExact DEF Inv
<1>. QED  BY <1>1, InitInv, NextInv, PTL DEF Spec

(* The boxes of a result come best first, however many there are.          *)
THEOREM ResultsBestFirst == Spec => []BestFirst
<1>1. Inv => BestFirst
  BY PInvBestFirst DEF Inv
<1>. QED  BY <1>1, InitInv, NextInv, PTL DEF Spec

(* No two boxes of a result overlap beyond the threshold, however many     *)
(* boxes the model finds and whatever IOU is taken to be.                  *)
THEOREM NothingOverlaps == Spec => []KeptApart
<1>1. Inv => KeptApart
  BY DEF Inv, PInv
<1>. QED  BY <1>1, InitInv, NextInv, PTL DEF Spec

(* Process drops a box that scored enough only for a kept one that is at   *)
(* least as good and overlaps it.                                          *)
THEOREM NothingLost == Spec => []DroppedForBetter
<1>1. Inv => DroppedForBetter
  BY PInvDroppedForBetter DEF Inv
<1>. QED  BY <1>1, InitInv, NextInv, PTL DEF Spec

(* What result_to_uchars encodes a client reads back, for bytes of any     *)
(* size and any number of boxes.                                           *)
THEOREM ClientReads == Spec => []ClientReadsBack
BY InitInv, NextInv, InvReadsBack, PTL DEF Spec

(* Process cannot go on for ever: StepsLeft is a number that each of its   *)
(* steps lowers, the erase after which the inner loop of NMS compares at   *)
(* the same index again included.                                          *)
THEOREM ProcessIsBounded ==
  Spec => [](StepsLeft \in Nat) /\ [][ProcessNext => StepsLeft' < StepsLeft]_vars
<1>1. Inv => StepsLeft \in Nat
  BY StepsLeftType DEF Inv
<1>2. Inv /\ ProcessNext => StepsLeft' < StepsLeft
  BY StepsGetFewer DEF Inv
<1>. QED  BY <1>1, <1>2, InitInv, NextInv, PTL DEF Spec
=============================================================================
