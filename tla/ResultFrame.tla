----------------------------- MODULE ResultFrame -----------------------------
(***************************************************************************)
(* src/detect_thread.cpp, result_to_uchars: the boxes that PostProcess     *)
(* returned as the bytes of one datagram to the client.                    *)
(***************************************************************************)
EXTENDS PostProcess

CONSTANTS
  Ids,      \* ids of frames considered
  ByteMod   \* 256: values of an unsigned char

WordMod   == ByteMod * ByteMod * ByteMod * ByteMod   \* a uint32_t has four bytes
FrameHead == [k \in 1..4 |-> ByteMod \div 2 - 1]   \* 0x7f 0x7f 0x7f 0x7f

ASSUME FrameAssumption ==
  /\ ByteMod \in Nat \ {0, 1}
  /\ Ids \subseteq 0..WordMod - 1
  /\ NBoxes < WordMod /\ NClasses < WordMod

VARIABLES
  id,           \* the id that came with the frame
  send_buffer,
  check,
  sent,         \* boxes that are in send_buffer
  toWord        \* what the build makes of a float that is no uint32_t

svars == <<send_buffer, check, sent>>
vars  == <<pvars, id, svars, toWord>>

Init ==
  /\ ProcessInit
  /\ id \in Ids
  /\ send_buffer = <<>>
  /\ check = 0
  /\ sent = 0
  /\ toWord \in {"saturate", "wrap"}
-----------------------------------------------------------------------------
Shift(num) == num \div ByteMod   \* num >> 8

(* uint2chars: least significant byte first ...                            *)
Uint2chars(num) ==
  <<num % ByteMod, Shift(num) % ByteMod, Shift(Shift(num)) % ByteMod,
    Shift(Shift(Shift(num))) % ByteMod>>

(* ... which it also adds up.                                              *)
ByteSum(num) ==
  LET b == Uint2chars(num) IN (b[1] + b[2] + b[3] + b[4]) % ByteMod

(* A number without its fraction, as a uint32_t.  When it is none, the     *)
(* conversion is undefined: a build either saturates or keeps the low bits.*)
ToWord(t) ==
  CASE t \in 0..WordMod - 1 -> t
    [] t \notin 0..WordMod - 1 /\ toWord = "wrap" -> t % WordMod
    [] t < 0 /\ toWord = "saturate" -> 0
    [] OTHER -> WordMod - 1

(* The fraction of a length in half pixels is cut off.                     *)
Truncated(v) == IF v >= 0 THEN v \div 2 ELSE -((-v) \div 2)

Word(v) == ToWord(Truncated(v))

(* x and w before y and h                                                  *)
BoxWords_order(b) ==
  <<Word(b.rect.x), Word(b.rect.w), Word(b.rect.y), Word(b.rect.h),
    ToWord(b.score), b.classIndex>>

BoxWords(b) ==
  <<Word(b.rect.x), Word(b.rect.y), Word(b.rect.w), Word(b.rect.h),
    ToWord(b.score), b.classIndex>>

(* What successive calls of uint2chars push back.                          *)
BytesOf(words) ==
  [p \in 1..(4 * Len(words)) |->
     Uint2chars(words[((p - 1) \div 4) + 1])[((p - 1) % 4) + 1]]

(* result_to_uchars, before its loop: the head, the id and the number of   *)
(* boxes.  check is never initialised: whatever it starts with is added to.*)
EncodeHead ==
  /\ pc = "done"
  /\ send_buffer' = FrameHead \o BytesOf(<<id, Len(result)>>)
  /\ \E garbage \in 0..ByteMod - 1 :
       check' = (garbage + ByteSum(id) + ByteSum(Len(result))) % ByteMod
  /\ sent' = 0
  /\ pc' = "encode"
  /\ UNCHANGED <<output, i, best, boxes, result, index, id, toWord>>

(* One round of the loop.                                                  *)
EncodeBox ==
  /\ pc = "encode"
  /\ sent < Len(result)
  /\ LET words == BoxWords(result[sent + 1])
     IN  /\ send_buffer' = send_buffer \o BytesOf(words)
         /\ check' = (check + ByteSum(words[1]) + ByteSum(words[2]) + ByteSum(words[3])
                        + ByteSum(words[4]) + ByteSum(words[5]) + ByteSum(words[6])) % ByteMod
  /\ sent' = sent + 1
  /\ UNCHANGED <<pvars, id, toWord>>

(* send_buffer.push_back(check)                                            *)
EncodeEnd ==
  /\ pc = "encode"
  /\ sent = Len(result)
  /\ send_buffer' = Append(send_buffer, check)
  /\ pc' = "encoded"
  /\ UNCHANGED <<output, i, best, boxes, result, index, id, check, sent, toWord>>

result_to_uchars == EncodeHead \/ EncodeBox \/ EncodeEnd

Process == ProcessNext /\ UNCHANGED <<id, svars, toWord>>

Next == Process \/ result_to_uchars

Spec == Init /\ [][Next]_vars

(* The detect thread does not stop inside Process.                         *)
FairSpec == Spec /\ WF_vars(Process)
-----------------------------------------------------------------------------
RectType == [x : Int, y : Int, w : Int, h : Int]
BoxType  == [rect : RectType, score : Nat, classIndex : 0..NClasses - 1, index : 1..NBoxes]

TypeOK ==
  /\ output \in Outputs
  /\ pc \in {"scan", "outer", "inner", "done", "encode", "encoded"}
  /\ i \in 0..NBoxes
  /\ j \in 0..NClasses
  /\ maxValue \in Nat
  /\ maxIndex \in 0..NClasses - 1
  /\ boxes \in Seq(BoxType)
  /\ result \in Seq(BoxType) /\ Len(result) <= NBoxes
  /\ index \in 0..NBoxes
  /\ id \in Ids
  /\ send_buffer \in Seq(0..ByteMod - 1)
  /\ check \in 0..ByteMod - 1
  /\ sent \in 0..NBoxes
  /\ toWord \in {"saturate", "wrap"}
-----------------------------------------------------------------------------
(***************************************************************************)
(* Properties                                                              *)
(***************************************************************************)

(* What a client reads, four bytes at a time, from position k on.          *)
WordAt(k) ==
  send_buffer[k] + ByteMod * (send_buffer[k + 1] + ByteMod * (send_buffer[k + 2]
    + ByteMod * send_buffer[k + 3]))

(* What a client reads at position k for a number t without fraction; for  *)
(* a number that does not fit nothing is promised.                         *)
Reads(k, t) == t \in 0..WordMod - 1 => WordAt(k) = t

(* A client that knows the layout reads back the id, the number of boxes   *)
(* and every box whose corners are not negative.                           *)
ClientReadsBack ==
  pc = "encoded" =>
    /\ Len(send_buffer) = 13 + 24 * Len(result)
    /\ WordAt(5) = id
    /\ WordAt(9) = Len(result)
    /\ \A k \in DOMAIN result :
         LET at == 13 + 24 * (k - 1)
             r  == result[k].rect
         IN  /\ Reads(at, Truncated(r.x))
             /\ Reads(at + 4, Truncated(r.y))
             /\ Reads(at + 8, Truncated(r.w))
             /\ Reads(at + 12, Truncated(r.h))
             /\ Reads(at + 16, result[k].score)
             /\ WordAt(at + 20) = result[k].classIndex

(* "checknum": the last byte is the sum of the bytes after the head.       *)
ChecknumIsSum ==
  pc = "encoded" =>
    LET n == Len(send_buffer)
    IN  send_buffer[n] = SumFunction(SubSeq(send_buffer, 5, n - 1)) % ByteMod
=============================================================================
