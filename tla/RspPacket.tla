----------------------------- MODULE RspPacket ------------------------------
(***************************************************************************)
(* The packets between GDB and its server, character by character          *)
(* (RspConnection::getPkt, RspConnection::putPkt, Utils.cpp).              *)
(*                                                                         *)
(* A pure algorithm: characters are bytes, a stream is a sequence of them, *)
(* and getPkt is a receiver that is fed one character after the other.     *)
(***************************************************************************)
EXTENDS Naturals, Sequences

CONSTANT BufSize    \* pkt->getBufSize ()

StartChar == 36     \* $
EndChar   == 35     \* #
EscChar   == 125    \* }
ToEscape  == {StartChar, EndChar, EscChar, 42}

\* ch ^ 0x20
Flip(ch) == IF (ch \div 32) % 2 = 1 THEN ch - 32 ELSE ch + 32

hex2Char(d) == IF d < 10 THEN 48 + d ELSE 87 + d

char2Hex(ch) ==
  CASE ch \in 97..102 -> ch - 87
    [] ch \in 48..57  -> ch - 48
    [] ch \in 65..70  -> ch - 55
    [] OTHER          -> 255

Checksum(chars) ==
  LET sum[n \in 0..Len(chars)] == IF n = 0 THEN 0 ELSE (sum[n - 1] + chars[n]) % 256
  IN sum[Len(chars)]

PutChar(body, ch) ==
  IF ch \in ToEscape THEN Append(Append(body, EscChar), Flip(ch)) ELSE Append(body, ch)

Escaped(data) ==
  LET body[n \in 0..Len(data)] == IF n = 0 THEN <<>> ELSE PutChar(body[n - 1], data[n])
  IN body[Len(data)]

\* What putPkt sends, again and again until the answer is '+'.
putPkt(data) ==
  LET body == Escaped(data)
      sum == Checksum(body)
  IN <<StartChar>> \o body \o <<EndChar, hex2Char(sum \div 16), hex2Char(sum % 16)>>

-----------------------------------------------------------------------------
(* getPkt: where it reads, the packet so far, the answers it has given.    *)

Receiver == [at |-> "hunt", data |-> <<>>, xmitcsum |-> 0, answers |-> <<>>]

Begin(r) == [r EXCEPT !.at = "body", !.data = <<>>]

\* A packet that does not fit is given up without an answer.
AddChar(r, ch) ==
  [r EXCEPT !.data = Append(@, ch),
            !.at = IF Len(r.data) + 1 < BufSize - 1 THEN "body" ELSE "hunt"]

Verdict(r, xmitcsum) ==
  IF xmitcsum = Checksum(r.data)
  THEN [r EXCEPT !.at = "done", !.answers = Append(@, "+")]
  ELSE [r EXCEPT !.at = "hunt", !.answers = Append(@, "-")]

getRspChar(r, ch) ==
  CASE r.at = "hunt"   -> IF ch = StartChar THEN Begin(r) ELSE r
    [] r.at = "body"   -> IF ch = StartChar THEN Begin(r)
                          ELSE IF ch = EndChar THEN [r EXCEPT !.at = "digit1"]
                          ELSE AddChar(r, ch)
    [] r.at = "digit1" -> [r EXCEPT !.at = "digit2", !.xmitcsum = (char2Hex(ch) * 16) % 256]
    [] r.at = "digit2" -> Verdict(r, (r.xmitcsum + char2Hex(ch)) % 256)
    [] OTHER           -> r

getPkt(stream) ==
  LET after[n \in 0..Len(stream)] ==
        IF n = 0 THEN Receiver ELSE getRspChar(after[n - 1], stream[n])
  IN after[Len(stream)]

\* Utils::rspUnescape.  Behind the last character lies the end of the string.
Unescape(u, ch) ==
  IF u.escaped THEN [escaped |-> FALSE, out |-> Append(u.out, Flip(ch))]
  ELSE IF ch = EscChar THEN [escaped |-> TRUE, out |-> u.out]
  ELSE [escaped |-> FALSE, out |-> Append(u.out, ch)]

UnescapeAll(buf) ==
  LET after[n \in 0..Len(buf)] ==
        IF n = 0 THEN [escaped |-> FALSE, out |-> <<>>] ELSE Unescape(after[n - 1], buf[n])
  IN after[Len(buf)]

rspUnescape(buf) ==
  LET last == UnescapeAll(buf) IN IF last.escaped THEN Append(last.out, Flip(0)) ELSE last.out

-----------------------------------------------------------------------------
(* Properties.                                                             *)

Fits(data) == Len(Escaped(data)) <= BufSize - 2

\* What one side puts the other side gets, whatever is in it, if it fits; a
\* packet that does not fit leaves the sender without any answer (getPkt).
Delivered(data) ==
  LET r == getPkt(putPkt(data)) IN
    IF Fits(data)
    THEN r.at = "done" /\ r.answers = <<"+">> /\ rspUnescape(r.data) = data
    ELSE r.at # "done" /\ r.answers = <<>>

\* The two characters after the '#' of a packet that was cut short there are taken
\* for its checksum: a '$', which is read as 15, and what follows it.
TakenForSum(cut, next) ==
  Checksum(Escaped(cut)) = (char2Hex(next[1]) * 16 + char2Hex(next[2])) % 256

\* A packet that was cut short does not spoil the one behind it, unless the cut
\* lies in the checksum: then the packet behind it is refused, but gets through
\* when it is repeated (getPkt starts again at every '$').  Only when what is taken
\* for the checksum is right by chance the packet that was cut short is accepted.
CutHeals(cut, data) ==
  LET next == putPkt(data) IN
    \A n \in 0..(Len(putPkt(cut)) - 1) :
      LET stream == SubSeq(putPkt(cut), 1, n) \o next
          once == getPkt(stream)
          again == getPkt(stream \o next)
      IN IF Fits(cut) /\ n = Len(Escaped(cut)) + 2 /\ TakenForSum(cut, next)
         THEN once.at = "done" /\ once.data = Escaped(cut)
         ELSE /\ again.at = "done" /\ again.data = Escaped(data)
              /\ once.at # "done" => once.answers = <<"-">>

=============================================================================
