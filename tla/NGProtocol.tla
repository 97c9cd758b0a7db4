----------------------------- MODULE NGProtocol -----------------------------
(***************************************************************************)
(* The chunks a Nailgun client and server exchange: four bytes of length,  *)
(* one of type, and the payload.  Bytes are numbers.  The constants keep   *)
(* their names of NGConstants.java and ng.c.                               *)
(***************************************************************************)
EXTENDS Integers, Sequences, SequencesExt

CHUNKTYPE_ARGUMENT == 65
CHUNKTYPE_COMMAND == 67
CHUNKTYPE_WORKINGDIRECTORY == 68
CHUNKTYPE_ENVIRONMENT == 69
CHUNKTYPE_STDIN == 48
CHUNKTYPE_STDIN_EOF == 46
CHUNKTYPE_STDOUT == 49
CHUNKTYPE_STDERR == 50
CHUNKTYPE_EXIT == 88

EXIT_EXCEPTION == 899
NAILGUN_CONNECTION_BROKEN == 995
NAILGUN_UNEXPECTED_CHUNKTYPE == 997

CHUNK_HEADER_LEN == 5

(* The largest int of Java, and of C where the client is built.            *)
MaxInt == 2147483647

Byte == 0 .. 255
Bytes == Seq(Byte)

(* LongUtils.toArray and fromArray, and what sendHeader() and              *)
(* processnailgunstream() of ng.c do with shifts.                          *)
ToArray(n) == LET l1 == n \div 256
                  l2 == l1 \div 256
                  l3 == l2 \div 256
              IN  <<l3 % 256, l2 % 256, l1 % 256, n % 256>>
FromArray(b) == 256 * (256 * (256 * b[1] + b[2]) + b[3]) + b[4]

Chunk(type, payload) == ToArray(Len(payload)) \o <<type>> \o payload

(* The decimal digits PrintStream.print(int) writes, and atoi() of C,      *)
(* which stops at the first byte that is no digit.                         *)
Decimal[n \in Nat] ==
  IF n < 10 THEN <<48 + n>> ELSE Append(Decimal[n \div 10], 48 + (n % 10))

Value(digits) ==
  LET value[i \in 0 .. Len(digits)] ==
        IF i = 0 THEN 0 ELSE (10 * value[i - 1]) + (digits[i] - 48)
  IN  value[Len(digits)]

atoi(text) ==
  LET stop == {i \in DOMAIN text : text[i] \notin 48 .. 57}
  IN  Value(IF stop = {} THEN text ELSE SubSeq(text, 1, Min(stop) - 1))

NewLine == <<10>>
=============================================================================
