-------------------------- MODULE Encoding_proofs ---------------------------
(***************************************************************************)
(* What the text forms of Encoding promise their callers: bytes survive    *)
(* the way through hex, and the PEM form fits the capacity that            *)
(* public_key_obj_to_pem asks for, its NUL included.                       *)
(***************************************************************************)
EXTENDS Encoding, TLAPS

\* hex_char_to_int reads back the digit that "%02x" printed.
LEMMA DigitReadsBack ==
  ASSUME NEW n \in Nibble
  PROVE  hex_char_to_int(HexDigit(n)) = n
  BY DEF Nibble, hex_char_to_int, HexDigit

\* The two halves of a byte are nibbles, and make up the byte.
LEMMA Halves ==
  ASSUME NEW b \in Byte
  PROVE  /\ b \div 16 \in Nibble
         /\ b % 16 \in Nibble
         /\ 16 * (b \div 16) + (b % 16) = b
  BY SMT DEF Byte, Nibble

\* The hex form has two digits for every byte, the higher half first.
LEMMA HexForm ==
  ASSUME NEW bytes \in Seq(Byte)
  PROVE  /\ Len(bytes_to_hex_string(bytes)) = 2 * Len(bytes)
         /\ \A i \in 1..Len(bytes) :
              /\ bytes_to_hex_string(bytes)[2 * i - 1] = HexDigit(bytes[i] \div 16)
              /\ bytes_to_hex_string(bytes)[2 * i] = HexDigit(bytes[i] % 16)
<1> DEFINE h == bytes_to_hex_string(bytes)
<1>1. Len(bytes) \in Nat
  OBVIOUS
<1>2. Len(h) = 2 * Len(bytes)
  BY <1>1 DEF bytes_to_hex_string
<1>3. ASSUME NEW i \in 1..Len(bytes)
      PROVE  /\ h[2 * i - 1] = HexDigit(bytes[i] \div 16)
             /\ h[2 * i] = HexDigit(bytes[i] % 16)
  <2>1. /\ 2 * i - 1 \in 1..(2 * Len(bytes))
        /\ 2 * i \in 1..(2 * Len(bytes))
        /\ (2 * i - 1) % 2 = 1
        /\ (2 * i) % 2 = 0
        /\ (2 * i - 1 + 1) \div 2 = i
        /\ (2 * i) \div 2 = i
    BY <1>1, <1>3, SMT
  <2> QED BY <2>1 DEF bytes_to_hex_string
<1> QED BY <1>2, <1>3

\* What bytes_to_hex_string writes, hex_string_to_bytes accepts and turns into
\* the bytes it was made of, for byte strings of any length.
THEOREM HexRoundTrip ==
  ASSUME NEW bytes \in Seq(Byte)
  PROVE  /\ IsHex(bytes_to_hex_string(bytes))
         /\ hex_string_to_bytes(bytes_to_hex_string(bytes)) = bytes
<1> DEFINE h == bytes_to_hex_string(bytes)
           n == Len(bytes)
<1>1. n \in Nat /\ Len(h) = 2 * n /\ Len(h) % 2 = 0 /\ Len(h) \div 2 = n
  <2>1. n \in Nat /\ Len(h) = 2 * n
    BY HexForm
  <2>2. (2 * n) % 2 = 0 /\ (2 * n) \div 2 = n
    BY <2>1, SMT
  <2> QED BY <2>1, <2>2
<1>2. ASSUME NEW i \in 1..n
      PROVE  /\ hex_char_to_int(h[2 * i - 1]) = bytes[i] \div 16
             /\ hex_char_to_int(h[2 * i]) = bytes[i] % 16
  <2>1. bytes[i] \in Byte
    BY <1>2
  <2> QED BY <2>1, <1>2, HexForm, Halves, DigitReadsBack
<1>3. \A i \in 1..n : bytes[i] \in Byte
  OBVIOUS
<1>4. IsHex(h)
  <2>1. ASSUME NEW j \in 1..Len(h)
        PROVE  hex_char_to_int(h[j]) >= 0
    <3>1. PICK i \in 1..n : j = 2 * i - 1 \/ j = 2 * i
      <4>1. /\ (j + 1) \div 2 \in 1..n
            /\ j = 2 * ((j + 1) \div 2) - 1 \/ j = 2 * ((j + 1) \div 2)
        BY <1>1, <2>1, SMT
      <4> QED BY <4>1
    <3>2. bytes[i] \div 16 \in Nibble /\ bytes[i] % 16 \in Nibble
      BY <1>3, Halves
    <3>3. \A m \in Nibble : m >= 0
      BY DEF Nibble
    <3>4. CASE j = 2 * i - 1
      BY <3>2, <3>3, <3>4, <1>2
    <3>5. CASE j = 2 * i
      BY <3>2, <3>3, <3>5, <1>2
    <3> QED BY <3>1, <3>4, <3>5
  <2> QED BY <1>1, <2>1 DEF IsHex
<1>5. hex_string_to_bytes(h) = [i \in 1..n |-> bytes[i]]
  <2>1. ASSUME NEW i \in 1..n
        PROVE  16 * hex_char_to_int(h[2 * i - 1]) + hex_char_to_int(h[2 * i]) = bytes[i]
    BY <1>2, <1>3, Halves, Zenon
  <2> HIDE DEF h
  <2> QED BY <1>1, <2>1 DEF hex_string_to_bytes
<1>6. bytes = [i \in 1..n |-> bytes[i]]
  OBVIOUS
<1> QED BY <1>4, <1>5, <1>6

\* A caller that provides the capacity public_key_obj_to_pem asks for has room
\* for the header, every line with its line end, the footer and the NUL,
\* whatever the length of the key, up to what der_buf can hold; and the base64
\* form with its NUL fits b64_buf.
THEOREM PemFits ==
  ASSUME NEW der_len \in 1..MAX_DER_LEN
  PROVE  /\ pem_len_of(der_len) + 1 <= estimated_len(der_len)
         /\ b64_len(der_len) + 1 <= 1600
<1>1. b64_len(der_len) \in 0..1368
  BY SMT DEF b64_len, MAX_DER_LEN
<1>2. Lines(b64_len(der_len)) \in 0..22
  BY <1>1, SMT DEF Lines
<1> DEFINE b == b64_len(der_len)
           l == Lines(b)
<1>3. pem_len_of(der_len) = 27 + b + l + 25 /\ estimated_len(der_len) = b + 27 + 25 + 32
  BY DEF pem_len_of, estimated_len, HEADER_LEN, FOOTER_LEN
<1> HIDE DEF b, l
<1>4. b \in 0..1368 /\ l \in 0..22
  BY <1>1, <1>2 DEF b, l
<1>5. pem_len_of(der_len) + 1 <= estimated_len(der_len) /\ b + 1 <= 1600
  BY <1>3, <1>4
<1> QED BY <1>5 DEF b
=============================================================================
