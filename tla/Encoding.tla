------------------------------ MODULE Encoding ------------------------------
(***************************************************************************)
(* The text forms of ta/utils/utils.c: hex strings and the PEM form of a   *)
(* public key.  Characters are their ASCII codes, bytes are 0..255, and a  *)
(* string is the sequence of its characters without the terminating NUL.   *)
(***************************************************************************)
EXTENDS Integers, Sequences

Byte == 0..255
Nibble == 0..15

\* The digit "%02x" prints: '0'..'9', 'a'..'f'.
HexDigit(n) == IF n < 10 THEN 48 + n ELSE 87 + n

bytes_to_hex_string(bytes) ==
  [i \in 1..(2 * Len(bytes)) |->
     HexDigit(IF i % 2 = 1 THEN bytes[(i + 1) \div 2] \div 16 ELSE bytes[i \div 2] % 16)]

\* -1 for a character that is not a hex digit of either case.
hex_char_to_int(c) ==
  IF c \in 48..57 THEN c - 48
  ELSE IF c \in 97..102 THEN c - 87
  ELSE IF c \in 65..70 THEN c - 55
  ELSE -1

\* The strings hex_string_to_bytes accepts, and what it makes of one.
IsHex(hex) ==
  /\ Len(hex) % 2 = 0
  /\ \A i \in 1..Len(hex) : hex_char_to_int(hex[i]) >= 0

hex_string_to_bytes(hex) ==
  [i \in 1..(Len(hex) \div 2) |->
     16 * hex_char_to_int(hex[2 * i - 1]) + hex_char_to_int(hex[2 * i])]

-----------------------------------------------------------------------------
(* public_key_obj_to_pem: header, base64 in lines of 64, footer.             *)

HEADER_LEN == 27
FOOTER_LEN == 25
MAX_DER_LEN == 1024 \* der_buf

\* The base64 form of n bytes, without the NUL.
b64_len(n) == ((n + 2) \div 3) * 4

\* The capacity public_key_obj_to_pem asks of its caller.
estimated_len(der_len) == b64_len(der_len) + HEADER_LEN + FOOTER_LEN + 32

\* The loop writes a line end after every 64 characters and after the rest.
Lines(n) == (n + 63) \div 64

\* The characters written before the NUL: what *pem_len becomes.
pem_len_of(der_len) ==
  HEADER_LEN + b64_len(der_len) + Lines(b64_len(der_len)) + FOOTER_LEN
=============================================================================
