------------------------------ MODULE Versions ------------------------------
(***************************************************************************)
(* How the ledger orders two versions of one entity (compareVersions in    *)
(* internal/pipeline/ledger.go), under the spelling a provider declares    *)
(* (provider.VersionOrder).  A version is a string of Go, its bytes.       *)
(***************************************************************************)
EXTENDS Integers, Sequences, FiniteSets

Octet == 0..255
ByteString == Seq(Octet)

VersionOrders == {"unset", "decimal", "lexical", "base64"}

Digits == 48..57
Zero == 48
Pad == 61
UrlSafe == {45, 95}     \* "-" and "_"
Standard == {43, 47}    \* "+" and "/"

Chars(s) == {s[i] : i \in DOMAIN s}

isDecimal(s) == s # <<>> /\ Chars(s) \subseteq Digits

(* Mutated form: leading zeros count.                                       *)
TrimLeftMutant(s) == s

(* strings.TrimLeft(s, "0")                                                 *)
TrimLeft(s) ==
    LET zeros == {i \in DOMAIN s : \A j \in 1..i : s[j] = Zero}
    IN  SubSeq(s, Cardinality(zeros) + 1, Len(s))

(* strings.Compare and bytes.Compare, which are only asked of equal lengths.*)
CompareBytes(a, b) ==
    IF a = b THEN 0
    ELSE IF \E i \in DOMAIN a : a[i] < b[i] /\ \A j \in 1..(i - 1) : a[j] = b[j]
         THEN -1 ELSE 1

compareDecimal(a, b) ==
    LET x == TrimLeft(a)
        y == TrimLeft(b)
    IN  IF Len(x) # Len(y) THEN (IF Len(x) < Len(y) THEN -1 ELSE 1) ELSE CompareBytes(x, y)

(* The value of one base64 character, under either alphabet of RFC 4648.    *)
Sextet(c) ==
    CASE c \in 65..90   -> c - 65
      [] c \in 97..122  -> c - 71
      [] c \in Digits   -> c + 4
      [] c \in {43, 45} -> 62
      [] c \in {47, 95} -> 63

Base64Alphabet == 65..90 \cup 97..122 \cup Digits \cup UrlSafe \cup Standard

(* What is left of s without its padding.                                   *)
Unpadded(s) ==
    LET pads == {i \in DOMAIN s : \A j \in i..Len(s) : s[j] = Pad}
    IN  SubSeq(s, 1, Len(s) - Cardinality(pads))

(* decodeBase64 reads s: one alphabet, and padding complete or absent.  (Go *)
(* skips line breaks as well; a version holds none.)                        *)
IsBase64(s) ==
    LET body == Unpadded(s)
        pads == Len(s) - Len(body)
    IN  /\ body # <<>>
        /\ Chars(body) \subseteq Base64Alphabet
        /\ Chars(body) \cap UrlSafe = {} \/ Chars(body) \cap Standard = {}
        /\ Len(body) % 4 # 1
        /\ pads = 0 \/ (pads \in {1, 2} /\ Len(s) % 4 = 0)

(* The bytes s stands for: eight bits at a time, what is left over dropped. *)
DecodeBytes(s) ==
    LET body == Unpadded(s)
        At(i) == Sextet(body[i + 1])
        Byte(k) == LET bit == 8 * (k - 1)
                       i == bit \div 6
                   IN  ((At(i) * 64 + At(i + 1)) \div 2^(4 - (bit % 6))) % 256
    IN  [k \in 1..((6 * Len(body)) \div 8) |-> Byte(k)]

Unordered == [ok |-> FALSE, order |-> 0]
Ordered(n) == [ok |-> TRUE, order |-> n]

compareVersions(order, v, head) ==
    CASE order = "decimal" /\ isDecimal(v) /\ isDecimal(head)
            -> Ordered(compareDecimal(v, head))
      [] order = "lexical" /\ v # <<>> /\ Len(v) = Len(head)
            -> Ordered(CompareBytes(v, head))
      [] order = "base64" /\ IsBase64(v) /\ IsBase64(head)
            /\ Len(DecodeBytes(v)) = Len(DecodeBytes(head))
            -> Ordered(CompareBytes(DecodeBytes(v), DecodeBytes(head)))
      [] OTHER -> Unordered

-----------------------------------------------------------------------------
(* The reference: the number a readable version stands for.                 *)

NumberOf(s, base) ==
    LET f[i \in 0..Len(s)] == IF i = 0 THEN 0 ELSE f[i - 1] * base + s[i]
    IN  f[Len(s)]

Value(order, v) ==
    CASE order = "decimal" -> NumberOf([i \in DOMAIN v |-> v[i] - Zero], 10)
      [] order = "lexical" -> NumberOf(v, 256)
      [] order = "base64"  -> NumberOf(DecodeBytes(v), 256)

=============================================================================
