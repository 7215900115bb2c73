----------------------------- MODULE V5Container -----------------------------
(* encrypt_v5 and decrypt_v5 of crates/krcm-core/src/format_v5.rs.         *)
(* Containers are written, one of them is stored, damaged (a range of it   *)
(* overwritten by another container, a length or an entry changed, cut or  *)
(* extended) and perhaps tagged anew by someone who knows a password, and  *)
(* is then opened with some password.                                      *)
(* A container is a sequence of cells: a header, a MAC, an entry of the    *)
(* table, the ciphertext of a segment or a length is one cell.  Lengths    *)
(* count cells and wrap as usize does in a release build.  Keys, MACs and  *)
(* ciphertexts are the terms they are made from.                           *)
EXTENDS Naturals, Sequences, FiniteSets

CONSTANTS Passwords, Empty,  \* passwords, one of which may be empty
          Payloads,          \* what is encrypted, sequences of bytes
          Random,            \* what random padding is made of
          MaxRandom,         \* the most random padding, in bytes
          Kdfs,              \* KdfParams
          MaxIterations,     \* MAX_PBKDF2_ITERATIONS
          Sizes,             \* values of the option segment_size
          BlockBytes,
          Salts, Nonces,
          MaxWord,           \* the largest usize
          MaxWritten,        \* how many containers are written
          MaxDamages,        \* how many times the stored one is changed
          Garbage            \* what decrypting anything else yields

Pbkdf2 == [id : {1}, iterations : Nat]
Scrypt == [id : {2}, n_log2 : Nat, r : Nat, p : Nat]

ASSUME ContainerAssumption == /\ Kdfs \subseteq Pbkdf2 \cup Scrypt
                              /\ \A s \in Payloads : s \in Seq({s[i] : i \in DOMAIN s})
                              /\ Sizes \subseteq Nat
                              /\ BlockBytes \in Nat \ {0}
                              /\ {MaxIterations, MaxRandom, MaxWritten, MaxDamages}
                                   \subseteq Nat
                              /\ MaxWord \in Nat /\ MaxWord > 4

\* What a wrong key yields is nobody's data, except by chance.
ASSUME GarbageAssumption ==
  Garbage # Random /\ \A s \in Payloads : \A i \in 1..Len(s) : s[i] # Garbage

VARIABLES written,   \* history: what was encrypted, and the containers made
          stored,    \* the container that is opened
          damages,   \* how often it was changed
          password,  \* what it is opened with
          at,        \* how far decrypt_v5 is, or what it returned
          sizes,     \* segment_table_len and ciphertext_len as read
          inner,     \* what decrypt_segments returned
          output     \* what decrypt_v5 returned

vars == <<written, stored, damages, password, at, sizes, inner, output>>

Init == /\ written = {}
        /\ stored = << >> /\ damages = 0
        /\ password \in Passwords
        /\ at = "writing"
        /\ sizes = [table |-> 0, cipher |-> 0]
        /\ inner = << >> /\ output = << >>

-----------------------------------------------------------------------------
(* Keys, MACs and the parts of a container.                                *)

\* The bounds pack_public_header and derive_root_key put on KdfParams.
Sound(kdf) == IF kdf \in Pbkdf2 THEN kdf.iterations \in 1..MaxIterations
              ELSE kdf.n_log2 <= 15 /\ kdf.r \in 1..8 /\ kdf.p \in 1..2

\* derive_root_key; each of V5Keys is used for one kind of term.
Root(pw, header) == [password |-> pw, salt |-> header.salt, kdf |-> header.kdf]

\* Neither the header nor encrypt_segments takes less than a block.
SegmentSize(size) == IF size > BlockBytes THEN size ELSE BlockBytes

\* Mutant: the segment size is rounded down to a power of two.
SizeLogDown(size) == CHOOSE k \in 0..SegmentSize(size) :
  2^k <= SegmentSize(size) /\ SegmentSize(size) < 2^(k + 1)

\* pack_public_header rounds the segment size up to a power of two.
SizeLog(size) == CHOOSE k \in 0..SegmentSize(size) :
  2^k >= SegmentSize(size) /\ \A j \in 0..k-1 : 2^j < SegmentSize(size)

Header(kdf, policy, size, salt, nonce) ==
  [kdf |-> kdf, policy |-> policy, sizeLog |-> SizeLog(size),
   reserved |-> 0, salt |-> salt, nonce |-> nonce]

Bytes(seq) == [i \in 1..Len(seq) |-> [byte |-> seq[i]]]

PackInner(payload, random) ==
  <<[length |-> Len(payload), hash |-> Bytes(payload)]>>
    \o Bytes(payload) \o Bytes([i \in 1..random |-> Random])

Siv(root, header, plain) == [root |-> root, header |-> header, inner |-> plain]

\* Mutant: the synthetic IV is left out.
NonceWithoutSiv(root, header, siv, index) ==
  [root |-> root, nonce |-> header.nonce, index |-> index]

SegmentNonce(root, header, siv, index) ==
  [root |-> root, nonce |-> header.nonce, siv |-> siv, index |-> index]

Tag(root, header, siv, table, cipher) ==
  [root |-> root, header |-> header, siv |-> siv, table |-> table, cipher |-> cipher]

\* encrypt_segments (SegmentPipeline has its threads and its offsets).
Segments(plain, size) ==
  (Len(plain) + SegmentSize(size) - 1) \div SegmentSize(size)
Part(plain, size, i) ==
  LET last == (i + 1) * SegmentSize(size)
  IN  SubSeq(plain, i * SegmentSize(size) + 1,
             IF last < Len(plain) THEN last ELSE Len(plain))

\* A container is a Vec<u8>: its length is a usize.  Six cells stand around
\* an entry and a ciphertext for each segment.
ASSUME LengthAssumption ==
  \A payload \in Payloads, random \in 0..MaxRandom, size \in Sizes :
    2 * Segments(PackInner(payload, random), size) + 6 <= MaxWord

\* Mutant: the length of the last segment is taken to be the segment size.
TableFullSegments(plain, size) ==
  [k \in 1..Segments(plain, size) |->
    [entry |-> [index |-> k - 1, plainOffset |-> (k - 1) * SegmentSize(size),
                plainLength |-> SegmentSize(size),
                cipherOffset |-> k - 1, cipherLength |-> 1]]]

Table(plain, size) ==
  [k \in 1..Segments(plain, size) |->
    [entry |-> [index |-> k - 1, plainOffset |-> (k - 1) * SegmentSize(size),
                plainLength |-> Len(Part(plain, size, k - 1)),
                cipherOffset |-> k - 1, cipherLength |-> 1]]]
Cipher(root, header, siv, plain, size) ==
  [k \in 1..Segments(plain, size) |->
    [key |-> root, nonce |-> SegmentNonce(root, header, siv, k - 1),
     plain |-> Part(plain, size, k - 1)]]

\* The outer prefix, the fields and the tag, in the order encrypt_v5 writes them.
Container(root, header, siv, table, cipher) ==
  <<[prefix |-> 5], [header |-> header], [siv |-> siv], [num |-> Len(table)]>>
    \o table \o <<[num |-> Len(cipher)]>> \o cipher
    \o <<[tag |-> Tag(root, header, siv, table, cipher)]>>

EncryptV5(pw, payload, kdf, policy, random, size, salt, nonce) ==
  LET header == Header(kdf, policy, size, salt, nonce)
      root   == Root(pw, header)
      plain  == PackInner(payload, random)
      siv    == Siv(root, header, plain)
  IN  [password |-> pw, payload |-> payload, inner |-> plain,
       cipher |-> Cipher(root, header, siv, plain, size),
       container |-> Container(root, header, siv, Table(plain, size),
                               Cipher(root, header, siv, plain, size))]

\* Parameters out of bounds and the empty password are refused.
Encrypt ==
  /\ at = "writing" /\ Cardinality(written) < MaxWritten
  /\ \E pw \in Passwords \ {Empty}, kdf \in Kdfs, payload \in Payloads,
        policy \in {0, 1}, random \in 0..MaxRandom, size \in Sizes,
        salt \in Salts, nonce \in Nonces :
       /\ Sound(kdf)
       /\ policy = 0 => random = 0
       /\ written' = written \cup
            {EncryptV5(pw, payload, kdf, policy, random, size, salt, nonce)}
  /\ UNCHANGED <<stored, damages, password, at, sizes, inner, output>>

Store ==
  /\ at = "writing"
  /\ \E w \in written : stored' = w.container
  /\ at' = "stored"
  /\ UNCHANGED <<written, damages, password, sizes, inner, output>>

-----------------------------------------------------------------------------
(* What may happen to a stored container.                                  *)

Has(i, field) == i <= Len(stored) /\ field \in DOMAIN stored[i]

Change(cells) ==
  /\ at = "stored" /\ damages < MaxDamages
  /\ stored' = cells /\ damages' = damages + 1
  /\ UNCHANGED <<written, password, at, sizes, inner, output>>

\* A range is overwritten by the same range of another container.
Overwrite ==
  \E w \in written : \E i \in 1..Len(stored) : \E j \in i..Len(stored) :
    /\ j <= Len(w.container)
    /\ Change([k \in 1..Len(stored) |->
                IF k \in i..j THEN w.container[k] ELSE stored[k]])

Cut    == \E i \in 0..Len(stored) - 1 : Change(SubSeq(stored, 1, i))
Extend == stored # << >> /\ Change(Append(stored, stored[Len(stored)]))

SetLength == \E i \in 1..Len(stored), n \in 0..MaxWord :
  Has(i, "num") /\ Change([stored EXCEPT ![i].num = n])

SpoilEntry == \E i \in 1..Len(stored), n \in {0, 1} :
  Has(i, "entry") /\ Change([stored EXCEPT ![i].entry.plainLength = @ + 1,
                                           ![i].entry.plainOffset = @ + n])

SpoilHeader ==
  /\ Has(2, "header")
  /\ \/ \E kdf \in Kdfs : Change([stored EXCEPT ![2].header.kdf = kdf])
     \/ \E policy \in 0..2 : Change([stored EXCEPT ![2].header.policy = policy])
     \/ Change([stored EXCEPT ![2].header.reserved = 1])
     \/ Change([stored EXCEPT ![2].header.sizeLog = @ + 1])

\* The tag is made again, by a program that knows some password.
Reseal ==
  /\ at = "stored"
  /\ Has(1, "prefix") /\ Has(2, "header") /\ Has(3, "siv") /\ Has(4, "num")
  /\ LET last == 4 + stored[4].num
     IN  /\ Has(last + 1, "num") /\ last + stored[last + 1].num + 2 = Len(stored)
         /\ \E pw \in Passwords \ {Empty} :
              stored' = [stored EXCEPT ![Len(stored)] =
                [tag |-> Tag(Root(pw, stored[2].header), stored[2].header,
                             stored[3].siv, SubSeq(stored, 5, last),
                             SubSeq(stored, last + 2, Len(stored) - 1))]]
  /\ UNCHANGED <<written, damages, password, at, sizes, inner, output>>

-----------------------------------------------------------------------------
(* decrypt_v5                                                              *)

Refuse(error) ==
  at' = error /\ UNCHANGED <<written, stored, damages, password, sizes, inner, output>>

\* read_u64_at: any eight bytes are a length (the cell is then that length).
Number(cell) == IF "num" \in DOMAIN cell THEN {cell.num} ELSE 0..MaxWord

Wrap(n) == n % (MaxWord + 1)

\* Mutant: bytes may follow the tag.
EndsInside(offset, c) == Wrap(offset + c + 2) \in 1..Len(stored)

\* The ciphertext and the tag end where the container does.
EndsThere(offset, c) == Wrap(offset + c + 2) = Len(stored)

\* A table length that is no multiple of an entry is refused, and left out.
\* A slice whose end comes before its start panics.
ReadOuter ==
  /\ at = "stored"
  /\ IF Len(stored) < 4 \/ ~Has(1, "prefix") \/ ~Has(2, "header")
     THEN Refuse("Format")
     ELSE IF stored[2].header.reserved # 0 THEN Refuse("Format")
     ELSE IF stored[2].header.policy > 1 THEN Refuse("InvalidParameter")
     ELSE \E t \in Number(stored[4]) :
       LET offset == Wrap(4 + t)
       IN  IF offset >= Len(stored) THEN Refuse("Format")
           ELSE IF offset < 4 THEN Refuse("panic")
           ELSE \E c \in Number(stored[offset + 1]) :
             IF ~EndsThere(offset, c) THEN Refuse("Format")
             ELSE IF Wrap(offset + 1 + c) < offset + 1 THEN Refuse("panic")
             ELSE /\ sizes' = [table |-> t, cipher |-> c]
                  /\ stored' = [stored EXCEPT ![4] = [num |-> t],
                                              ![offset + 1] = [num |-> c]]
                  /\ at' = "derive"
                  /\ UNCHANGED <<written, damages, password, inner, output>>

header == stored[2].header
root   == Root(password, header)
table  == SubSeq(stored, 5, 4 + sizes.table)
cipher == SubSeq(stored, 6 + sizes.table, 5 + sizes.table + sizes.cipher)

DeriveRootKey ==
  /\ at = "derive"
  /\ Refuse(IF password = Empty \/ ~Sound(header.kdf)
            THEN "InvalidParameter" ELSE "verify")

\* Any 32 bytes can stand where the synthetic IV and the tag do.
TagMatches ==
  /\ Has(3, "siv") /\ Has(Len(stored), "tag")
  /\ stored[Len(stored)].tag = Tag(root, header, stored[3].siv, table, cipher)

VerifyTag ==
  /\ at = "verify"
  /\ Refuse(IF TagMatches THEN "table" ELSE "Authentication")

\* parse_segment_table, whose loop is in SegmentTable.
TableAccepted ==
  /\ table # << >>
  /\ \A k \in 1..Len(table) : "entry" \in DOMAIN table[k]
  /\ \A k \in 1..Len(table) :
       LET e == table[k].entry
       IN  /\ e.index = k - 1 /\ e.cipherOffset = k - 1 /\ e.cipherLength = 1
           /\ e.plainOffset = IF k = 1 THEN 0
                              ELSE table[k - 1].entry.plainOffset
                                     + table[k - 1].entry.plainLength
  /\ Len(table) = Len(cipher)

ParseTable ==
  /\ at = "table"
  /\ Refuse(IF TableAccepted THEN "segments" ELSE "Format")

\* The cell was encrypted under this key for segment k of this container.
Genuine(k) ==
  /\ "key" \in DOMAIN cipher[k]
  /\ cipher[k].key = root
  /\ cipher[k].nonce = SegmentNonce(root, header, stored[3].siv, k - 1)

Opened(k) == IF Genuine(k) THEN cipher[k].plain
             ELSE Bytes([i \in 1..table[k].entry.plainLength |-> Garbage])

\* What the segments give one after another: each fills its entry's place.
Joined ==
  LET n     == Len(table)
      place(p) == CHOOSE k \in 1..n :
                    LET e == table[k].entry
                    IN  p \in (e.plainOffset + 1)..(e.plainOffset + e.plainLength)
  IN  [p \in 1..(table[n].entry.plainOffset + table[n].entry.plainLength) |->
        Opened(place(p))[p - table[place(p)].entry.plainOffset]]

\* unpad refuses what was not encrypted for this place, except by chance.
DecryptSegments ==
  /\ at = "segments"
  /\ \/ /\ \A k \in 1..Len(table) : Len(Opened(k)) = table[k].entry.plainLength
        /\ inner' = Joined
        /\ at' = "siv"
        /\ UNCHANGED <<written, stored, damages, password, sizes, output>>
     \/ /\ \E k \in 1..Len(table) :
             ~Genuine(k) \/ Len(Opened(k)) # table[k].entry.plainLength
        /\ Refuse("Authentication")

\* Mutant: the synthetic IV is not compared.
SkipSiv == at = "siv" /\ Refuse("inner")

VerifySiv ==
  /\ at = "siv"
  /\ Refuse(IF stored[3].siv = Siv(root, header, inner)
            THEN "inner" ELSE "Authentication")

\* inspect_inner and unpack_inner: what follows the payload is padding.  The
\* comparison of the sum of lengths in between is SegmentTable's CompareSum,
\* where SumAgrees shows that it refuses nothing after decrypt_segments.
UnpackInner ==
  /\ at = "inner"
  /\ LET n == inner[1].length
     IN  IF /\ "length" \in DOMAIN inner[1]
            /\ 1 + n <= Len(inner)
            /\ inner[1].hash = SubSeq(inner, 2, n + 1)
         THEN /\ output' = SubSeq(inner, 2, n + 1) /\ at' = "done"
              /\ UNCHANGED <<written, stored, damages, password, sizes, inner>>
         ELSE Refuse("Authentication")

Next == \/ Encrypt \/ Store
        \/ Overwrite \/ Cut \/ Extend \/ SetLength \/ SpoilEntry \/ SpoilHeader
        \/ Reseal
        \/ ReadOuter \/ DeriveRootKey \/ VerifyTag \/ ParseTable
        \/ DecryptSegments \/ VerifySiv \/ UnpackInner

Spec == Init /\ [][Next]_vars

-----------------------------------------------------------------------------
(* Properties                                                              *)

Errors == {"Format", "Authentication", "InvalidParameter"}

\* Every variable keeps its type; written containers have the parts above.
TypeOK ==
  /\ Cardinality(written) <= MaxWritten
  /\ damages \in 0..MaxDamages
  /\ password \in Passwords
  /\ at \in {"writing", "stored", "derive", "verify", "table", "segments",
             "siv", "inner", "done", "panic"} \cup Errors
  /\ sizes \in [table : 0..MaxWord, cipher : 0..MaxWord]
  /\ at \in {"derive", "verify", "table", "segments", "siv", "inner", "done"} =>
       6 + sizes.table + sizes.cipher = Len(stored)
  /\ at = "done" => Len(output) < Len(inner)

\* No input was encrypted in two cuts under the stored synthetic IV, as it may
\* be with two segment sizes that the header rounds up to one.
CutOnce ==
  \A v, w \in written : (v.container[3] = stored[3] /\ w.container[3] = stored[3])
                         => v.container = w.container

\* decrypt_v5 returns data only if it was encrypted with that password under
\* the header and synthetic IV that are stored, from segments that were each
\* encrypted for their place under them; and unless one input was cut in two
\* ways the container is, cell for cell, one that was written.  The tag
\* refuses whatever is damaged, and where it was made again by someone who
\* knows the password, the nonces refuse a mixture of containers, but for
\* segments of one input cut in two ways that still give it back.
OnlyAuthentic ==
  at = "done" =>
    /\ \E w \in written : /\ w.password = password /\ Bytes(w.payload) = output
                         /\ w.container[2] = stored[2]
                         /\ w.container[3] = stored[3]
                         /\ CutOnce => w.container = stored
    /\ \A k \in DOMAIN cipher :
         \E v \in written : /\ v.container[3] = stored[3]
                           /\ k \in DOMAIN v.cipher /\ cipher[k] = v.cipher[k]

\* A container that comes back as it was written opens with its password and
\* gives what was encrypted, whatever its options; with another it is an
\* authentication failure, and the empty password an invalid parameter.
IntactVerdict ==
  \A w \in written : w.container = stored =>
    /\ w.password = password => /\ at \notin Errors \cup {"panic"}
                                /\ at = "done" => output = Bytes(w.payload)
    /\ w.password # password =>
         at \in {"stored", "derive", "verify",
                IF password = Empty THEN "InvalidParameter" ELSE "Authentication"}

\* One key and nonce never encrypt segments of two different inputs, even
\* where salt and nonce are given by the caller and repeat: the synthetic IV
\* tells inputs and headers apart, the index the segments of one input.  (It
\* says nothing of one input cut in two ways: two segment sizes that the
\* header rounds up to one share a synthetic IV, and so keys and nonces.)
NonceOnce ==
  \A w1, w2 \in written :
    \A i \in DOMAIN w1.cipher, j \in DOMAIN w2.cipher :
      (/\ w1.cipher[i].key = w2.cipher[j].key
       /\ w1.cipher[i].nonce = w2.cipher[j].nonce)
      => i = j /\ w1.inner = w2.inner

\* The size in the public header holds every segment, the smallest power of
\* two of a block or more that does so: a reader may rely on it though
\* encrypt_segments cuts at the size that was asked for.
SegmentsFitHeader ==
  \A w \in written :
    LET bound == 2^(w.container[2].header.sizeLog)
    IN  /\ \A i \in DOMAIN w.cipher : Len(w.cipher[i].plain) <= bound
        /\ Len(w.cipher) > 1 => bound < 2 * Len(w.cipher[1].plain)

\* fuzz_decrypt_auto calls decrypt_auto with any bytes and expects it to
\* return: a damaged length must not make it panic.
AlwaysReturns == at # "panic"
=============================================================================
