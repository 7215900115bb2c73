----------------------------- MODULE V4Container -----------------------------
(* Containers of version 4 and before, and the programs that read them:    *)
(*  rust      decrypt_auto and decrypt_v4 of krcm-core,                    *)
(*  bindings  the same function as crates/krcm-py exports it,              *)
(*  python    decrypt_bytes of krcm/core.py,                               *)
(*  native    decrypt_bytes of core.py with the blocks left to krcm-py.    *)
(* Containers are written, one of them is stored, perhaps damaged, and is  *)
(* then opened by all four with one password.                              *)
(* A container is a sequence of cells: the magic, the length of the header,*)
(* the header and the tag are one cell each, the ciphertext has one cell   *)
(* per byte.  Lengths count cells; keys, blocks and MACs are the terms     *)
(* they are made from.  A byte of ciphertext may happen to be white space, *)
(* which may follow a JSON text.                                           *)
EXTENDS Padding, FiniteSets

CONSTANTS Passwords, Empty,   \* passwords, one of which may be empty
          Payloads,           \* what is encrypted, sequences of bytes
          Bytes,              \* what a block opened with a wrong key holds
          Iterations,         \* values of the option, MaxIterations and below are good
          MaxIterations,
          Foreign,            \* headers that other programs write
          MaxHeader,          \* MAX_HEADER_BYTES
          MaxWritten,         \* how many containers are written,
          MaxForeign,         \* how many of them by other programs
          MaxDamages          \* how many times the stored one is changed

ASSUME V4Assumption ==
  /\ Foreign \subseteq [version : Nat, style : {"numbers", "texts", "list"}]
  /\ \A s \in Payloads : s \in Seq({s[i] : i \in DOMAIN s})
  /\ Iterations \subseteq Nat
  /\ {MaxIterations, MaxWritten, MaxForeign, MaxDamages} \subseteq Nat
  /\ MaxHeader \in Nat \ {0}

VARIABLES written,    \* history: what was encrypted, and the containers made
          stored,     \* the container that is opened
          damages,    \* how often it was changed
          password,   \* what it is opened with
          answer      \* reader -> what it returned

vars == <<written, stored, damages, password, answer>>

Readers == {"rust", "bindings", "python", "native"}

\* What a reader returns, and what it had decrypted by then.
Refused(error, padded) == [verdict |-> error, data |-> << >>, padded |-> padded]
Error(error) == Refused(error, << >>)
Waiting == Error("none")

Init == /\ written = {}
        /\ stored = << >> /\ damages = 0
        /\ password \in Passwords
        /\ answer = [r \in Readers |-> Waiting]

-----------------------------------------------------------------------------
(* Writing.                                                                *)

\* derive_keys; make_tag puts nothing between the header and the ciphertext.
Key(pw, header) ==
  [password |-> pw, salt |-> header.salt, iterations |-> header.iterations]
Tag(key, bytes) == [key |-> key, bytes |-> bytes]

\* core.py keeps the rounds of version 3; krcm-core has those of version 4.
Rounds(version) == IF version = 3 THEN 3 ELSE 4

Seed(key, nonce, rounds, index, fed) ==
  [key |-> key, nonce |-> nonce, rounds |-> rounds, index |-> index, fed |-> fed]

\* A block is chained to the one before it; the first `blanks` bytes of the
\* ciphertext are white space.
EncryptBlocks(key, header, padded, blanks) ==
  LET block[k \in 0..Len(padded) \div BlockBytes] ==
        IF k = 0 THEN << >>
        ELSE [j \in 1..BlockBytes |->
               [seed  |-> Seed(key, header.nonce, Rounds(header.version), k - 1,
                               block[k - 1]),
                plain |-> SubSeq(padded, (k - 1) * BlockBytes + 1, k * BlockBytes),
                part  |-> j,
                blank |-> k = 1 /\ j <= blanks]]
  IN  [i \in 1..Len(padded) |->
        block[((i - 1) \div BlockBytes) + 1][((i - 1) % BlockBytes) + 1]]

\* HeaderV4::new and to_json_bytes.  The style is how a header writes its
\* numbers, "list" a JSON text that is no object; `magic` and `sound` tell whether
\* its magic, and its block_bytes and rounds, are those every reader expects.
HeaderOf(form, iterations, payload) ==
  [version |-> form.version, style |-> form.style,
   magic |-> TRUE, sound |-> TRUE, iterations |-> iterations,
   salt |-> 0, nonce |-> 0, length |-> Len(payload)]

\* encrypt_v4, and encrypt_bytes of core.py, which writes the same bytes.
EncryptV4(pw, payload, iterations, form, blanks) ==
  LET header == HeaderOf(form, iterations, payload)
      key    == Key(pw, header)
      cipher == EncryptBlocks(key, header, Pad(payload), blanks)
  IN  [password |-> pw, payload |-> payload, form |-> form,
       container |-> <<[magic |-> 4], [num |-> 1], [header |-> header]>> \o cipher
                       \o <<[tag |-> Tag(key, <<[header |-> header]>> \o cipher)]>>]

Ours == [version |-> 4, style |-> "numbers"]

Write(forms) ==
  /\ stored = << >> /\ Cardinality(written) < MaxWritten
  /\ \E pw \in Passwords \ {Empty}, payload \in Payloads,
        iterations \in Iterations \cap 1..MaxIterations, form \in forms,
        blanks \in 0..BlockBytes :
       written' = written \cup {EncryptV4(pw, payload, iterations, form, blanks)}
  /\ UNCHANGED <<stored, damages, password, answer>>

\* Iterations out of bounds and the empty password are refused.
Encrypt == Write({Ours})

\* Earlier releases wrote versions 2 and 3, other programs may write more.
EncryptElsewhere ==
  Cardinality({w \in written : w.form # Ours}) < MaxForeign /\ Write(Foreign)

Store ==
  /\ stored = << >>
  /\ \E w \in written : stored' = w.container
  /\ UNCHANGED <<written, damages, password, answer>>

-----------------------------------------------------------------------------
(* What may happen to a stored container.                                  *)

Is(cell, field) == field \in DOMAIN cell

Change(cells) ==
  /\ answer["rust"] = Waiting /\ stored # << >> /\ damages < MaxDamages
  /\ stored' = cells /\ damages' = damages + 1
  /\ UNCHANGED <<written, password, answer>>

\* A range is overwritten by the same range of another container.
Overwrite ==
  \E w \in written : \E i, j \in 1..Len(stored) :
    /\ i <= j /\ j <= Len(w.container)
    /\ Change([k \in 1..Len(stored) |->
                IF k \in i..j THEN w.container[k] ELSE stored[k]])

Cut    == \E i \in 1..Len(stored) - 1 : Change(SubSeq(stored, 1, i))
Extend == stored # << >> /\ Change(Append(stored, stored[Len(stored)]))

SetLength == Len(stored) > 1 /\ \E n \in 0..(MaxHeader + 1) :
               Change([stored EXCEPT ![2].num = n])

SpoilHeader ==
  /\ Len(stored) > 2 /\ Is(stored[3], "header")
  /\ \/ \E n \in Iterations : Change([stored EXCEPT ![3].header.iterations = n])
     \/ \E f \in Foreign : Change([stored EXCEPT ![3].header.version = f.version,
                                                 ![3].header.style = f.style])
     \/ Change([stored EXCEPT ![3].header.length = @ + 1])
     \/ Change([stored EXCEPT ![3].header.magic = FALSE])
     \/ Change([stored EXCEPT ![3].header.sound = FALSE])

-----------------------------------------------------------------------------
(* Reading.                                                                *)

HeaderLength(c) == c[2].num
HeaderBytes(c)  == SubSeq(c, 3, 2 + HeaderLength(c))
Header(c)       == c[3].header
Ciphertext(c)   == SubSeq(c, 3 + HeaderLength(c), Len(c) - 1)

\* The header and the tag are inside the container, and the header is JSON;
\* no other cell has bytes that are the length of a header.
Framed(c) ==
  /\ Len(c) >= 3
  /\ Is(c[2], "num") /\ HeaderLength(c) \in 1..MaxHeader
  /\ 2 + HeaderLength(c) + 1 <= Len(c)
  /\ Is(c[3], "header")
  /\ \A k \in 2..HeaderLength(c) : Is(HeaderBytes(c)[k], "blank")
                                     /\ HeaderBytes(c)[k].blank

\* Mutant: block_bytes and rounds are not looked at.
HeaderV4AnyBlock(h) ==
  IF h.style # "numbers" \/ ~h.magic THEN "Format"
  ELSE IF h.version % 256 \notin 2..4 THEN "UnsupportedVersion"
  ELSE IF h.iterations \notin 1..MaxIterations THEN "Format"
  ELSE "none"

\* HeaderV4::from_json_bytes: the version is cut to a byte.
HeaderV4Error(h) ==
  IF h.style # "numbers" \/ ~h.magic THEN "Format"
  ELSE IF h.version % 256 \notin 2..4 THEN "UnsupportedVersion"
  ELSE IF ~h.sound \/ h.iterations \notin 1..MaxIterations THEN "Format"
  ELSE "none"

\* Header.from_json_bytes of core.py: int() reads a text too, and JSON that is
\* no object has no get.
HeaderError(h) ==
  IF h.style = "list" THEN "AttributeError"
  ELSE IF \/ ~h.magic \/ ~h.sound \/ h.version \notin 2..4
          \/ h.iterations \notin 1..MaxIterations THEN "FormatError"
  ELSE "none"

TagMatches(c, pw) ==
  c[Len(c)] = [tag |-> Tag(Key(pw, Header(c)), HeaderBytes(c) \o Ciphertext(c))]

\* The k-th block of cells was encrypted at its place, under this key.
Genuine(cells, k, key, nonce, rounds) ==
  LET block(n) == SubSeq(cells, (n - 1) * BlockBytes + 1, n * BlockBytes)
  IN  \A j \in 1..BlockBytes :
        LET cell == block(k)[j]
        IN  /\ Is(cell, "seed") /\ cell.part = j
            /\ cell.seed = Seed(key, nonce, rounds, k - 1,
                                IF k = 1 THEN << >> ELSE block(k - 1))
            /\ cell.plain = block(k)[1].plain

\* decrypt_blocks of krcm-core and _decrypt_blocks of core.py: any other block
\* gives any bytes.
DecryptBlocks(cells, key, nonce, rounds) ==
  LET block(i) == ((i - 1) \div BlockBytes) + 1
      wrong == {i \in 1..Len(cells) : ~Genuine(cells, block(i), key, nonce, rounds)}
  IN  {[i \in 1..Len(cells) |-> IF i \in wrong THEN any[i]
                                ELSE cells[i].plain[((i - 1) % BlockBytes) + 1]]
        : any \in [wrong -> Bytes]}

\* Mutant: the length in the header is not compared.
UnpaddedAnyLength(h, padded, error) ==
  IF UnpadVerdict(padded) # "ok" THEN Refused(error[UnpadVerdict(padded)], padded)
  ELSE [verdict |-> "ok", data |-> Unpad(padded), padded |-> padded]

\* unpad, and the length in the header.
Unpadded(h, padded, error) ==
  IF UnpadVerdict(padded) # "ok" THEN Refused(error[UnpadVerdict(padded)], padded)
  ELSE IF Len(Unpad(padded)) # h.length THEN Refused(error["Authentication"], padded)
  ELSE [verdict |-> "ok", data |-> Unpad(padded), padded |-> padded]

RustError   == [Format |-> "Format", Authentication |-> "Authentication"]
PythonError == [Format |-> "FormatError", Authentication |-> "AuthenticationError"]

DecryptV4(c, pw) ==
  IF ~Framed(c) THEN {Error("Format")}
  ELSE LET h   == Header(c)
           key == Key(pw, h)
       IN  IF HeaderV4Error(h) # "none" THEN {Error(HeaderV4Error(h))}
           ELSE IF pw = Empty THEN {Error("InvalidPassword")}
           ELSE IF ~TagMatches(c, pw) THEN {Error("Authentication")}
           ELSE IF ~Aligned(Ciphertext(c)) THEN {Error("Format")}
           ELSE {Unpadded(h, padded, RustError) :
                   padded \in DecryptBlocks(Ciphertext(c), key, h.nonce, 4)}

\* The module krcm-py exports: every error is a ValueError.
Exported(outcome) ==
  IF outcome.verdict = "ok" THEN outcome
  ELSE Refused("ValueError", outcome.padded)

\* Mutant: every block goes to the native module.
AlwaysNative(native, version) == native

\* Blocks of version 4 go to the native module when there is one.
UsesNative(native, version) == native /\ version = 4

\* decrypt_blocks of krcm-py refuses other versions before it looks at blocks.
NativeError(version, cells) ==
  IF version # 4 \/ ~Aligned(cells) THEN "ValueError" ELSE "none"

DecryptBytes(c, pw, native) ==
  IF ~Framed(c) THEN {Error("FormatError")}
  ELSE LET h   == Header(c)
           key == Key(pw, h)
           cipher   == Ciphertext(c)
           toNative == UsesNative(native, h.version)
           error    == IF toNative THEN NativeError(h.version, cipher)
                       ELSE IF Aligned(cipher) THEN "none" ELSE "FormatError"
       IN  IF HeaderError(h) # "none" THEN {Error(HeaderError(h))}
           ELSE IF pw = Empty THEN {Error("ValueError")}
           ELSE IF ~TagMatches(c, pw) THEN {Error("AuthenticationError")}
           ELSE IF error # "none" THEN {Error(error)}
           ELSE {Unpadded(h, padded, PythonError) : padded \in
                   DecryptBlocks(cipher, key, h.nonce,
                                 IF toNative THEN 4 ELSE Rounds(h.version))}

Open ==
  /\ stored # << >> /\ answer["rust"] = Waiting
  /\ \E rust   \in DecryptV4(stored, password),
        python \in DecryptBytes(stored, password, FALSE),
        native \in DecryptBytes(stored, password, TRUE) :
       answer' = [r \in Readers |->
                   CASE r = "rust"     -> rust
                     [] r = "bindings" -> Exported(rust)
                     [] r = "python"   -> python
                     [] r = "native"   -> native]
  /\ UNCHANGED <<written, stored, damages, password>>

Next == \/ Encrypt \/ EncryptElsewhere \/ Store
        \/ Overwrite \/ Cut \/ Extend \/ SetLength \/ SpoilHeader
        \/ Open

Spec == Init /\ [][Next]_vars

-----------------------------------------------------------------------------
(* Properties                                                              *)

RustErrors   == {"Format", "UnsupportedVersion", "InvalidPassword", "Authentication"}
PythonErrors == {"FormatError", "ValueError", "AuthenticationError", "AttributeError"}

\* Every variable keeps its type; a ciphertext is whole blocks and longer than
\* what it holds.
TypeOK ==
  /\ Cardinality(written) <= MaxWritten
  /\ \A w \in written : /\ Aligned(Ciphertext(w.container))
                        /\ Len(Ciphertext(w.container)) > Len(w.payload)
  /\ damages \in 0..MaxDamages
  /\ password \in Passwords
  /\ \A r \in Readers :
       /\ answer[r].verdict \in {"none", "ok"} \cup
            IF r = "rust" THEN RustErrors ELSE PythonErrors
       /\ answer[r].verdict = "ok" => Len(answer[r].data) < Len(answer[r].padded)

\* The rounds a container was written with are those this reader has for it.
Knows(r, version) == r \in {"python", "native"} \/ Rounds(version) = 4

\* A reader returns data only for a container that is, cell for cell, one that
\* was made with that password, and the data is what was put in: not even a
\* header length that takes in ciphertext, which the tag does not see, gives
\* anything else.
OnlyAuthentic ==
  \A r \in Readers : answer[r].verdict = "ok" =>
    \E w \in written :
      /\ w.container = stored /\ w.password = password
      /\ Knows(r, w.form.version) => answer[r].data = w.payload

Opens(r, form) ==
  \/ form = Ours
  \/ r \in {"python", "native"} /\ form.style # "list" /\ form.version \in 2..4
  \/ r \in {"rust", "bindings"} /\ form.style = "numbers" /\ form.version = 2

\* A container of version 4 comes back from every reader, one of version 2 or
\* 3 from core.py with or without its native module.  A wrong password is an
\* authentication failure, and the empty one is told apart from it, except by
\* the bindings, which raise ValueError for both.
IntactVerdict ==
  \A w \in written, r \in Readers :
    (w.container = stored /\ answer[r] # Waiting /\ Opens(r, w.form)) =>
      IF password = w.password
      THEN answer[r].verdict = "ok" /\ answer[r].data = w.payload
      ELSE IF password = Empty
      THEN answer[r].verdict \in {"InvalidPassword", "ValueError"}
      ELSE answer[r].verdict =
             CASE r = "rust" -> "Authentication"
               [] r = "bindings" -> "ValueError"
               [] OTHER -> "AuthenticationError"

AsPython(error) ==
  CASE error = "InvalidPassword"                   -> "ValueError"
    [] error \in {"Format", "UnsupportedVersion"}  -> "FormatError"
    [] error = "Authentication"                    -> "AuthenticationError"
    [] OTHER                                       -> error

\* Where the two implementations part: core.py reads numbers from texts and
\* fails on JSON that is no object, where Rust answers Format; it refuses a
\* version that Rust cuts to one it knows; and it has the rounds of version 3, so that
\* it opens an intact container of that version, which Rust opens with others.
PartWays(h, rust, python) ==
  \/ h.style # "numbers" /\ rust.verdict = "Format"
  \/ h.version \notin 2..4 /\ h.version % 256 \in 2..4
     /\ python.verdict = "FormatError"
  \/ h.version = 3 /\ python.verdict = "ok"

\* The Rust program and the Python reference give one answer of one container,
\* however it was damaged and whichever version it is or was made to look like:
\* the same data, or the same kind of error found by the same check, but for
\* the cases above.
SameVerdict ==
  LET rust   == answer["rust"]
      python == answer["python"]
  IN  \/ AsPython(rust.verdict) = python.verdict /\ rust.data = python.data
      \/ Is(stored[3], "header") /\ PartWays(Header(stored), rust, python)

\* With its native module core.py returns what it returns without: the module
\* is only given blocks of the version whose rounds it has.
NativeAgrees ==
  LET python == answer["python"]
      native == answer["native"]
  IN  /\ native.verdict \in {python.verdict, "ValueError"}
      /\ python.verdict = "ok" => native = python

\* unpad takes off only what pad puts on, whatever bytes it is given: those of
\* a container opened with the wrong rounds or shifted by its header length.
PadUnpad ==
  \A r \in Readers :
    LET padded == answer[r].padded
    IN  UnpadVerdict(padded) = "ok" => Pad(Unpad(padded)) = padded

\* krcm/core.py: "a native/backend mismatch must fail loudly rather than
\* silently changing behavior", so two readers that return data of one
\* container return the same.
NoSilentMismatch ==
  \A r, s \in Readers :
    (answer[r].verdict = "ok" /\ answer[s].verdict = "ok")
    => answer[r].data = answer[s].data
=============================================================================
