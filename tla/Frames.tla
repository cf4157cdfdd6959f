------------------------------- MODULE Frames -------------------------------
(***************************************************************************)
(* The wire format: signed frames of the public family (signature domain   *)
(* v3) and of the sealed family (v4), as their encoders build them and     *)
(* their decoders judge them.  Sizes are exact postcard sizes.  A          *)
(* signature is the pair of what was signed: domain and topic.  The        *)
(* ciphertext of a sealed body is the body and the key it opens with.      *)
(***************************************************************************)
EXTENDS Naturals, Sequences

CONSTANTS
  MAX_MESSAGE_SIZE,        \* bytes of an encoded frame
  MAX_NAME_LEN,            \* bytes of an offer's name
  MAX_METADATA_ENTRIES, MAX_METADATA_KEY_LEN, MAX_METADATA_VALUE_LEN,
  None

ASSUME FramesAssumption ==
  /\ MAX_MESSAGE_SIZE \in Nat /\ MAX_MESSAGE_SIZE > 2048
  /\ {MAX_NAME_LEN, MAX_METADATA_ENTRIES, MAX_METADATA_KEY_LEN, MAX_METADATA_VALUE_LEN}
       \subseteq Nat

MAX_BODY_SIZE == MAX_MESSAGE_SIZE - 1024
WIRE_VERSION == 2
SEALED_WIRE_VERSION == 4

\* postcard: a length or number, and a string of bytes with its length.
Varint(n) == IF n < 128 THEN 1 ELSE IF n < 16384 THEN 2 ELSE 3
Counted(n) == Varint(n) + n

Hash == 32
Millis == 6      \* a time in milliseconds since 1970

\* What an encoded body takes.  An offer has a name of `name` bytes and
\* `entries` pairs of a key and a value; its advisory size and media type
\* are left out of the count.
PayloadSize(b) ==
  CASE b.k = "offer" -> Hash + Counted(b.name) + 2 + 1 + Millis
                          + Varint(b.entries) + b.entries * (Counted(b.key) + Counted(b.value))
    [] b.k = "provider" -> Hash + 1 + 1 + Millis
    [] b.k = "request"  -> Hash
    [] b.k = "ext"      -> 16 + 1 + 1 + Counted(b.len)
    [] OTHER            -> b.len

\* BodyEnvelopeV1, MessageV1 and SignedMessageV1 around a payload.
EnvelopeSize(payload) == 1 + Counted(payload)
SignedSize(payload) == 32 + (1 + 64) + Counted(1 + 16 + Millis + EnvelopeSize(payload))

\* The nonce and the authentication tag of a sealed body.
SealedSize(inner) == 24 + inner + 16

Refused(why) == [ok |-> FALSE, why |-> why]
Accepted(body) == [ok |-> TRUE, body |-> body]

---------------------------------------------------------------------------
(* Encoding.  The frame, or None when it is too large to send. *)

Signed(id, author, domain, topic, version, body, key, payload) ==
  [id |-> id, author |-> author, domain |-> domain, topic |-> topic, version |-> version,
   body |-> body, key |-> key, payload |-> payload, size |-> SignedSize(payload)]

\* Mutant of encode: nobody looks at the size of the frame.
encode_uncapped(id, author, topic, body) ==
  Signed(id, author, "v3", topic, WIRE_VERSION, body, None, PayloadSize(body))

encode(id, author, topic, body) ==
  LET frame == Signed(id, author, "v3", topic, WIRE_VERSION, body, None, PayloadSize(body))
  IN  IF frame.size > MAX_MESSAGE_SIZE THEN None ELSE frame

encode_sealed(id, author, topic, key, body) ==
  LET inner == EnvelopeSize(PayloadSize(body))
      frame == Signed(id, author, "v4", topic, SEALED_WIRE_VERSION, body, key, SealedSize(inner))
  IN  IF inner > MAX_BODY_SIZE \/ frame.size > MAX_MESSAGE_SIZE THEN None ELSE frame

---------------------------------------------------------------------------
(* Decoding. *)

\* A name is refused for its length or for what is in it (`clean`: no
\* separator, control character, leading dot, trailing dot or space).
validate_name(b) == b.name \in 1..MAX_NAME_LEN /\ b.clean

validate_body(b) ==
  CASE b.k = "offer" ->
         /\ validate_name(b)
         /\ b.entries <= MAX_METADATA_ENTRIES
         /\ b.entries > 0 => b.key <= MAX_METADATA_KEY_LEN /\ b.value <= MAX_METADATA_VALUE_LEN
    [] b.k = "ext" -> b.len <= MAX_BODY_SIZE
    [] OTHER -> TRUE

\* Mutant of verify_outer: the signature is not bound to the topic.
verify_outer_unbound(frame, domain, topic) == frame.domain = domain

\* The signature is over the domain, the topic and the payload.
verify_outer(frame, domain, topic) == frame.domain = domain /\ frame.topic = topic

\* Frames of older builds were signed without the topic.
verify_legacy(frame) == frame.domain = "v2"

\* Why a frame does not verify: it is another family's, or it is junk.
\* Either way it is not accepted.
diagnose_other_family(frame, domains, topic) ==
  IF \E d \in domains :
       IF d = "v2" THEN verify_legacy(frame) ELSE verify_outer(frame, d, topic)
  THEN Refused("UnsupportedVersion") ELSE Refused("InvalidSignature")

Known(b) == b.k \in {"offer", "provider", "request", "ext"}

\* BodyEnvelopeV1::decode and validate_body: kinds of a later build pass
\* undecoded.
Opened(payload, b) ==
  IF payload > MAX_BODY_SIZE THEN Refused("MessageTooLarge")
  ELSE IF ~Known(b) THEN Accepted(None)
  ELSE IF validate_body(b) THEN Accepted(b) ELSE Refused("Invalid")

\* The public family.
decode(frame, topic) ==
  IF frame.size > MAX_MESSAGE_SIZE THEN Refused("MessageTooLarge")
  ELSE IF ~verify_outer(frame, "v3", topic)
  THEN diagnose_other_family(frame, {"v2", "v4"}, topic)
  ELSE IF frame.version # WIRE_VERSION THEN Refused("UnsupportedVersion")
  ELSE Opened(frame.payload, frame.body)

\* The sealed family, with the key.
decode_sealed(frame, key, topic) ==
  IF frame.size > MAX_MESSAGE_SIZE THEN Refused("MessageTooLarge")
  ELSE IF ~verify_outer(frame, "v4", topic)
  THEN diagnose_other_family(frame, {"v3", "v2"}, topic)
  ELSE IF frame.version # SEALED_WIRE_VERSION THEN Refused("UnsupportedVersion")
  ELSE IF frame.key # key THEN Refused("Unseal")
  ELSE IF frame.payload - SealedSize(0) > MAX_BODY_SIZE THEN Refused("MessageTooLarge")
  ELSE Opened(PayloadSize(frame.body), frame.body)

\* The sealed family, on a blind relay: the body stays closed.
verify_sealed_outer(frame, topic) ==
  IF frame.size > MAX_MESSAGE_SIZE THEN Refused("MessageTooLarge")
  ELSE IF ~verify_outer(frame, "v4", topic) THEN Refused("InvalidSignature")
  ELSE IF frame.version # SEALED_WIRE_VERSION THEN Refused("UnsupportedVersion")
  ELSE IF frame.payload > MAX_BODY_SIZE THEN Refused("MessageTooLarge")
  ELSE Accepted(None)
=============================================================================
