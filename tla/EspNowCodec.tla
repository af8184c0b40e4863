---------------------------- MODULE EspNowCodec ----------------------------
(***************************************************************************)
(* Which payloads canview_espnow.c takes for well formed: contract_variant,*)
(* validate_payload_shape with the TLV walk, and validate_field_constraints*)
(* against a reference that says what a payload is made of.  One unit of   *)
(* the model is one field of the wire; the six contracts are one of each   *)
(* payload_kind, the suffix once plain and once made of TLVs, with field   *)
(* rules of each kind, small enough to try every payload.                  *)
(***************************************************************************)
EXTENDS Integers, Sequences, FiniteSets

CONSTANTS
    Units,      \* values of a unit
    MaxSize,    \* [CANVIEW_MAX_PAYLOAD_SIZE] longest payload
    Critical    \* types from here on carry TLV_CRITICAL_BIT

VARIABLES kind, payload

vars == <<kind, payload>>

\* canview_espnow_message_contract_t: one contract of each payload_kind, and
\* the suffix of COMMAND_REQUEST, which is made of TLVs.
contract ==
    [FIXED      |-> [min |-> 3, max |-> 3, prefix |-> 3],
     BOUNDED    |-> [min |-> 1, max |-> 5, prefix |-> 1, record |-> 2, count |-> 2],
     SUFFIX     |-> [min |-> 2, max |-> 5, prefix |-> 2, length |-> 1],
     SUFFIX_TLV |-> [min |-> 2, max |-> 6, prefix |-> 2, length |-> 1],
     TLV        |-> [min |-> 1, max |-> 6, prefix |-> 1],
     VARIANTS   |-> [min |-> 1, max |-> 3, prefix |-> 0, sizes |-> <<1, 3, 3>>]]

VARIABLE_SIZE == -1
NONE == -1

\* canview_espnow_tlv_contracts: those of a contract, by their type.
tlv_contracts ==
    [k \in DOMAIN contract |->
        CASE k = "TLV"        -> <<[size |-> 0, singleton |-> TRUE],
                                   [size |-> VARIABLE_SIZE, singleton |-> FALSE]>>
          [] k = "SUFFIX_TLV" -> <<[size |-> 1, singleton |-> TRUE]>>
          [] OTHER            -> <<>>]

\* canview_espnow_field_constraints: in region 1 a rule holds for each record,
\* stride apart; a mask is the set of the bits it allows.
field_constraints ==
    LET Rule(k, variant, region, stride, offset, test) ==
          [kind |-> k, variant |-> variant, region |-> region, stride |-> stride,
           offset |-> offset, test |-> test]
    IN  {Rule("FIXED", NONE, 0, 0, 0, [is |-> "RESERVED"]),
         Rule("FIXED", NONE, 0, 0, 1, [is |-> "ENUM", allowed |-> {1, 4}]),
         Rule("FIXED", 0, 0, 0, 2, [is |-> "RANGE", minimum |-> 1, maximum |-> 3]),
         Rule("BOUNDED", NONE, 1, 2, 1, [is |-> "ENUM", allowed |-> {0, 1}]),
         Rule("BOUNDED", NONE, 1, 2, 0, [is |-> "BITMASK", mask |-> {0, 1}]),
         Rule("SUFFIX_TLV", NONE, 0, 0, 0, [is |-> "ENUM", allowed |-> {1, 2}]),
         Rule("VARIANTS", NONE, 0, 0, 0, [is |-> "BITMASK", mask |-> {0, 2}]),
         Rule("VARIANTS", 1, 0, 0, 1, [is |-> "RANGE", minimum |-> 2, maximum |-> 3]),
         Rule("VARIANTS", 2, 0, 0, 2, [is |-> "RESERVED"])}

HEADER == 2
Size   == Len(payload)
At(offset) == payload[offset + 1]

-----------------------------------------------------------------------------
\* Mutant: the first field is not looked at.
tlv_singleton_seen_Skips(first, current, type) ==
    LET seen[o \in Nat] ==
          /\ current - o >= HEADER
          /\ \/ At(o) = type /\ o # first
             \/ seen[o + HEADER + At(o + 1)]
    IN  seen[first]

\* tlv_singleton_seen: an earlier field of this type.
tlv_singleton_seen(first, current, type) ==
    LET seen[o \in Nat] ==
          /\ current - o >= HEADER
          /\ \/ At(o) = type
             \/ seen[o + HEADER + At(o + 1)]
    IN  seen[first]

\* valid_tlv_payload
valid_tlv_payload ==
    LET first == contract[kind].prefix
        walk[o \in Nat] ==
          \/ o = Size
          \/ /\ Size - o >= HEADER
             /\ At(o + 1) <= Size - o - HEADER
             /\ LET type == At(o)
                    length == At(o + 1)
                    known == type \in DOMAIN tlv_contracts[kind]
                IN  /\ ~known => type < Critical
                    /\ known =>
                         /\ tlv_contracts[kind][type].size \in {VARIABLE_SIZE, length}
                         /\ tlv_contracts[kind][type].singleton
                              => ~tlv_singleton_seen(first, o, type)
                    /\ walk[o + HEADER + length]
    IN  Size >= first /\ walk[first]

\* contract_variant: the variants a payload of this size may be of, when the
\* caller asks for one (NONE when decoding).  Only a single one is taken.
contract_variant(requested) ==
    IF kind = "VARIANTS"
    THEN {v \in 0 .. Len(contract.VARIANTS.sizes) - 1 :
            contract.VARIANTS.sizes[v + 1] = Size /\ requested \in {NONE, v}}
    ELSE {v \in {0} : requested \in {NONE, 0} /\ Size \in contract[kind].min .. contract[kind].max}

\* validate_payload_shape
validate_payload_shape(variant) ==
    LET c == contract[kind]
    IN  /\ Size \in c.min .. c.max /\ Size <= MaxSize
        /\ CASE kind = "FIXED"    -> Size = c.min
             [] kind = "BOUNDED"  -> At(0) <= c.count /\ c.prefix + At(0) * c.record = Size
             [] kind \in {"SUFFIX", "SUFFIX_TLV"} ->
                  /\ At(c.length) = Size - c.prefix
                  /\ tlv_contracts[kind] = <<>> \/ valid_tlv_payload
             [] kind = "TLV"      -> valid_tlv_payload
             [] kind = "VARIANTS" ->
                  variant < Len(c.sizes) /\ Size = c.sizes[variant + 1]

\* The test of a field: RESERVED, ENUM, BITMASK `(value & ~mask) == 0` and
\* RANGE.
Allows(test, value) ==
    CASE test.is = "RESERVED" -> value = 0
      [] test.is = "ENUM"     -> value \in test.allowed
      [] test.is = "BITMASK"  ->
           {bit \in 0 .. 2 : (value \div 2 ^ bit) % 2 = 1} \subseteq test.mask
      [] test.is = "RANGE"    -> value \in test.minimum .. test.maximum

\* validate_field_constraints: every rule of the message and the variant, for
\* each record in region 1; a field outside the payload is refused.
FieldsValid(variant) ==
    LET count == IF kind = "BOUNDED" THEN At(0) ELSE 0
    IN  \A rule \in {r \in field_constraints :
                       r.kind = kind /\ r.variant \in {NONE, variant}} :
          \A repetition \in 0 .. (IF rule.region = 0 THEN 1 ELSE count) - 1 :
             LET base == IF rule.region = 0 THEN 0
                         ELSE contract[kind].prefix + repetition * rule.stride
             IN  /\ base + rule.offset + 1 <= Size
                 /\ Allows(rule.test, At(base + rule.offset))

-----------------------------------------------------------------------------
\* What a tag covers.  Messages of the model: a command is two units of
\* prefix, the second the length of its argument, the tag, the argument; a
\* lease request two units and the tag; a pairing message has two fields.
TAG == 2
Messages ==
    LET Command == {p \in UNION {[1 .. n -> {0, 1}] : n \in 3 .. 4} :
                      Len(p) = 3 + p[2]}
        Others  == [1 .. 3 -> {0, 1}]
    IN  [session : {1, 2}, payload : Command, type : {"COMMAND_REQUEST"}]
          \cup [session : {1, 2}, payload : Others,
                type : {"LEASE_REQUEST", "PAIR_CHALLENGE", "PAIR_CONFIRM"}]

\* Mutant: the session is not part of what is signed.
control_canonical_NoSession(m) ==
    <<"CONTROL", m.type, Len(m.payload)>> \o SubSeq(m.payload, 1, TAG)
      \o SubSeq(m.payload, TAG + 2, Len(m.payload))

\* control_canonical_encode: everything but the tag.
control_canonical(m) ==
    <<"CONTROL", m.type, m.session, Len(m.payload)>> \o SubSeq(m.payload, 1, TAG)
      \o SubSeq(m.payload, TAG + 2, Len(m.payload))

\* canview_pairing_transcript_encode: a domain per type, each field with its
\* length.
pairing_transcript(m) ==
    <<m.type, 1, m.payload[1], 1, m.payload[2]>>

Canonical(m) ==
    IF m.type \in {"PAIR_CHALLENGE", "PAIR_CONFIRM"}
    THEN pairing_transcript(m) ELSE control_canonical(m)

Signed(m) ==
    [type |-> m.type, covered |-> [i \in DOMAIN m.payload \ {TAG + 1} |-> m.payload[i]],
     session |-> IF m.type \in {"PAIR_CHALLENGE", "PAIR_CONFIRM"} THEN 0
                 ELSE m.session]

-----------------------------------------------------------------------------
\* contract_variant, then the parts of validate_payload_semantics that look at
\* the payload alone.
Accepts(requested) ==
    \E variant \in contract_variant(requested) :
        /\ contract_variant(requested) = {variant}
        /\ validate_payload_shape(variant)
        /\ FieldsValid(variant)

Init == kind \in DOMAIN contract /\ payload = <<>>

Grow(u) == Size < MaxSize /\ payload' = Append(payload, u) /\ UNCHANGED kind

Next == \E u \in Units : Grow(u)

Spec == Init /\ [][Next]_vars

-----------------------------------------------------------------------------
\* The TLVs of a payload: the ways to cut it from `first` into fields whose
\* second unit is the length of what follows.
Cuts(first) ==
    {C \in SUBSET (first .. Size) :
        /\ {first, Size} \subseteq C
        /\ \A a \in C \ {Size} : \E b \in C :
              /\ b >= a + HEADER /\ b = a + HEADER + At(a + 1)
              /\ \A x \in C : x <= a \/ x >= b}

\* The payload from `first` on is a row of TLVs of the form `known` describes.
MadeOfTlvs(first, known) ==
    \E C \in Cuts(first) :
        LET fields == C \ {Size}
        IN  /\ \A a \in fields :
                 /\ At(a) >= Critical => At(a) \in DOMAIN known
                 /\ At(a) \in DOMAIN known => At(a + 1) \in known[At(a)].lengths
            /\ \A t \in DOMAIN known :
                 known[t].once => Cardinality({a \in fields : At(a) = t}) <= 1

\* A payload of one of the six contracts is accepted exactly if it is made of
\* what its contract says, its units counted from 1 as on the wire: whole
\* fields up to the last unit; known TLVs of their size, no unknown critical
\* one, no singleton twice; as many records as counted, each with valid
\* fields; a suffix as long as announced and, where the contract has TLVs,
\* made of them; and the variant asked for, or, in decoding, the only one of
\* that size.
AcceptsExactly ==
    \A requested \in -1 .. 3 :
        Accepts(requested) <=>
          CASE kind = "VARIANTS" ->
                 \/ /\ requested \in {-1, 0} /\ Size = 1 /\ payload[1] \in {0, 1, 4}
                 \/ /\ requested = 1 /\ Size = 3
                    /\ payload[1] \in {0, 1, 4} /\ payload[2] \in {2, 3}
                 \/ /\ requested = 2 /\ Size = 3
                    /\ payload[1] \in {0, 1, 4} /\ payload[3] = 0
            [] kind # "VARIANTS" /\ requested \notin {-1, 0} -> FALSE
            [] kind = "FIXED" /\ requested \in {-1, 0} ->
                 Size = 3 /\ payload \in {0} \X {1, 4} \X {1, 2, 3}
            [] kind = "SUFFIX" /\ requested \in {-1, 0} ->
                 Size \in 2 .. 5 /\ payload[2] = Size - 2
            [] kind = "SUFFIX_TLV" /\ requested \in {-1, 0} ->
                 /\ Size \in 2 .. 6 /\ payload[1] \in {1, 2} /\ payload[2] = Size - 2
                 /\ MadeOfTlvs(2, <<[lengths |-> {1}, once |-> TRUE]>>)
            [] kind = "BOUNDED" /\ requested \in {-1, 0} ->
                 \E n \in 0 .. 2 :
                    /\ Size = 1 + 2 * n /\ payload[1] = n
                    /\ \A r \in 1 .. n :
                         payload[2 * r] \in 0 .. 3 /\ payload[1 + 2 * r] \in {0, 1}
            [] kind = "TLV" /\ requested \in {-1, 0} ->
                 /\ Size \in 1 .. 6
                 /\ MadeOfTlvs(1, <<[lengths |-> {0}, once |-> TRUE],
                                    [lengths |-> Nat, once |-> FALSE]>>)

\* This message and another have the same canonical bytes only if they agree in type,
\* session and every unit outside the tag: no other message has its tag.
CanonicalIsInjective ==
    \A m \in {x \in Messages : x.payload = payload}, n \in Messages :
        Canonical(m) = Canonical(n) => Signed(m) = Signed(n)
=============================================================================
