------------------------------- MODULE Codec --------------------------------
(***************************************************************************)
(* The binary codec of src/src/local/codec.rs over the layouts of          *)
(* CodecTables: what encode_row writes for a value and what decode_row     *)
(* makes of bytes, whole or damaged.                                       *)
(*                                                                         *)
(* A scalar is a number.  A struct or an enum value is a record            *)
(* [arm, of] of its arm and its fields' values.  An option is a sequence   *)
(* of at most one value; a vector, a string and a map in key order are     *)
(* sequences (a map's of pairs).  Bytes are numbers below 256.             *)
(***************************************************************************)
EXTENDS CodecTables, SequencesExt

CONSTANTS MaxCollection,   \* MAX_DURABLE_COLLECTION_LEN, scaled down from 1,000,000
          MaxString        \* MAX_DURABLE_STRING_LEN, scaled down from 1,048,576

ASSUME LimitsAssumption == MaxCollection \in Nat \ {0} /\ MaxString \in Nat \ {0}

-------------------------------------------------------------------------------
(* Encoding. *)

\* put_u8 .. put_u128: the low bytes of a number, the most significant first.
BigEndian(n, width) ==
    [i \in 1 .. width |-> IF width - i > 2 THEN 0 ELSE (n \div 256 ^ (width - i)) % 256]

ArmNamed(arms, name) == arms[CHOOSE i \in DOMAIN arms : arms[i].arm = name]

\* The names and the types of the fields of an arm of In.
Names(fields) == [i \in 1 .. Len(fields) \div 2 |-> fields[2 * i - 1]]

Types(fields) == [i \in 1 .. Len(fields) \div 2 |-> fields[2 * i]]

\* What is put in front of the parts of a container (an option's tag or a length), and the
\* parts in the order they are put, each with its type.
BoxParts(box, v) ==
    LET item(x) == [type |-> box.of, val |-> x]
        pair(x) == <<[type |-> box.key, val |-> x[1]], item(x[2])>>
    IN  [lead  |-> IF box.kind = "Option" THEN <<Len(v)>> ELSE BigEndian(Len(v), 8),
         parts |-> IF box.kind = "Map" THEN FlattenSeq([i \in DOMAIN v |-> pair(v[i])])
                   ELSE [i \in DOMAIN v |-> item(v[i])]]

\* The same for an arm of a struct or an enum: out puts its fields by name, and each field is
\* encoded by its own type, which the declaration gives it (read off the In table).
ArmParts(out, in, v) ==
    LET names == Names(in.fields)
        type(f) == Types(in.fields)[CHOOSE i \in DOMAIN names : names[i] = f]
    IN  [lead  |-> IF out.tag = 0 THEN <<>> ELSE <<out.tag>>,
         parts |-> [i \in DOMAIN out.fields |->
                       [type |-> type(out.fields[i]), val |-> v.of[out.fields[i]]]]]

RECURSIVE Encode(_, _)

Encode(type, v) ==
    IF type \in DOMAIN Width THEN BigEndian(v, Width[type])
    ELSE LET put == IF type \in DOMAIN Container THEN BoxParts(Container[type], v)
                    ELSE ArmParts(ArmNamed(Out[type], v.arm), ArmNamed(In[type], v.arm), v)
         IN  put.lead \o FlattenSeq([i \in DOMAIN put.parts |->
                                        Encode(put.parts[i].type, put.parts[i].val)])

\* encode_row.
EncodeRow(type, v) == Encode(type, v)

-------------------------------------------------------------------------------
(* Decoding.  A decoder that has read up to pos either goes on with a value *)
(* and a new position or fails; nothing is read after a failure.            *)

Fail == [ok |-> FALSE, val |-> 0, pos |-> 0]

Got(val, pos) == [ok |-> TRUE, val |-> val, pos |-> pos]

\* A number too large for any value of the model: the decoders only compare it with a limit.
Huge == 2 ^ 24

\* take and u8 .. u128.
Number(bytes, pos, width) ==
    LET end     == pos + width
        byte(i) == IF i < width THEN bytes[end - i] * 256 ^ i ELSE 0
        wide    == \E i \in pos + 1 .. end - 3 : bytes[i] # 0
    IN  IF end > Len(bytes) THEN Fail
        ELSE Got(IF wide THEN Huge ELSE byte(0) + byte(1) + byte(2), end)

Limit(kind) == IF kind = "String" THEN MaxString ELSE MaxCollection

Refused == [ok |-> FALSE, pos |-> 0, names |-> <<>>, types |-> <<>>, arm |-> ""]

\* The tag or the length a container starts with, and the types of what then follows.
OpenBox(box, bytes, pos) ==
    LET lead == Number(bytes, pos, IF box.kind = "Option" THEN 1 ELSE 8)
        most == IF box.kind = "Option" THEN 1 ELSE Limit(box.kind)
        unit == IF box.kind = "Map" THEN <<box.key, box.of>> ELSE <<box.of>>
    IN  IF lead.ok /\ lead.val <= most
        THEN [Refused EXCEPT !.ok = TRUE, !.pos = lead.pos, !.arm = box.kind,
                             !.types = FlattenSeq([i \in 1 .. lead.val |-> unit])]
        ELSE Refused

\* The arm that the tag of a struct or an enum selects.
OpenArm(arms, bytes, pos) ==
    LET tag   == IF arms[1].tag # 0 THEN Number(bytes, pos, 1) ELSE Got(0, pos)
        match == {i \in DOMAIN arms : arms[i].tag = tag.val}
        arm   == arms[CHOOSE i \in match : TRUE]
    IN  IF tag.ok /\ match # {}
        THEN [ok |-> TRUE, pos |-> tag.pos, arm |-> arm.arm,
              names |-> Names(arm.fields), types |-> Types(arm.fields)]
        ELSE Refused

\* native_metadata_delta_high_water, and the check NativeMetadataDeltaCommit::decode makes with it.
Agrees(commit) ==
    LET delta == commit["delta"].of
        high  == delta["cursor"].of["next_commit_seq"] - 1
        seqs(commits) == {commits[i].of["commit_seq"] : i \in DOMAIN commits}
    IN  /\ high >= 0
        /\ \A s \in seqs(delta["keyspace_commits"]) \cup seqs(delta["file_commits"]) : s <= high
        /\ commit["commit_seq"] = high

Accepted(type, of) == type = "NativeMetadataDeltaCommit" => Agrees(of)

\* A map's decode fails on a key it already has.
CloseBox(kind, vals, pos) ==
    LET keys  == {vals[2 * i - 1] : i \in 1 .. Len(vals) \div 2}
        pairs == [i \in 1 .. Len(vals) \div 2 |-> <<vals[2 * i - 1], vals[2 * i]>>]
    IN  IF kind # "Map" THEN Got(vals, pos)
        ELSE IF Cardinality(keys) = Len(pairs) THEN Got(pairs, pos) ELSE Fail

\* The value of an arm with these fields.
Built(arm, names, vals) ==
    [arm |-> arm,
     of  |-> [f \in ToSet(names) |-> vals[CHOOSE i \in DOMAIN names : names[i] = f]]]

CloseArm(type, open, vals, pos) ==
    LET value == Built(open.arm, open.names, vals)
    IN  IF Accepted(type, value.of) THEN Got(value, pos) ELSE Fail

RECURSIVE Decode(_, _, _)

RECURSIVE DecodeSpan(_, _, _, _, _)

\* Values of the types from lo to hi, one after the other (by halves: the recursion stays
\* shallow), behind the values of got.
DecodeSpan(types, lo, hi, bytes, got) ==
    IF ~got.ok \/ lo > hi THEN got
    ELSE IF lo < hi
    THEN LET mid == (lo + hi) \div 2
         IN  DecodeSpan(types, mid + 1, hi, bytes, DecodeSpan(types, lo, mid, bytes, got))
    ELSE LET item == Decode(types[lo], bytes, got.pos)
         IN  IF item.ok THEN Got(Append(got.val, item.val), item.pos) ELSE Fail

Decode(type, bytes, pos) ==
    IF type \in DOMAIN Width THEN Number(bytes, pos, Width[type])
    ELSE LET boxed == type \in DOMAIN Container
             open  == IF boxed THEN OpenBox(Container[type], bytes, pos)
                      ELSE OpenArm(In[type], bytes, pos)
             all   == DecodeSpan(open.types, 1, Len(open.types), bytes, Got(<<>>, open.pos))
         IN  IF ~open.ok \/ ~all.ok THEN Fail
             ELSE IF boxed THEN CloseBox(open.arm, all.val, all.pos)
             ELSE CloseArm(type, open, all.val, all.pos)

\* A fault of decode_row: the bytes behind the value are not looked at.
DecodeRowLax(type, bytes) == Decode(type, bytes, 0)

\* decode_row: the value must end where the bytes end.
DecodeRow(type, bytes) ==
    LET got == Decode(type, bytes, 0)
    IN  IF got.ok /\ got.pos = Len(bytes) THEN got ELSE Fail

-------------------------------------------------------------------------------
(* Values to store: for each arm of each type one value per shape, a shape  *)
(* being the length of its collections (those within them are empty: their  *)
(* types are put on their own); scalars beside each other differ.           *)

Seeded(seed, i) == (seed * 32 + i) % 65521

\* The commit sequences of a delta stay below the cursor's, as a provider's do.
Settled(type, of) ==
    IF type = "NativeMetadataDeltaCommit"
    THEN [of EXCEPT !["commit_seq"] = 65529,
                    !["delta"].of["cursor"].of["next_commit_seq"] = 65530]
    ELSE of

\* The elements of a container to sample; a map's keys are the positions.
SampleBox(box, shape) ==
    [i \in 1 .. IF box.kind = "Option" /\ shape > 1 THEN 1 ELSE shape |-> box.of]

RECURSIVE Sample(_, _, _, _)

\* A value of an arm of a type; below the top the seed says which arm ("" asks for that).
Sample(type, name, shape, seed) ==
    IF type \in DOMAIN Width THEN IF Width[type] = 1 THEN seed % 251 ELSE seed
    ELSE LET boxed == type \in DOMAIN Container
             box   == Container[type]
             arms  == In[type]
             arm   == IF name = "" THEN arms[(seed % Len(arms)) + 1] ELSE ArmNamed(arms, name)
             types == IF boxed THEN SampleBox(box, shape) ELSE Types(arm.fields)
             vals  == [i \in DOMAIN types |->
                          Sample(types[i], "", IF boxed THEN 0 ELSE shape, Seeded(seed, i))]
             value == Built(arm.arm, Names(arm.fields), vals)
         IN  IF ~boxed THEN [value EXCEPT !.of = Settled(type, @)]
             ELSE IF box.kind = "Map" THEN [i \in DOMAIN vals |-> <<i, vals[i]>>] ELSE vals

=============================================================================
