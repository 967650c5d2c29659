------------------------------ MODULE Messages ------------------------------
(***************************************************************************)
(* The payloads of the rack protocol: what each message's encoder writes,  *)
(* what its decoder reads, and the two sides of the codec.                 *)
(*                                                                         *)
(* A payload is a sequence of cells, one for each call of the writer that  *)
(* puts something down.  A cell has the width it was written with, a       *)
(* number (a presence flag or a count) and the value it carries: the path  *)
(* of the field it was written for, and the boot of the message.  A field  *)
(* read in another place or with another width than it was written is then *)
(* told apart from the right one; of the text itself nothing is kept.      *)
(*                                                                         *)
(* Encoders and decoders are separate pieces of code, so each has its own  *)
(* list of fields here.  A field is <<width, name>>; <<"group", name,      *)
(* fields>> is a record, <<"opt", name, fields>> a flag byte and, when it  *)
(* is 1, the fields, and <<"many", name, fields>> a count and that many    *)
(* items.  Booleans and enumerations are u8, signed and floating numbers   *)
(* u64, as the writer stores them.                                         *)
(***************************************************************************)
EXTENDS Integers, Sequences, SequencesExt

all(width, names) == [i \in DOMAIN names |-> <<width, names[i]>>]

optional_string(name) == <<"opt", name, << <<"string", "text">> >> >>

optional_u64(name) == <<"opt", name, << <<"u64", "value">> >> >>

-----------------------------------------------------------------------------
(* Parts shared by several messages, as written and as read *)

write_member_key == << <<"u8", "kind">>, <<"string", "id">> >>

read_member_key == << <<"u8", "kind">>, <<"string", "id">> >>

write_generation_set ==
    all("u64", <<"rack", "membership", "topology", "failure_domains", "constraints",
                 "power", "cooling", "health", "capabilities", "coordinator_epoch">>)

read_generation_set ==
    all("u64", <<"rack", "membership", "topology", "failure_domains", "constraints",
                 "power", "cooling", "health", "capabilities", "coordinator_epoch">>)

write_authority ==
    <<"group", "authority",
      << <<"u64", "coordinator_epoch">>, optional_string("boot"),
         optional_u64("publication_generation"), optional_string("rack") >> >>

read_authority ==
    <<"group", "authority",
      << <<"u64", "coordinator_epoch">>, optional_string("boot"),
         optional_u64("publication_generation"), optional_string("rack") >> >>

write_evidence_header ==
    << <<"u8", "provenance">>, <<"u64", "observed_at">>, <<"u64", "ttl">>, <<"u8", "durability">> >>

read_evidence_header ==
    << <<"u8", "provenance">>, <<"u64", "observed_at">>, <<"u64", "ttl">>, <<"u8", "durability">> >>

write_quantity ==
    << <<"u64", "value">>, <<"u8", "unit">>, optional_u64("uncertainty") >> \o write_evidence_header

read_quantity ==
    << <<"u64", "value">>, <<"u8", "unit">>, optional_u64("uncertainty") >> \o read_evidence_header

\* A value with its evidence: health, readiness, reachability, throttling.
written_value == Append(write_evidence_header, <<"u8", "value">>)

read_value == Append(read_evidence_header, <<"u8", "value">>)

-----------------------------------------------------------------------------
(* The messages *)

encode_Hello == << <<"u16", "protocol_version">>, <<"u64", "coordinator_epoch">>,
                   <<"string", "agent_version">> >>

decode_Hello == << <<"u16", "protocol_version">>, <<"u64", "coordinator_epoch">>,
                   <<"string", "agent_version">> >>

encode_HelloAck == << <<"u16", "protocol_version">>, <<"u64", "coordinator_epoch">>,
                      <<"string", "coordinator_version">>, optional_string("rack"),
                      <<"u8", "accepts_mutations">> >>

decode_HelloAck == << <<"u16", "protocol_version">>, <<"u64", "coordinator_epoch">>,
                      <<"string", "coordinator_version">>, optional_string("rack"),
                      <<"u8", "accepts_mutations">> >>

encode_Register == << optional_string("rack"), optional_string("worker"), optional_string("boot"),
                      <<"u64", "coordinator_epoch">>, optional_string("label") >>

decode_Register == << optional_string("rack"), optional_string("worker"), optional_string("boot"),
                      <<"u64", "coordinator_epoch">>, optional_string("label") >>

encode_RegisterAck == << <<"u8", "accepted">>, <<"u64", "coordinator_epoch">>,
                         <<"group", "generations", write_generation_set>>,
                         <<"u64", "publication_generation">> >>

decode_RegisterAck == << <<"u8", "accepted">>, <<"u64", "coordinator_epoch">>,
                         <<"group", "generations", read_generation_set>>,
                         <<"u64", "publication_generation">> >>

encode_DeclareRack == << write_authority, <<"string", "epoch">>, optional_string("label"),
                         <<"u8", "redeclare">> >>

decode_DeclareRack == << read_authority, <<"string", "epoch">>, optional_string("label"),
                         <<"u8", "redeclare">> >>

\* The member's details are a canonical sub-payload, one cell here.
encode_PublishMember ==
    << write_authority, <<"u8", "kind">>, <<"string", "id">>, <<"u8", "lifecycle">>,
       <<"u64", "generation">>, <<"group", "evidence", write_evidence_header>>,
       <<"opt", "parent", write_member_key>>,
       <<"many", "failure_domains", << <<"string", "id">> >> >>,
       optional_string("power_domain"), optional_string("cooling_domain"),
       optional_string("switch_domain"), <<"bytes", "details">>,
       <<"many", "capabilities",
         <<<<"string", "id">>>> \o write_evidence_header \o <<optional_string("value")>> >>,
       <<"group", "health", written_value>>, <<"group", "readiness", written_value>>,
       <<"group", "reachability", written_value>>, optional_string("source"),
       optional_u64("expected_generation"), <<"u8", "supersede">> >>

decode_PublishMember ==
    << read_authority, <<"u8", "kind">>, <<"string", "id">>, <<"u8", "lifecycle">>,
       <<"u64", "generation">>, <<"group", "evidence", read_evidence_header>>,
       <<"opt", "parent", read_member_key>>,
       <<"many", "failure_domains", << <<"string", "id">> >> >>,
       optional_string("power_domain"), optional_string("cooling_domain"),
       optional_string("switch_domain"), <<"bytes", "details">>,
       <<"many", "capabilities",
         <<<<"string", "id">>>> \o read_evidence_header \o <<optional_string("value")>> >>,
       <<"group", "health", read_value>>, <<"group", "readiness", read_value>>,
       <<"group", "reachability", read_value>>, optional_string("source"),
       optional_u64("expected_generation"), <<"u8", "supersede">> >>

encode_PublishLink ==
    << write_authority, <<"u8", "cls">>, <<"group", "from", write_member_key>>,
       <<"group", "to", write_member_key>>, <<"group", "evidence", write_evidence_header>>,
       optional_string("link"), <<"opt", "capacity", write_quantity>>, optional_string("source"),
       optional_u64("expected_generation"), <<"u8", "supersede">> >>

decode_PublishLink ==
    << read_authority, <<"u8", "cls">>, <<"group", "from", read_member_key>>,
       <<"group", "to", read_member_key>>, <<"group", "evidence", read_evidence_header>>,
       optional_string("link"), <<"opt", "capacity", read_quantity>>, optional_string("source"),
       optional_u64("expected_generation"), <<"u8", "supersede">> >>

encode_PublishFailureDomain ==
    << write_authority, <<"string", "id">>, <<"u8", "kind">>, <<"u8", "lifecycle">>,
       <<"many", "parents", << <<"string", "id">> >> >>,
       <<"group", "evidence", write_evidence_header>>, optional_string("label"),
       optional_string("source"), optional_u64("expected_generation"), <<"u8", "supersede">> >>

decode_PublishFailureDomain ==
    << read_authority, <<"string", "id">>, <<"u8", "kind">>, <<"u8", "lifecycle">>,
       <<"many", "parents", << <<"string", "id">> >> >>,
       <<"group", "evidence", read_evidence_header>>, optional_string("label"),
       optional_string("source"), optional_u64("expected_generation"), <<"u8", "supersede">> >>

encode_PublishPower ==
    << write_authority, <<"opt", "rack_limit", write_quantity>>,
       <<"opt", "rack_observed_draw", write_quantity>>,
       <<"many", "domain_budgets",
         << <<"string", "domain">>, <<"opt", "limit", write_quantity>>,
            <<"opt", "observed_draw", write_quantity>> >> >>,
       <<"group", "evidence", write_evidence_header>>, optional_string("source"),
       optional_u64("expected_generation"), <<"u8", "supersede">> >>

decode_PublishPower ==
    << read_authority, <<"opt", "rack_limit", read_quantity>>,
       <<"opt", "rack_observed_draw", read_quantity>>,
       <<"many", "domain_budgets",
         << <<"string", "domain">>, <<"opt", "limit", read_quantity>>,
            <<"opt", "observed_draw", read_quantity>> >> >>,
       <<"group", "evidence", read_evidence_header>>, optional_string("source"),
       optional_u64("expected_generation"), <<"u8", "supersede">> >>

encode_PublishCooling ==
    << write_authority,
       <<"many", "zones",
         << <<"string", "zone">>, <<"opt", "design_thermal_limit", write_quantity>>,
            <<"opt", "observed_temperature", write_quantity>>,
            <<"opt", "cooling_capacity", write_quantity>>,
            <<"opt", "throttling", written_value>> >> >>,
       <<"group", "evidence", write_evidence_header>>, optional_string("source"),
       optional_u64("expected_generation"), <<"u8", "supersede">> >>

decode_PublishCooling ==
    << read_authority,
       <<"many", "zones",
         << <<"string", "zone">>, <<"opt", "design_thermal_limit", read_quantity>>,
            <<"opt", "observed_temperature", read_quantity>>,
            <<"opt", "cooling_capacity", read_quantity>>,
            <<"opt", "throttling", read_value>> >> >>,
       <<"group", "evidence", read_evidence_header>>, optional_string("source"),
       optional_u64("expected_generation"), <<"u8", "supersede">> >>

encode_PublishHealth ==
    << write_authority, <<"group", "member", write_member_key>>,
       <<"group", "health", written_value>>, <<"u8", "publish_readiness">>,
       <<"group", "readiness", written_value>>, optional_u64("expected_generation") >>

decode_PublishHealth ==
    << read_authority, <<"group", "member", read_member_key>>,
       <<"group", "health", read_value>>, <<"u8", "publish_readiness">>,
       <<"group", "readiness", read_value>>, optional_u64("expected_generation") >>

encode_PublishCapability ==
    << write_authority, <<"group", "member", write_member_key>>, <<"string", "capability">>,
       <<"group", "evidence", write_evidence_header>>, optional_string("value"),
       optional_u64("expected_generation") >>

decode_PublishCapability ==
    << read_authority, <<"group", "member", read_member_key>>, <<"string", "capability">>,
       <<"group", "evidence", read_evidence_header>>, optional_string("value"),
       optional_u64("expected_generation") >>

encode_Withdraw == << write_authority, <<"group", "member", write_member_key>>, <<"u8", "scope">>,
                      optional_u64("expected_generation") >>

decode_Withdraw == << read_authority, <<"group", "member", read_member_key>>, <<"u8", "scope">>,
                      optional_u64("expected_generation") >>

encode_RetireMember == << write_authority, <<"group", "member", write_member_key>>,
                          optional_u64("expected_generation") >>

decode_RetireMember == << read_authority, <<"group", "member", read_member_key>>,
                          optional_u64("expected_generation") >>

encode_Revalidate == << write_authority, <<"u8", "all">>, <<"many", "members", write_member_key>> >>

decode_Revalidate == << read_authority, <<"u8", "all">>, <<"many", "members", read_member_key>> >>

encode_Heartbeat == << write_authority, <<"u64", "publication_generation">> >>

decode_Heartbeat == << read_authority, <<"u64", "publication_generation">> >>

encode_Query == << <<"u16", "query_kind">>, <<"opt", "member", write_member_key>>,
                   optional_string("failure_domain") >>

decode_Query == << <<"u16", "query_kind">>, <<"opt", "member", read_member_key>>,
                   optional_string("failure_domain") >>

encode_SnapshotRequest == << write_authority, <<"u8", "create">> >>

decode_SnapshotRequest == << read_authority, <<"u8", "create">> >>

encode_Result == << <<"u8", "accepted">>, <<"u16", "outcome">>,
                    <<"group", "generations", write_generation_set>>,
                    <<"string", "code">>, <<"string", "detail">> >>

decode_Result == << <<"u8", "accepted">>, <<"u16", "outcome">>,
                    <<"group", "generations", read_generation_set>>,
                    <<"string", "code">>, <<"string", "detail">> >>

encode_Error == << <<"u16", "error">>, <<"string", "detail">> >>

decode_Error == << <<"u16", "error">>, <<"string", "detail">> >>

\* The answer to a snapshot request has no decoder in the repository.
encode_snapshot_payload ==
    << <<"string", "id">>, <<"u64", "generation">>, <<"u64", "publication_generation">>,
       <<"u64", "created_at">>, <<"string", "rack">>, <<"string", "rack_epoch">>,
       <<"group", "generations", write_generation_set>>, <<"u8", "lifecycle">>,
       <<"string", "digest">> >>

Encoders ==
    [Hello |-> encode_Hello, HelloAck |-> encode_HelloAck, Register |-> encode_Register,
     RegisterAck |-> encode_RegisterAck, DeclareRack |-> encode_DeclareRack,
     PublishNode |-> encode_PublishMember, PublishDevice |-> encode_PublishMember,
     PublishLink |-> encode_PublishLink, PublishFailureDomain |-> encode_PublishFailureDomain,
     PublishPower |-> encode_PublishPower, PublishCooling |-> encode_PublishCooling,
     PublishHealth |-> encode_PublishHealth, PublishCapability |-> encode_PublishCapability,
     Withdraw |-> encode_Withdraw, RetireMember |-> encode_RetireMember,
     Revalidate |-> encode_Revalidate, Heartbeat |-> encode_Heartbeat, Query |-> encode_Query,
     SnapshotRequest |-> encode_SnapshotRequest, SnapshotResponse |-> encode_snapshot_payload,
     Result |-> encode_Result, Error |-> encode_Error]

Decoders ==
    [Hello |-> decode_Hello, HelloAck |-> decode_HelloAck, Register |-> decode_Register,
     RegisterAck |-> decode_RegisterAck, DeclareRack |-> decode_DeclareRack,
     PublishNode |-> decode_PublishMember, PublishDevice |-> decode_PublishMember,
     PublishLink |-> decode_PublishLink, PublishFailureDomain |-> decode_PublishFailureDomain,
     PublishPower |-> decode_PublishPower, PublishCooling |-> decode_PublishCooling,
     PublishHealth |-> decode_PublishHealth, PublishCapability |-> decode_PublishCapability,
     Withdraw |-> decode_Withdraw, RetireMember |-> decode_RetireMember,
     Revalidate |-> decode_Revalidate, Heartbeat |-> decode_Heartbeat, Query |-> decode_Query,
     SnapshotRequest |-> decode_SnapshotRequest, Result |-> decode_Result, Error |-> decode_Error]

DecodableType == DOMAIN Decoders

-----------------------------------------------------------------------------
(* The codec *)

\* A message is its type, the optional fields it has (collections that are not
\* empty among them), the items in these collections, and the boot it names.
Cell(width, num, value) == [width |-> width, num |-> num, value |-> value]

RECURSIVE Repeated(_, _)
Repeated(fields, n) == IF n = 0 THEN <<>> ELSE fields \o Repeated(fields, n - 1)

\* PayloadWriter: the cells of the fields, in the order they are written.
RECURSIVE write_fields(_, _, _)
write_fields(fields, path, message) ==
    LET Written(f) ==
            LET at == Append(path, f[2])
                there == at \in message.present
            IN  CASE f[1] = "group" -> write_fields(f[3], at, message)
                  [] f[1] = "opt" ->
                       IF there THEN <<Cell("u8", 1, <<>>)>> \o write_fields(f[3], at, message)
                       ELSE <<Cell("u8", 0, <<>>)>>
                  [] f[1] = "many" ->
                       IF there THEN <<Cell("u32", message.items, <<>>)>>
                                     \o write_fields(Repeated(f[3], message.items), at, message)
                       ELSE <<Cell("u32", 0, <<>>)>>
                  [] OTHER -> <<Cell(f[1], 0, Append(at, message.boot))>>
    IN  IF fields = <<>> THEN <<>>
        ELSE Written(Head(fields)) \o write_fields(Tail(fields), path, message)

encode(message) == write_fields(Encoders[message.type], <<>>, message)

The(S) == CHOOSE x \in S : TRUE

\* PayloadReader: what is left of the payload, the fields got so far, and whether
\* nothing has failed.  need() refuses to read past the end, collection_size a
\* count above the limit or above what is left.  Bytes read with another width
\* than they were written count as refused, whatever they would have given.
RECURSIVE read_fields(_, _, _, _)
read_fields(fields, path, reader, limit) ==
    LET Failed(r) == [r EXCEPT !.ok = FALSE]
        Taken(r) == [r EXCEPT !.rest = Tail(@)]
        Got(r, at) == [Taken(r) EXCEPT !.got = @ \cup {<<at, Head(r.rest).value>>}]
        ReadField(r, f) ==
            LET at == Append(path, f[2]) IN
            IF ~r.ok \/ r.rest = <<>> THEN Failed(r)
            ELSE LET cell == Head(r.rest) IN
                 CASE f[1] = "group" -> read_fields(f[3], at, r, limit)
                   [] f[1] = "opt" /\ cell.width = "u8" ->
                        IF cell.num = 1 THEN read_fields(f[3], at, Taken(r), limit) ELSE Taken(r)
                   [] f[1] = "many" /\ cell.width = "u32" ->
                        IF cell.num > limit \/ cell.num > Len(r.rest) - 1 THEN Failed(r)
                        ELSE read_fields(Repeated(f[3], cell.num), at, Taken(r), limit)
                   [] f[1] = cell.width -> Got(r, at)
                   [] OTHER -> Failed(r)
    IN  IF fields = <<>> THEN reader
        ELSE The({read_fields(Tail(fields), path, r, limit) : r \in {ReadField(reader, Head(fields))}})

\* MessageCodec::decode, under the reader's limit on collections.  Nothing may
\* be left over.
decode(type, payload, limit) ==
    LET reader == read_fields(Decoders[type], <<>>, [rest |-> payload, got |-> {}, ok |-> TRUE], limit)
    IN  [ok |-> reader.ok /\ reader.rest = <<>>, fields |-> reader.got]

\* What a message says, read off its own cells: each field has the value that
\* was written for it.
Said(message) ==
    {<<Front(c.value), c.value>> : c \in {d \in Range(encode(message)) : d.value # <<>>}}

\* Whether a limit on collections admits the message.
Fits(message, limit) ==
    \/ message.items <= limit
    \/ \A i \in DOMAIN Encoders[message.type] :
          LET f == Encoders[message.type][i]
          IN  f[1] = "many" => <<f[2]>> \notin message.present

\* The optional fields and collections of a message type.
RECURSIVE optional_paths(_, _)
optional_paths(fields, path) ==
    UNION {LET at == Append(path, fields[i][2])
               inner == IF Len(fields[i]) = 3 THEN optional_paths(fields[i][3], at) ELSE {}
           IN  IF fields[i][1] \in {"opt", "many"} THEN {at} \cup inner ELSE inner
           : i \in DOMAIN fields}
=============================================================================
