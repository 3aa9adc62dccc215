----------------------------- MODULE Admission -----------------------------
(***************************************************************************)
(* From a pipeline row to a running worker.  A row is written by the       *)
(* catalog API (pg-tide-ext/src/relay.rs) or by plain SQL; the relay's     *)
(* preflight parses it (config/schema_support.rs, config/preflight.rs),    *)
(* its secret references are resolved (config/mod.rs, secret.rs), and the  *)
(* source and sink factories read it (coordinator.rs, sink/*.rs).  The     *)
(* same rules are written down four more times: in the API, the published  *)
(* JSON schema, the descriptors, and pg-tide migrate-config.               *)
(*                                                                         *)
(* A row is flattened to a function from its fields to kinds of values:    *)
(*   "text"       a legal string         "blank"     a string of spaces    *)
(*   "reference"  ${env:..} or ${file:..}                                  *)
(*   "broken"     a string with another ${..}                              *)
(*   "malformed"  a destination with characters that it may not have       *)
(*   "number"     any value of a type the field does not have              *)
(*   "secure", "clear", "private", "embedded"   a URL with TLS, without,   *)
(*                to a private address, with a reference inside            *)
(*   "userinfo"   a URL with TLS that carries user info or a fragment      *)
(*   "unfit"      any text to the parser, but not to who uses it: a name   *)
(*                too long for PostgreSQL or with a quote in it, a         *)
(*                connection string with another sslmode than disable,     *)
(*                require, verify-ca and verify-full                       *)
(* A private address is a host that is_forbidden_hostname() knows without  *)
(* asking anybody; a connection string that is "clear" says                *)
(* sslmode=disable, every other fit one asks for TLS.                      *)
(* URLs are in lower case and reference names hold no brace; what a        *)
(* reference stands for is fit, and a connection string asks for TLS.  Of  *)
(* fields under one rule (the TLS files of Kafka, retry and dlq) one       *)
(* stands for all.                                                         *)
(***************************************************************************)
EXTENDS FiniteSets

CONSTANTS NoRow   \* no pipeline has the name

VARIABLES
    row,        \* the pipeline's row in tide.relay_outbox_config
    by,         \* who wrote it: the API or plain SQL
    secrets,    \* what the references name exists
    compiled,   \* the relay is built with every cargo feature, or with none
    stage       \* how far the relay has come with the row

vars == <<row, by, secrets, compiled, stage>>

-----------------------------------------------------------------------------
(* The connectors and their fields *)

SinkTypes == {"inbox", "pg_outbox", "nats", "kafka", "webhook", "stdout", "file"}

SUPPORTED_SINKS == SinkTypes          \* the API's list
MIGRATE_SINKS == SinkTypes            \* the list of migrate-config

\* The fields the code knows of, each with the kinds of values worth telling
\* apart.  Those of a sink are read from its section, the others stand beside it.
Text == {"absent", "text", "blank", "number", "reference", "broken"}
Flag == {"absent", "true", "false", "number"}
Sealed == {"absent", "text", "reference", "broken", "number"}
Choice == {"absent", "listed", "text", "number"}

Destination == Text \cup {"malformed"}
Address == {"absent", "text", "secure", "clear", "private", "embedded",
           "userinfo", "blank", "reference"}

Inbox == [inbox |-> Text \cup {"unfit"}, postgres_url |-> Text \cup {"clear", "unfit"}]
Sink ==
    [inbox |-> Inbox, pg_outbox |-> Inbox,
     nats |->
        [url |-> Address, allow_insecure |-> Flag, token |-> Sealed, username |-> Text,
         password |-> Sealed, credentials_file |-> Text, tls_client_cert |-> Text,
         tls_client_key |-> Text, subject |-> Destination, subject_template |-> Destination],
     kafka |->
        [brokers |-> Text, allow_insecure |-> Flag, sasl_password |-> Sealed,
         security_protocol |-> {"absent", "ssl", "plaintext", "text", "number"},
         ssl_ca_location |-> Text, sasl_mechanism |-> Choice,
         topic |-> Destination, topic_template |-> Destination],
     webhook |->
        [url |-> Address, allow_http |-> Flag, ssrf_protection |-> Flag,
         timeout_secs |-> {"absent", "fits", "beyond", "text"},
         signing_secret |-> Sealed, signing_algorithm |-> Choice],
     stdout |-> [format |-> Choice],
     file |-> [path |-> Text, format |-> Choice],
     removed |-> [url |-> Address]]

Beside ==
    [source_type |-> {"absent", "outbox", "removed"}, sink_key |-> {"sink", "config", "number"},
     batch_size |-> {"absent", "null", "fits", "sink_max", "api_max", "huge", "wraps", "number"},
     wire_format |-> {"absent", "null", "native", "cloudevents", "removed", "number"},
     retry |-> {"absent", "null", "fine", "beyond"}, typo |-> {"absent", "sink", "row"},
     source_mode |-> {"absent", "pg_trickle", "native"}, outbox |-> Text \cup {"unfit"},
     consumer_group |-> Text, visibility_seconds |-> {"absent", "fits", "beyond"}]

\* descriptors.rs: the fields validate_connector_fields() lets a sink have.
\* The descriptor of stdout and file lists none.
AllowedFields(type) == IF type \in {"stdout", "file"} THEN {} ELSE DOMAIN Sink[type]

\* A bug: no sink has a limit of its own.
NoLimit(type) == {"fits", "sink_max", "api_max"}

\* max_batch_size of the connector; the diagnostic sinks have no limit.
WithinCapabilities(type) ==
    CASE type \in {"stdout", "file"} -> {"fits", "sink_max", "api_max"}
      [] OTHER -> {"fits"}

\* is_available(): the sinks behind a cargo feature
is_available(type) == compiled \/ type \in {"inbox", "pg_outbox"}

\* A row the relay runs, from which the rows to look at differ in two fields.
Plain(type) ==
    [f \in DOMAIN Sink[type] |->
        CASE f \in {"inbox", "brokers", "path"} -> "text"
          [] f = "postgres_url" /\ type = "pg_outbox" -> "text"
          [] f = "url" -> "secure"
          [] f = "username" -> "text"
          [] f = "password" -> "reference"
          [] OTHER -> "absent"]

PlainBeside ==
    [f \in DOMAIN Beside |-> CASE f = "outbox" -> "text"
                               [] f = "sink_key" -> "sink"
                               [] f = "source_type" -> "outbox"
                               [] OTHER -> "absent"]

OneChange(section, kinds) == UNION {{[section EXCEPT ![f] = v] : v \in kinds[f]} : f \in DOMAIN section}
TwoChanges(section, kinds) == UNION {OneChange(changed, kinds) : changed \in OneChange(section, kinds)}

PlainGroup == [PlainBeside EXCEPT !.consumer_group = "text"]

Rows == UNION {
    [type : {t}, beside : {PlainBeside}, sink : TwoChanges(Plain(t), Sink[t])] \cup
    [type : {t}, beside : OneChange(PlainBeside, Beside), sink : OneChange(Plain(t), Sink[t])] \cup
    [type : {t}, beside : OneChange(PlainGroup, Beside), sink : {Plain(t)}] :
        t \in SinkTypes \cup {"removed"}}

-----------------------------------------------------------------------------
(* The catalog API: relay_set_outbox_v2() *)

\* as_i64() of no integer is the default; the cast to i32 drops the high bits.
CastBatch(size) ==
    CASE size \in {"absent", "null", "number", "wraps"} -> "fits"
      [] OTHER -> size

validate_outbox_surface(asked) ==
    /\ asked.type \in SUPPORTED_SINKS
    /\ asked.beside.wire_format # "removed"

relay_set_outbox_v2_impl(asked) ==
    /\ asked.beside.outbox = "text"        \* an identifier, of an outbox that exists
    /\ asked.beside.source_mode \in {"absent", "native"}
    /\ CastBatch(asked.beside.batch_size) \in {"fits", "sink_max"}
    /\ validate_outbox_surface(asked)

\* What is stored: the source section is only the outbox, config becomes the
\* sink section whatever it holds, and every other key of the call is dropped.
full_config(asked) ==
    [asked EXCEPT !.beside = [PlainBeside EXCEPT
        !.sink_key = IF asked.beside.sink_key = "number" THEN "number" ELSE "sink",
        !.batch_size = CastBatch(asked.beside.batch_size),
        !.wire_format = IF asked.beside.wire_format \in {"absent", "null", "number"} THEN "native"
                        ELSE asked.beside.wire_format]]

relay_set_outbox_v2 ==
    /\ row = NoRow
    /\ \E asked \in Rows : relay_set_outbox_v2_impl(asked) /\ row' = full_config(asked)
    /\ by' = "api"
    /\ stage' = "stored"
    /\ UNCHANGED <<secrets, compiled>>

sql_insert ==
    /\ row = NoRow
    /\ row' \in Rows
    /\ by' = "sql"
    /\ stage' = "stored"
    /\ UNCHANGED <<secrets, compiled>>

\* A row is replaced by deleting and writing it: nothing of the old one stays.
relay_delete ==
    /\ row # NoRow
    /\ row' = NoRow
    /\ by' = "sql"
    /\ stage' = "none"
    /\ UNCHANGED <<secrets, compiled>>

secret_provided ==
    /\ secrets' = ~secrets
    /\ UNCHANGED <<row, by, compiled, stage>>

-----------------------------------------------------------------------------
(* PipelineDocument::parse_runtime() *)

Strings == {"text", "blank", "reference", "broken", "listed", "secure", "clear", "private", "embedded",
            "userinfo", "malformed", "ssl", "plaintext", "unfit"}

require_string_field(d, f) == d.sink[f] \in Strings \ {"blank"}
optional_non_empty_string_field(d, f) == d.sink[f] = "absent" \/ require_string_field(d, f)
optional_bool_field(d, f) == d.sink[f] \in {"absent", "true", "false"}
optional_secret_reference_field(d, f) == d.sink[f] \in {"absent", "reference"}
validate_destination_text(d, f) == d.sink[f] \in {"absent", "text", "reference", "broken"}
Present(d, f) == d.sink[f] # "absent"
WithTls(d) == d.sink.url \in {"secure", "private", "embedded", "userinfo"}

deserialize(d) ==
    /\ d.beside.sink_key \in {"sink", "config"}       \* the alias config is renamed
    /\ d.beside.typo # "row" /\ d.beside.source_mode = "absent"
    /\ d.beside.batch_size # "number"
    /\ d.beside.wire_format # "number"

\* A bug: the wire format is left to the encoder.
AnyWireFormat(d) == TRUE

validate_wire_format(d) == d.beside.wire_format # "removed"
validate_batch_size(d) == d.beside.batch_size \notin {"huge", "wraps"}
validate_connector(d) ==                              \* no source_type is an outbox
    /\ d.beside.source_type \in {"absent", "outbox"}
    /\ d.type \in SinkTypes

validate_supported_source(d) ==
    /\ d.beside.outbox \in Strings \ {"blank"}
    /\ d.beside.consumer_group \in {"absent"} \cup (Strings \ {"blank"})
    /\ d.beside.visibility_seconds \in {"absent", "fits"}

validate_connector_fields(d) ==
    /\ d.beside.typo = "absent"
    /\ \A f \in DOMAIN d.sink \ AllowedFields(d.type) : ~Present(d, f)

\* ${ENV:..} passes here, too; what is no reference at all does not.
validate_secret_references(d) ==
    /\ "broken" \notin {d.beside.outbox, d.beside.consumer_group}
    /\ \A f \in DOMAIN d.sink : d.sink[f] # "broken"

validate_inbox(d) ==
    /\ require_string_field(d, "inbox")
    /\ IF d.type = "pg_outbox" THEN require_string_field(d, "postgres_url")
       ELSE optional_non_empty_string_field(d, "postgres_url")

\* The rules on transport and credentials, which NatsSink::new_with_options()
\* repeats.
NatsTransport(d) ==
    /\ \/ WithTls(d)
       \/ d.sink.url = "clear" /\ d.sink.allow_insecure = "true"
    /\ Present(d, "token") => \A f \in {"username", "password", "credentials_file"} : ~Present(d, f)
    /\ Present(d, "username") <=> Present(d, "password")
    /\ Present(d, "tls_client_cert") <=> Present(d, "tls_client_key")

\* A bug: transport and credentials are left to the sink.
TransportUnchecked(d) ==
    /\ require_string_field(d, "url")
    /\ optional_bool_field(d, "allow_insecure")
    /\ ~(Present(d, "subject") /\ Present(d, "subject_template"))
    /\ \A f \in {"subject", "subject_template"} : validate_destination_text(d, f)

validate_nats(d) ==
    /\ require_string_field(d, "url")
    /\ optional_bool_field(d, "allow_insecure")
    /\ NatsTransport(d)
    /\ \A f \in {"token", "password"} : optional_secret_reference_field(d, f)
    /\ \A f \in {"username", "credentials_file", "tls_client_cert", "tls_client_key"} :
           optional_non_empty_string_field(d, f)
    /\ ~(Present(d, "subject") /\ Present(d, "subject_template"))
    /\ \A f \in {"subject", "subject_template"} : validate_destination_text(d, f)

\* A protocol that is no string counts as the default.
KafkaTransport(d) ==
    \/ d.sink.security_protocol \in {"absent", "ssl", "number"}
    \/ d.sink.security_protocol = "plaintext" /\ d.sink.allow_insecure = "true"

validate_kafka(d) ==
    /\ require_string_field(d, "brokers")
    /\ optional_bool_field(d, "allow_insecure")
    /\ KafkaTransport(d)
    /\ optional_non_empty_string_field(d, "ssl_ca_location")
    /\ optional_secret_reference_field(d, "sasl_password")
    /\ d.sink.sasl_mechanism \in {"absent", "listed"}
    /\ ~(Present(d, "topic") /\ Present(d, "topic_template"))
    /\ \A f \in {"topic", "topic_template"} : validate_destination_text(d, f)

\* The URL must parse as one; only the scheme is looked at.
validate_webhook(d) ==
    /\ \/ WithTls(d)
       \/ d.sink.url = "clear" /\ d.sink.allow_http = "true"
    /\ \A f \in {"allow_http", "ssrf_protection"} : optional_bool_field(d, f)
    /\ d.sink.timeout_secs \in {"absent", "fits"}
    /\ optional_secret_reference_field(d, "signing_secret")
    /\ d.sink.signing_algorithm \in {"absent", "listed"}

validate_diagnostics(d) ==
    /\ d.type = "file" => require_string_field(d, "path")
    /\ d.sink.format \in {"absent", "listed"}

validate_supported_sink(d) ==
    CASE d.type \in {"inbox", "pg_outbox"} -> validate_inbox(d)
      [] d.type = "nats" -> validate_nats(d)
      [] d.type = "kafka" -> validate_kafka(d)
      [] d.type = "webhook" -> validate_webhook(d)
      [] OTHER -> validate_diagnostics(d)

validate_sections(d) ==
    /\ d.beside.batch_size \in {"absent", "null"} \cup WithinCapabilities(d.type)
    /\ d.beside.retry # "beyond"

\* The first rule that is broken decides: a surface that was removed, or
\* anything else.
parse_runtime(d) ==
    IF ~deserialize(d) THEN "invalid"
    ELSE IF ~validate_wire_format(d) THEN "unsupported"
    ELSE IF ~validate_batch_size(d) THEN "invalid"
    ELSE IF ~validate_connector(d) THEN "unsupported"
    ELSE IF /\ validate_connector_fields(d)
            /\ validate_supported_source(d)
            /\ validate_supported_sink(d)
            /\ validate_sections(d)
            /\ validate_secret_references(d)
         THEN "passed" ELSE "invalid"

\* validate_pipelines() over one enabled row.
startup_preflight ==
    /\ stage = "stored"
    /\ stage' = IF parse_runtime(row) = "passed" /\ ~is_available(row.type) THEN "invalid"
                ELSE parse_runtime(row)
    /\ UNCHANGED <<row, by, secrets, compiled>>

-----------------------------------------------------------------------------
(* resolve_pipeline_secrets() *)

Strict == {"password", "token"}
Embedded == {"url", "postgres_url", "brokers"}

\* A reference anywhere else is refused, the declared secrets included that
\* field_policy() does not list.
Resolvable(d) ==
    /\ d.beside.outbox # "reference" /\ d.beside.consumer_group # "reference"
    /\ \A f \in DOMAIN d.sink : d.sink[f] = "reference" => f \in Strict \cup Embedded

NeedsSecrets(d) == \E f \in DOMAIN d.sink : d.sink[f] \in {"reference", "embedded"}

\* A reference is read if its variable is set, or its file is there and safe.
resolve_references(d) == NeedsSecrets(d) => secrets

resolve_pipeline_secrets ==
    /\ stage = "passed"
    /\ stage' = IF Resolvable(row) /\ resolve_references(row) THEN "resolved" ELSE "unresolved"
    /\ UNCHANGED <<row, by, secrets, compiled>>

-----------------------------------------------------------------------------
(* build_source() and build_sink() read the row as it was written: the names *)
(* the parser renamed are not there.                                         *)

validate_relay_identifier(name) == name # "unfit"

\* Only the source of a consumer group looks at the outbox's name.
build_source(d) ==
    /\ d.beside.source_type = "outbox"
    /\ d.beside.consumer_group # "absent" => validate_relay_identifier(d.beside.outbox)

nats_new_with_options(d) == NatsTransport(d)

kafka_new_with_options(d) ==
    /\ KafkaTransport(d)
    /\ {d.sink.topic, d.sink.topic_template} \cap {"blank", "malformed"} = {}

is_forbidden_hostname(url) == url = "private"

\* The rules on an endpoint that come before any name is looked up.
validate_url(d) ==
    /\ d.sink.url = "clear" => d.sink.allow_http = "true"
    /\ d.sink.url # "userinfo"
    /\ d.sink.ssrf_protection # "false" => ~is_forbidden_hostname(d.sink.url)

webhook_new_with_options(d) ==
    /\ d.sink.timeout_secs \in {"absent", "fits"}
    /\ d.sink.signing_algorithm \in {"absent", "listed"}
    /\ validate_url(d)

parse_ssl_mode_checked(url) == url # "unfit"

\* Whoever asks for TLS does not get less, nor from a build without it.
connect(url) ==
    /\ parse_ssl_mode_checked(url)
    /\ url # "clear" => compiled

\* The name of an inbox is shorter by the suffix of its table.
resolve_inbox_relation(d) == validate_relay_identifier(d.sink.inbox)

build_inbox(d) ==
    /\ Present(d, "postgres_url") => connect(d.sink.postgres_url)
    /\ resolve_inbox_relation(d)

build_sink(d) ==
    /\ is_available(d.type)
    /\ d.type # "stdout" => d.beside.sink_key = "sink"
    /\ CASE d.type \in {"inbox", "pg_outbox"} -> build_inbox(d)
         [] d.type = "nats" -> nats_new_with_options(d)
         [] d.type = "kafka" -> kafka_new_with_options(d)
         [] d.type = "webhook" -> webhook_new_with_options(d)
         [] OTHER -> TRUE

\* The factories ask others on the way: the database for the offset, a broker,
\* a server, the table of registered inboxes, a name server (which may answer
\* with a private address), the client libraries.  What these refuse is not a
\* rule that the row breaks, and may come before a rule that it does.
build_worker ==
    /\ stage = "resolved"
    /\ stage' \in {"unreachable",
                   IF build_source(row) /\ build_sink(row) THEN "running" ELSE "refused"}
    /\ UNCHANGED <<row, by, secrets, compiled>>

\* The next reconcile begins anew with a row whose worker does not run.
reconcile ==
    /\ stage \in {"invalid", "unsupported", "unresolved", "refused", "unreachable"}
    /\ stage' = "stored"
    /\ UNCHANGED <<row, by, secrets, compiled>>

-----------------------------------------------------------------------------
(* The published schema, migrate-config and validate-config *)

schema_sink(d) ==
    CASE d.type = "inbox" -> d.sink.inbox \in Strings /\ d.sink.postgres_url \in Strings \cup {"absent"}
      [] d.type = "pg_outbox" -> {d.sink.inbox, d.sink.postgres_url} \subseteq Strings
      [] d.type = "nats" ->
            /\ d.sink.url \in Strings
            /\ d.sink.allow_insecure \in {"absent", "true", "false"}
            /\ {d.sink.token, d.sink.password} \subseteq {"absent", "reference"}
            /\ \A f \in DOMAIN d.sink : d.sink[f] # "number"
            /\ "absent" \in {d.sink.subject, d.sink.subject_template}
      [] d.type = "kafka" ->
            /\ d.sink.brokers \in Strings
            /\ d.sink.security_protocol \in {"absent", "ssl", "plaintext"}
            /\ d.sink.sasl_password \in {"absent", "reference"}
            /\ d.sink.sasl_mechanism \in {"absent", "listed"}
            /\ \A f \in DOMAIN d.sink : d.sink[f] # "number"
            /\ "absent" \in {d.sink.topic, d.sink.topic_template}
      [] d.type = "webhook" ->
            /\ \/ d.sink.allow_http \in {"absent", "false"} /\ WithTls(d)
               \/ d.sink.allow_http = "true" /\ (WithTls(d) \/ d.sink.url = "clear")
            /\ d.sink.ssrf_protection \in {"absent", "true", "false"}
            /\ d.sink.timeout_secs \in {"absent", "fits"}
            /\ d.sink.signing_secret \in {"absent", "reference"}
            /\ d.sink.signing_algorithm \in {"absent", "listed"}
      [] OTHER -> d.sink.format \in {"absent", "listed"}

pipeline_schema(d) ==
    /\ d.type \in SinkTypes
    /\ d.beside.source_type = "outbox" /\ d.beside.sink_key = "sink"
    /\ d.beside.typo = "absent" /\ d.beside.source_mode = "absent"
    /\ d.beside.batch_size \in {"absent", "fits"} \cup
           (IF d.type \in {"stdout", "file"} THEN {"sink_max", "api_max"} ELSE {})
    /\ d.beside.wire_format \in {"absent", "native", "cloudevents"}
    /\ d.beside.retry \in {"absent", "fine"}
    /\ d.beside.outbox \in Strings /\ d.beside.consumer_group \in Strings \cup {"absent"}
    /\ d.beside.visibility_seconds \in {"absent", "fits"}
    /\ schema_sink(d)

removed_surface(d) ==
    \/ d.beside.source_mode = "pg_trickle"
    \/ d.beside.source_type = "removed"
    \/ d.type \notin MIGRATE_SINKS
    \/ d.beside.wire_format = "removed"

\* validate-config looks at what preflight and the secrets say, and no further.
run_validate_config(d) ==
    /\ parse_runtime(d) = "passed"
    /\ is_available(d.type)
    /\ Resolvable(d)
    /\ resolve_references(d)

-----------------------------------------------------------------------------

Init ==
    /\ row = NoRow
    /\ by = "sql"
    /\ secrets \in BOOLEAN
    /\ compiled \in BOOLEAN
    /\ stage = "none"

Next ==
    \/ relay_set_outbox_v2
    \/ sql_insert
    \/ relay_delete
    \/ secret_provided
    \/ startup_preflight
    \/ resolve_pipeline_secrets
    \/ build_worker
    \/ reconcile

Spec == Init /\ [][Next]_vars

-----------------------------------------------------------------------------
(* Properties *)

\* Rules that only the factories have, and the rows that break them.  The
\* parser renames config and supplies source_type in a copy that the factories
\* never see; it looks at the scheme of a webhook's URL and at nothing else of
\* it; and it takes any text for a name or a connection string.
OldNames(d) ==
    \/ d.beside.source_type = "absent"
    \/ d.beside.sink_key = "config" /\ d.type # "stdout"      \* its section may be missing

UnsafeEndpoint(d) ==
    /\ d.type = "webhook"
    /\ \/ d.sink.url = "userinfo"
       \/ is_forbidden_hostname(d.sink.url) /\ d.sink.ssrf_protection # "false"

UnfitGroupOutbox(d) == d.beside.outbox = "unfit" /\ d.beside.consumer_group # "absent"

UnfitInbox(d) ==
    /\ d.type \in {"inbox", "pg_outbox"}
    /\ \/ "unfit" \in {d.sink.inbox, d.sink.postgres_url}
       \/ ~compiled /\ d.sink.postgres_url \notin {"absent", "clear"}

\* What preflight and validate-config call valid, the source and sink factories
\* do not refuse for a rule of their own, but for the four kinds of rows above:
\* rows under the old names; webhook URLs with user info, a fragment or a
\* private host; an outbox name that is no identifier, read by a consumer
\* group; and inboxes whose name is no identifier or too long, or whose
\* connection string has a weak or unknown sslmode or asks for TLS of a relay
\* built without it.
ValidatedRowsStart ==
    \/ stage = "refused"
    \/ row # NoRow /\ run_validate_config(row) /\ ~(build_source(row) /\ build_sink(row))
    => OldNames(row) \/ UnsafeEndpoint(row) \/ UnfitGroupOutbox(row) \/ UnfitInbox(row)

\* The published JSON schema accepts every row that the relay's parser
\* accepts, but for the old names, for nulls and for a Kafka security_protocol
\* that is no string, which the parser reads as the default.
SchemaCoversParser ==
    stage = "passed" =>
        \/ pipeline_schema(row)
        \/ row.beside.source_type = "absent" \/ row.beside.sink_key = "config"
        \/ "null" \in {row.beside.batch_size, row.beside.wire_format, row.beside.retry}
        \/ row.type = "kafka" /\ row.sink.security_protocol = "number"

\* migrate-config lists a row before the upgrade exactly if the upgraded relay
\* would refuse it for a removed surface: nothing it lists runs, and nothing it
\* passes over is refused as removed.  The API stores no such row.
MigrationListsRemoved ==
    /\ stage = "unsupported" => removed_surface(row) /\ by = "sql"
    /\ stage \in {"passed", "resolved", "running"} => ~removed_surface(row)

-----------------------------------------------------------------------------
(* The inductive invariant.                                                 *)

\* A row has the fields of its sink, and values of theirs beside it.
WellFormed(d) ==
    /\ d.type \in DOMAIN Sink /\ DOMAIN d.sink = DOMAIN Sink[d.type]
    /\ \A f \in {"source_type", "wire_format", "retry"} : d.beside[f] \in Beside[f]

\* How far a row has come shows what was decided about it.
StageEarned ==
    /\ stage = "unsupported" => parse_runtime(row) = "unsupported"
    /\ stage \in {"passed", "unresolved", "resolved", "refused", "unreachable", "running"} =>
           parse_runtime(row) = "passed" /\ is_available(row.type)
    /\ stage = "refused" => ~(build_source(row) /\ build_sink(row))

\* Types; a row that is gone has no stage on its way to a worker, and the API
\* stores no removed surface.
AdmissionInv ==
    /\ by \in {"api", "sql"}
    /\ secrets \in BOOLEAN /\ compiled \in BOOLEAN
    /\ stage \in {"none", "stored", "invalid", "unsupported", "passed", "unresolved", "resolved",
                  "refused", "unreachable", "running"}
    /\ row = NoRow <=> stage = "none"
    /\ row # NoRow => WellFormed(row)
    /\ row # NoRow /\ by = "api" => validate_wire_format(row) /\ validate_connector(row)
    /\ StageEarned

=============================================================================
