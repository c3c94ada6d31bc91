------------------------------- MODULE Support -------------------------------
(* What the shared helpers compute: redacted error records, labels of metrics,
   batches on the object storage, confidence that decays, the audit page's filters,
   retries with back-off, and the web app's token, error report and markup helpers.

   Covered: StructuredError and create_structured_error, _normalize_path,
   S3Adapter, confidence_effective, is_stale, the filters of AuditPage,
   retry_with_backoff, the token stores, reportError, stripTags and escapeHTML.
   Not covered: DOMPurify behind sanitizeHTML, presigned URLs' signatures, stack traces, buckets.  S3's answer
   to a batch is external. *)
EXTENDS Naturals, FiniteSets, Sequences, FiniteSetsExt, SequencesExt, Lists

Blank == ""

-----------------------------------------------------------------------------
(* A leaf of an error's context, by the steps that lead to it: a key that names
   a secret, another key, an item of a list.  Redaction goes into dicts only: the
   first step that is not a plain key decides. *)
RedactSensitive(steps) ==
    LET stops == {i \in DOMAIN steps : steps[i] # "key"} IN
    IF stops # {} /\ steps[Min(stops)] = "secret_key" THEN "[REDACTED]" ELSE "kept"

(* The code of an error: the caller's, else the exception's own, else its type. *)
ErrorCode(given, own, type) == IF given # Blank THEN given ELSE IF own # Blank THEN own ELSE type
StructuredError(given, own, type, context) ==
    [code |-> ErrorCode(given, own, type),
     context |-> [leaf \in context |-> RedactSensitive(leaf)]]

(* A secret at any depth of dicts is hidden with all that is under it, nothing
   else is, and no record is without a code (StructuredError.to_dict). *)
RecordSafe(context, result) ==
    /\ result.code # Blank
    /\ \A leaf \in context :
         result.context[leaf] = "[REDACTED]" <=>
            \E i \in DOMAIN leaf : leaf[i] = "secret_key" /\ \A j \in 1..(i - 1) : leaf[j] = "key"

-----------------------------------------------------------------------------
(* A path is its parts; a part counts as an identifier when it is long and has a
   digit. *)
AnyId == "{id}"
PathPart == {Blank, "word", "identifier", "7", AnyId}
LooksLikeId(part) == part = "identifier"
StripSlashes(parts) ==
    SubSeq(parts, 1, Max({0} \union {n \in DOMAIN parts : parts[n] # Blank}))
NormalizePath(parts) ==
    LET kept == StripSlashes(parts) IN
    [i \in DOMAIN kept |-> IF LooksLikeId(kept[i]) THEN AnyId ELSE kept[i]]

(* Two requests that differ in their identifiers, or in a slash at the end, are
   counted under one label; a label stands for itself; names of routes stay. *)
LabelsFew(parts, label) ==
    /\ NormalizePath(label) = label
    /\ NormalizePath(parts \o <<Blank>>) = label
    /\ \A i \in DOMAIN label : label[i] # "identifier"
    /\ NormalizePath([i \in DOMAIN parts |-> IF parts[i] = "identifier" THEN AnyId ELSE parts[i]])
         = label
    /\ \A i \in DOMAIN parts : parts[i] = "word" <=> i \in DOMAIN label /\ label[i] = "word"

-----------------------------------------------------------------------------
(* Object storage.  A batch may delete some of its keys and fail on others; S3
   reports a key that was not there as deleted.  No key, no call. *)
NotConnected == [raises |-> "not_connected", deleted |-> {}, errors |-> {}]
DeleteObjects(connected, objects, keys, failing) ==
    LET Result(deleted, errors) ==
            [result |-> [raises |-> "no", deleted |-> deleted, errors |-> errors],
             objects |-> objects \ deleted]
    IN IF keys = {} THEN Result({}, {})
       ELSE IF ~connected THEN [result |-> NotConnected, objects |-> objects]
       ELSE Result(keys \ failing, keys \intersect failing)

(* The metadata of an object: absent is told from unreachable, and the checksum
   is the SHA-256 or, without one, the ETag. *)
HeadObject(connected, object) ==
    IF ~connected THEN "not_connected"
    ELSE CASE object = "missing" -> "FileNotFoundError"
           [] object = "forbidden" -> "ClientError"
           [] object = "unreachable" -> "EndpointConnectionError"
           [] object = "with_sha256" -> "sha256"
           [] object = "with_etag" -> "etag"

(* Every key of a batch is reported once, a key reported as deleted is gone, one
   reported as an error is as it was, and no other object is touched. *)
BatchReported(objects, keys, batch) ==
    LET report == batch.result IN
    /\ report.deleted \intersect report.errors = {}
    /\ report.raises = "no" => keys = report.deleted \union report.errors
    /\ report.raises # "no" => batch.objects = objects
    /\ report.deleted \intersect batch.objects = {}
    /\ objects \ report.deleted = batch.objects

-----------------------------------------------------------------------------
(* Confidence halves with every half-life since the last validation, or since
   the item became valid when nobody validated it.  In hundredths; time in
   half-lives, at which the power of two is whole. *)
Never == 0
Baseline(validAt, validatedAt) == IF validatedAt # Never THEN validatedAt ELSE validAt
HalvingsSince(now, validAt, validatedAt) ==
    LET baseline == Baseline(validAt, validatedAt) IN
    IF now <= baseline THEN 0 ELSE now - baseline
(* effective < threshold, without the division *)
IsStale(base, validAt, validatedAt, now, threshold) ==
    base < threshold * 2 ^ HalvingsSince(now, validAt, validatedAt)

(* What is stale stays stale until it is validated, a validation now leaves it
   only as stale as its own confidence, a surer item is never staler, and a
   clock that runs behind adds no confidence. *)
DecayOrdered(q) ==
    LET Stale(base, validated, at) == IsStale(base, q.validAt, validated, at, q.threshold) IN
    /\ Stale(q.base, q.validatedAt, q.now) => Stale(q.base, q.validatedAt, q.now + 1)
    /\ Stale(q.base, q.now, q.now) => Stale(q.base, q.validatedAt, q.now)
    /\ Stale(q.base + 10, q.validatedAt, q.now) => Stale(q.base, q.validatedAt, q.now)
    /\ q.now < Baseline(q.validAt, q.validatedAt) =>
         (Stale(q.base, q.validatedAt, q.now) <=> q.base < q.threshold)

-----------------------------------------------------------------------------
(* The filters of the audit log; a day is DayLength instants, and "to" reaches
   to the first instant of the next day. *)
DayLength == 2
NoDay == 99
Space == " "
Blanks == {Blank, Space}
FilterAudit(log, f) ==
    Chosen(log, {i \in DOMAIN log :
        /\ f.action # "all" => log[i].action = f.action
        /\ f.user \notin Blanks => f.user = log[i].user
        /\ f.from # NoDay => log[i].at >= f.from * DayLength
        /\ f.to # NoDay => log[i].at <= f.to * DayLength + DayLength})

(* Every entry of the chosen days that fits is shown, in the log's order, and
   none of another day but the first instant after them; leaving out a filter
   never shows less (AuditPage). *)
AuditFiltered(log, f, result) ==
    LET Fits(e) == f.action \in {"all", e.action} /\ f.user \in Blanks \union {e.user}
        Day(e) == e.at \div DayLength
        Before(e) == f.to = NoDay \/ Day(e) <= f.to
    IN /\ Chosen(result, {n \in DOMAIN result : Before(result[n])}) =
              Chosen(log, {i \in DOMAIN log : /\ Fits(log[i]) /\ Before(log[i])
                                              /\ f.from = NoDay \/ Day(log[i]) >= f.from})
       /\ \A e \in Range(result) : f.to # NoDay /\ Day(e) > f.to => e.at = (f.to + 1) * DayLength
       /\ \A wider \in {[f EXCEPT !.action = "all"], [f EXCEPT !.user = Space], [f EXCEPT !.from = NoDay],
                        [f EXCEPT !.to = NoDay]} :
            Range(result) \subseteq Range(FilterAudit(log, wider))

-----------------------------------------------------------------------------
(* Retries: delays in milliseconds, and what each call of fn would do. *)
DelayForAttempt(attempt) == Min({100 * 5 ^ attempt, 2000})
RetryWithBackoff(outcomes, maxRetries) ==
    LET final == {i \in 1..(1 + maxRetries) : outcomes[i] # "retriable"}
        calls == IF final = {} THEN 1 + maxRetries ELSE Min(final)
    IN [calls |-> calls, slept |-> [i \in 1..(calls - 1) |-> DelayForAttempt(i - 1)],
        result |-> IF final = {} THEN "RetryExhaustedError" ELSE outcomes[calls]]

(* fn is called again only after a failure that may pass, never once too often,
   with one ever longer but bounded wait between two calls and none after the
   last; the failure of the last call is told from success (retry_with_backoff). *)
RetryBounded(outcomes, maxRetries, run) ==
    /\ run.calls \in 1..(1 + maxRetries)
    /\ \A i \in 1..(run.calls - 1) : outcomes[i] = "retriable"
    /\ run.result = "RetryExhaustedError" <=> \A i \in 1..(1 + maxRetries) : outcomes[i] = "retriable"
    /\ run.result = "returns" => outcomes[run.calls] = "returns"
    /\ Len(run.slept) = run.calls - 1
    /\ \A i \in DOMAIN run.slept : run.slept[i] <= 2000 /\ \A j \in 1..(i - 1) : run.slept[j] < run.slept[i]

-----------------------------------------------------------------------------
(* The token of the web app: with cookies the page never holds it, else all
   stores of the page share one variable.  "calls" are those so far, of stores
   of either mode. *)
CreateTokenStore(given, deployMode) ==
    IF given # "unset" THEN given ELSE IF deployMode = "saas" THEN "saas" ELSE "private"
InMemoryToken(calls) ==
    LET own == {i \in DOMAIN calls : calls[i].mode = "private"} IN
    IF own = {} THEN Blank ELSE calls[Max(own)].token
GetAuthHeader(mode, calls) == IF mode = "saas" THEN Blank ELSE InMemoryToken(calls)

(* No header without a private store, and none after clearToken until a token is
   set again; what is sent is the last token that was set, by whichever store
   (clearToken counts as setting none). *)
HeaderFits(mode, calls, header) ==
    /\ header # Blank => mode = "private"
    /\ header # Blank => \E i \in DOMAIN calls :
                        /\ calls[i] = [mode |-> "private", token |-> header]
                        /\ \A j \in (i + 1)..Len(calls) : calls[j].mode = "saas"
    /\ mode = "private" /\ calls # <<>> /\ Last(calls).mode = "private" =>
         header = Last(calls).token

-----------------------------------------------------------------------------
(* reportError: the keys of the context, each in two spellings, compared in
   lower case with names of which one has a capital letter. *)
SensitiveKeys == {"token", "password", "apiKey"}
LowerCase(key) == CASE key \in {"Token", "token"} -> "token"
                    [] key \in {"apiKey", "apikey"} -> "apikey"
                    [] key \in {"userId", "userid"} -> "userid"
ReportError(context, endpoint, production) ==
    [context |-> [key \in context |-> IF LowerCase(key) \in SensitiveKeys THEN "[REDACTED]" ELSE "kept"],
     posted |-> endpoint, logged |-> ~production]

(* However a name is spelled, it is hidden in all spellings or in none, the
   token is hidden, and outside production no report is lost. *)
ReportSafe(context, endpoint, production, report) ==
    /\ \A key \in context : key \in {"Token", "token"} => report.context[key] = "[REDACTED]"
    /\ \A key, other \in context :
         LowerCase(key) = LowerCase(other) => report.context[key] = report.context[other]
    /\ \A key \in context : LowerCase(key) = "userid" => report.context[key] = "kept"
    /\ ~production \/ endpoint => report.posted \/ report.logged

-----------------------------------------------------------------------------
(* A text is a sequence of "<", ">", "&", quotes and other characters, an entity
   is one of those after "&". *)
InTag(text, i) ==
    \E from \in 1..i, to \in i..Len(text) :
        /\ text[from] = "<" /\ text[to] = ">"
        /\ \A j \in (from + 1)..(to - 1) : text[j] # ">"
StripTags(text) == Chosen(text, {i \in DOMAIN text : ~InTag(text, i)})

(* Every character has room for an entity behind it, which is used where the
   character is replaced. *)
Spaced(text, char, entity) ==
    [k \in 1..(2 * Len(text)) |->
        IF k % 2 = 0 THEN entity
        ELSE IF text[(k + 1) \div 2] = char THEN "&" ELSE text[(k + 1) \div 2]]
Replace(text, char, entity) ==
    Chosen(Spaced(text, char, entity),
           {k \in 1..(2 * Len(text)) : k % 2 = 0 => text[k \div 2] = char})
EscapeHTML(text) ==
    Replace(Replace(Replace(Replace(Replace(text, "&", "amp;"), "<", "lt;"), ">", "gt;"),
                    "quote", "quot;"), "'", "#x27;")

(* What a browser shows for a text with entities. *)
Entities == {"amp;", "lt;", "gt;", "quot;", "#x27;"}
Meant(e) == CASE e = "amp;" -> "&" [] e = "lt;" -> "<" [] e = "gt;" -> ">"
              [] e = "quot;" -> "quote" [] e = "#x27;" -> "'"
Unescaped(text) ==
    Chosen([i \in DOMAIN text |->
               IF i > 1 /\ text[i - 1] = "&" THEN Meant(text[i]) ELSE text[i]],
           {i \in DOMAIN text : text[i] # "&"})

(* What is stripped has no tag left, also none that its rest makes up, and
   stripping twice changes nothing; what is escaped opens no tag and ends no
   quote, and two texts are never escaped alike. *)
MarkupHarmless(text, stripped, escaped) ==
    /\ \A i, j \in DOMAIN stripped : stripped[i] = "<" /\ stripped[j] = ">" => j < i
    /\ StripTags(stripped) = stripped
    /\ Range(escaped) \intersect {"<", ">", "quote", "'"} = {}
    /\ \A i \in DOMAIN escaped :
         escaped[i] = "&" => i < Len(escaped) /\ escaped[i + 1] \in Entities
    /\ Unescaped(escaped) = text
=============================================================================
