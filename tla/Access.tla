------------------------------- MODULE Access -------------------------------
(* What the gateway decides about one request: the token, the chain of checks
   before a handler, the roles and permissions, the answer to each error, and
   the filters for what a message may say.

   Covered: create_app's middleware and error handlers, the token, the RBAC of
   the gateway and of infra, the organisation context, the WebSocket's token,
   the LLM route, ContentSecurityChecker, PatternSanitizer, the promotion's
   sanitize_content.
   Not covered: the regular expressions (which of them match is the input),
   CORS, the counting behind the rate limit and the budget (module Limits). *)
EXTENDS Naturals, FiniteSets, Sequences, FiniteSetsExt

(* A token as decode_token sees it: forged, expired, or signed by the gateway;
   with claims that name a user and an organisation, or not. *)
NoToken == [made |-> "absent", ids |-> FALSE, role |-> "none"]
EmptyToken == [NoToken EXCEPT !.made = "empty"]
EncodeToken(role) == [made |-> "signed", ids |-> TRUE, role |-> role]
Refused == "refused"
DecodeToken(t) ==
    IF t.made # "signed" \/ ~t.ids THEN Refused
    ELSE IF t.role = "absent" THEN "member" ELSE t.role

-----------------------------------------------------------------------------
(* Roles.  The gateway knows three, infra knows five; an unknown role has no
   permission in either. *)
GatewayPermissions(role) ==
    CASE role = "admin" -> {"read", "write", "admin:access"}
      [] role = "member" -> {"read", "write"}
      [] role = "viewer" -> {"read"}
      [] OTHER -> {}

ViewerGrants == {"conversation:read", "knowledge:read"}
MemberGrants == ViewerGrants \union {"conversation:write", "knowledge:write"}
ManagerGrants == MemberGrants \union {"audit:read", "members:manage"}
OrgAdminGrants == ManagerGrants \union {"settings:manage", "roles:manage",
                                        "admin:access", "admin:billing"}
AllGrants == OrgAdminGrants \union {"admin:system"}
RolePermissions(role) ==
    CASE role = "super_admin" -> AllGrants
      [] role = "org_admin" -> OrgAdminGrants
      [] role = "manager" -> ManagerGrants
      [] role = "member" -> MemberGrants
      [] role = "viewer" -> ViewerGrants
      [] OTHER -> {}
CheckPermission(role, required, extra) == required \in RolePermissions(role) \union extra

-----------------------------------------------------------------------------
(* Paths, by what the checks tell apart. *)
Exempt == {"health", "user_login", "admin_login"}
UnderAdmin == {"admin_login", "admin", "admin_unknown"}
Routed == Exempt \union {"user", "admin"}
Paths == Exempt \union UnderAdmin \union {"user", "unknown"}

(* How it could go wrong: any permission opens the pages of the admins. *)
CheckSomeAccess(path, role) == path \in UnderAdmin => GatewayPermissions(role) # {}

CheckAccess(path, role) == path \in UnderAdmin => "admin:access" \in GatewayPermissions(role)

(* The token of a request: the header decides when it names the scheme, also
   with nothing after it; else the query. *)
TokenOf(r) == IF r.bearer.made # "absent" THEN r.bearer ELSE r.query

(* What a handler that is reached answers, an exception by its handler: only
   five kinds have one of their own, every other DiyuError is a 500, and an
   exception of no kind escapes the middleware. *)
StatusOf(outcome) ==
    CASE outcome = "returns" -> 200
      [] outcome = "authentication" -> 401
      [] outcome = "authorization" -> 403
      [] outcome = "not_found" -> 404
      [] outcome = "validation" -> 422
      [] outcome = "unavailable" -> 503
      [] outcome \in {"conflict", "quota", "org_isolation", "port"} -> 500
      [] outcome = "crash" -> 500

(* jwt_auth_middleware puts the security headers and the trace, the caller's or
   a new one, on every response that comes back to it; what escapes it is
   answered above it, with neither. *)
Reply(status, handled, slot, r) ==
    LET escaped == handled /\ r.outcome = "crash"
    IN [status |-> status, handled |-> handled, slot |-> slot, secured |-> ~escaped,
        trace |-> IF escaped THEN "" ELSE IF r.trace # "" THEN r.trace ELSE "new"]
Handle(r, slot) ==
    IF r.path \in Routed THEN Reply(StatusOf(r.outcome), TRUE, slot, r)
    ELSE Reply(404, FALSE, slot, r)

(* The post-auth middlewares in the order of build_app: rate limit, RBAC and
   budget, each of which may answer in place of the next. *)
Chain(r, role) ==
    IF ~r.room THEN Reply(429, FALSE, FALSE, r)
    ELSE IF ~CheckAccess(r.path, role) THEN Reply(403, FALSE, TRUE, r)
    ELSE IF r.budget = "exhausted" THEN Reply(402, FALSE, TRUE, r)
    ELSE Handle(r, TRUE)

(* jwt_auth_middleware: a preflight, an exempt path and a path without a route
   go on without a token. *)
Respond(r) ==
    IF r.method = "OPTIONS" THEN Reply(200, FALSE, FALSE, r)
    ELSE IF r.path \in Exempt \/ r.path \notin Routed THEN Handle(r, FALSE)
    ELSE IF DecodeToken(TokenOf(r)) = Refused THEN Reply(401, FALSE, FALSE, r)
    ELSE Chain(r, DecodeToken(TokenOf(r)))

(* The same questions as libraries answer them: JWTAuthMiddleware and
   OrgContextMiddleware, which no request passes. *)
Authenticate(token, path) ==
    IF path \in Exempt THEN "skipped"
    ELSE IF token.made \in {"absent", "empty"} THEN Refused
    ELSE DecodeToken(token)
ExtractContext(hasUser, hasOrg, path, role) ==
    IF path \in Exempt THEN "none"
    ELSE IF ~hasUser THEN "authentication"
    ELSE IF ~hasOrg THEN "org_isolation"
    ELSE role

(* The WebSocket is accepted with a token of the query or, without one, the
   first "auth." of its subprotocols; else it is closed with 4001. *)
AcceptSocket(query, protocols) ==
    LET offered == {i \in DOMAIN protocols : protocols[i].made # "absent"}
        token == IF query.made \notin {"absent", "empty"} THEN query
                 ELSE IF offered # {} THEN protocols[Min(offered)] ELSE NoToken
    IN IF DecodeToken(token) = Refused THEN 4001 ELSE 101

(* POST /llm/call: any failure of the provider is a 502 and meters nothing. *)
CallLlm(answers) == IF answers THEN [status |-> 200, metered |-> TRUE]
                    ELSE [status |-> 502, metered |-> FALSE]

-----------------------------------------------------------------------------
(* ContentSecurityChecker: the first layer that matches decides. *)
Layers == <<"injection", "xss", "keyword", "pii">>
CheckContent(matches) ==
    LET matching == {n \in DOMAIN Layers : Layers[n] \in matches}
        first == Layers[Min(matching)]
    IN IF matching = {} THEN [status |-> "clean", layer |-> "none", confidence |-> 100]
       ELSE CASE first \in {"injection", "xss"} ->
                   [status |-> "blocked", layer |-> first, confidence |-> 95]
              [] first = "keyword" ->
                   [status |-> "blocked", layer |-> "keyword", confidence |-> 90]
              [] first = "pii" ->
                   [status |-> "flagged", layer |-> "pii", confidence |-> 75]
ReviewContent(current, decision) ==
    CASE decision = "approve" -> "clean"
      [] decision = "reject" -> "blocked"
      [] decision = "escalate" -> "under_review"
      [] OTHER -> current

(* PatternSanitizer: a text is a sequence of words, a number word is its count
   of digits, whether an X follows, and its first two digits.  One match takes
   eleven to twenty characters, and a kind is read off its whole length. *)
Number(digits, x, a, b) == [is |-> "number", digits |-> digits, x |-> x, a |-> a, b |-> b]
Email == [is |-> "email"]
Mark(kind) == [is |-> kind]
Matched(n) == n.digits >= 11
Length(n) == IF n.digits >= 20 THEN 20 ELSE n.digits + (IF n.x THEN 1 ELSE 0)
ClassifyNumeric(n) ==
    IF Length(n) = 18 /\ n.a \in 1..8 THEN Mark("id_card")
    ELSE IF Length(n) \in 16..19 /\ n.a \in 3..6 THEN Mark("bank_card")
    ELSE IF Length(n) = 11 /\ n.a = 1 /\ n.b \in 3..9 THEN Mark("phone")
    ELSE n
Redact(word) ==
    CASE word.is = "number" /\ Matched(word) -> ClassifyNumeric(word)
      [] word.is = "email" -> Mark("email_mark")
      [] OTHER -> word
Sanitize(text, injected) ==
    IF injected THEN [text |-> <<>>, redacted |-> 0, blocked |-> TRUE]
    ELSE [text |-> [i \in DOMAIN text |-> Redact(text[i])],
          redacted |-> Cardinality({i \in DOMAIN text : Redact(text[i]) # text[i]}),
          blocked |-> FALSE]

(* sanitize_content, for a memory that is to become knowledge: three patterns,
   each of a whole word (a digit run that an X follows is none). *)
MaskOf(word) ==
    CASE word.is = "email" -> Mark("email_detected")
      [] word.is = "number" /\ word.digits = 10 /\ ~word.x -> Mark("phone_detected")
      [] word.is = "number" /\ word.digits = 16 /\ ~word.x -> Mark("credit_card_detected")
      [] OTHER -> word
SanitizeContent(text) ==
    LET masked == [i \in DOMAIN text |-> MaskOf(text[i])] IN
    [text |-> masked,
     violations |-> {masked[i].is : i \in {j \in DOMAIN text : masked[j] # text[j]}}]

-----------------------------------------------------------------------------
(* A handler is reached, outside the exempt paths, only with a token the
   gateway signed, a free slot of the rate limit and a budget that is not
   exhausted, below /admin/ by nobody but an admin; a path without a route is
   a 404 with or without a token, and an unknown caller costs no slot.  The
   checks that the libraries make agree with the chain.  An answer carries the
   security headers, and a trace which is the caller's if one was sent, exactly
   if it is not the 500 of a crashed handler: that one has neither. *)
GatewayGuards(r, answer) ==
    LET role == DecodeToken(TokenOf(r)) IN
    /\ answer.handled /\ r.path \notin Exempt =>
         /\ role # Refused /\ r.room /\ r.budget # "exhausted"
         /\ r.path \in UnderAdmin => role = "admin"
    /\ r.path \notin Routed /\ r.method # "OPTIONS" => answer.status = 404
    /\ answer.slot => role # Refused /\ r.room
    /\ r.method # "OPTIONS" /\ r.path \in Routed =>
         LET known == Authenticate(TokenOf(r), r.path) # Refused
             context == ExtractContext(known, known, r.path, role)
         IN /\ known <=> answer.status # 401 \/ answer.handled
            /\ known <=> context # "authentication"
            /\ r.path \notin Exempt /\ known => context = role
    /\ answer.secured <=> ~(answer.handled /\ r.outcome = "crash")
    /\ answer.trace # "" <=> answer.secured
    /\ answer.trace # "" /\ r.trace # "" => answer.trace = r.trace

(* The five roles of infra are a hierarchy of eleven permissions, those of the
   gateway one of three, and what a request is allowed never shrinks with the
   role, with or without permissions of one's own. *)
Hierarchy == <<"viewer", "member", "manager", "org_admin", "super_admin">>
RolesOrdered ==
    /\ \A i, j \in DOMAIN Hierarchy : i < j =>
         /\ RolePermissions(Hierarchy[i]) \subseteq RolePermissions(Hierarchy[j])
         /\ RolePermissions(Hierarchy[i]) # RolePermissions(Hierarchy[j])
    /\ Cardinality(AllGrants) = 11
    /\ \A p \in AllGrants, i \in DOMAIN Hierarchy, extra \in {{}, {"audit:read"}} :
         CheckPermission(Hierarchy[i], p, extra) =>
            \A j \in i..Len(Hierarchy) : CheckPermission(Hierarchy[j], p, extra)
    /\ GatewayPermissions("viewer") \subseteq GatewayPermissions("member")
    /\ GatewayPermissions("member") \subseteq GatewayPermissions("admin")

(* What is dangerous is blocked whatever else the text holds, private data
   never makes it less, and nothing that the sanitizer knows survives it: what
   it returns it would return unchanged. *)
FiltersHold(matches, check, text, injected, result) ==
    /\ check.status = "blocked" <=> matches \intersect {"injection", "xss", "keyword"} # {}
    /\ check.status = "clean" <=> matches = {}
    /\ result.blocked => result.text = <<>>
    /\ Sanitize(result.text, FALSE).redacted = 0
    /\ ~result.blocked => /\ Len(result.text) = Len(text)
                          /\ \A i \in DOMAIN text : result.text[i].is # "email"

(* A memory goes into a proposal without mail addresses, ten digit phone and
   sixteen digit card numbers, the rest of it as it was; it is called clean only
   when nothing was taken out, and sanitizing it twice changes nothing more;
   the filter of a conversation leaves it no mail address to find. *)
PromotionClean(text, cleaned) ==
    /\ cleaned.violations = {} <=> cleaned.text = text
    /\ SanitizeContent(cleaned.text) = [text |-> cleaned.text, violations |-> {}]
    /\ \A i \in DOMAIN text : cleaned.text[i] # text[i] => text[i].is \in {"email", "number"}
    /\ "email_detected" \notin SanitizeContent(Sanitize(text, FALSE).text).violations
=============================================================================
