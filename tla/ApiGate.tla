------------------------------- MODULE ApiGate -------------------------------
(***************************************************************************)
(* The checks a request to /api passes before its handler touches the      *)
(* database: CORS, the dashboard token, the routes createApi mounted, the  *)
(* multi-tenant guard and the validation of the body, in that order.       *)
(***************************************************************************)
EXTENDS Sequences

\* How the server was started.
ApiEnv == [cors : BOOLEAN, token : BOOLEAN, requireAuth : BOOLEAN,
           multiTenant : BOOLEAN, kms : BOOLEAN, appAuth : BOOLEAN]

\* What a request carries; "none" is a request without a body to check.
Routes == {"keys", "repos", "bulk", "installation"}
Caller == [route : Routes, options : BOOLEAN, bearer : {"none", "wrong", "right"},
           body : {"none", "notJson", "invalid", "valid"}]

\* devCors answers a preflight itself; when it is off it passes it on.
devCors(e, c) == IF e.cors /\ c.options THEN 204 ELSE 0

bearerTokenAuth(e, c) ==
    CASE c.options -> 0
      [] ~c.options /\ ~e.token -> IF e.requireAuth THEN 503 ELSE 0
      [] OTHER -> IF c.bearer = "right" THEN 0 ELSE 401

\* Without KMS the key routes answer every method with 503.
createApi(e, c) == IF c.route = "keys" /\ ~e.kms THEN 503 ELSE 0

(* On the routes that take an installation id; the router mounted last at  *)
(* "/" puts it in front of every request no earlier router has answered.   *)
multiTenantGuard(e, c) ==
    IF e.multiTenant /\ (c.route # "repos" \/ c.options) THEN 501 ELSE 0

validate(e, c) ==
    CASE c.options -> 404
      [] ~c.options /\ c.route = "installation" /\ ~e.appAuth -> 503
      [] OTHER -> CASE c.body = "notJson" -> 400
                    [] c.body = "invalid" -> 422
                    [] OTHER -> 0

\* The status of the first check that ends the request, or 0.
Gate(e, c) ==
    LET checks == <<devCors(e, c), bearerTokenAuth(e, c), createApi(e, c),
                    multiTenantGuard(e, c), validate(e, c)>>
        ends == SelectSeq(checks, LAMBDA s : s # 0)
    IN  IF ends = <<>> THEN 0 ELSE Head(ends)

\* How a server started with e may answer a request before its handler runs.
Answers(e, route) == {Gate(e, c) : c \in {d \in Caller : d.route = route}}
=============================================================================
