----------------------------- MODULE Integrity -----------------------------
(***************************************************************************)
(* The online Play Integrity check of src/integrity.rs and its settings in *)
(* src/bin/octet-verify.rs.  A token is [nonce, package, ts, level, big],  *)
(* big when it exceeds the cap.  The decode endpoint replies               *)
(*                                                                         *)
(*   [code, detail, body]   a status, the `detail` of an error body (a     *)
(*                          slug, "array", or None), and the body: for 200 *)
(*                          the decoded verdict, else "short" or "split",  *)
(*                          where the 200th byte is inside a character     *)
(*   NoReply                the connection failed                          *)
(*                                                                         *)
(* A body the connection drops in the middle is read as far as it came and *)
(* is CutBody.  Google's verdict on a token is the token's own content.    *)
(***************************************************************************)
EXTENDS Report

CONSTANTS None, NoReply, CutBody

\* Statuses ureq hands over as a response; any other is an error of its own.
IsError(code) == code >= 400

\* check_url_scheme: https, or plain http to a host of the local network.
UrlAllowed(url) == url \in {"https", "lan"}

\* snippet slices at a byte: in the middle of a character it panics, and the run
\* ends without a report.
Snippet(body, outcome) == IF body = "split" THEN "panic" ELSE outcome

\* Mutant of Classify: every 422 is about the token.
ClassifyAny422(reply) ==
  IF reply # NoReply /\ reply.code = 422 THEN "token invalid"
  ELSE IF reply = NoReply THEN "transport"
  ELSE IF reply.code = 200 THEN "ok" ELSE "unexpected"

\* classify
Classify(reply) ==
  CASE reply = NoReply -> "transport"
    [] reply # NoReply ->
         CASE reply.code = 200 -> "ok"
           [] reply.code # 200 /\ ~IsError(reply.code) -> Snippet(reply.body, "unexpected")
           [] reply.code = 401 -> "unauthorized"
           [] reply.code = 403 /\ reply.detail = "package_not_allowed" -> "package not allowed"
           [] reply.code = 422 /\ reply.detail = "integrity_token_invalid" -> "token invalid"
           [] reply.code = 422 /\ reply.detail = "array" -> Snippet(reply.body, "bad request")
           [] reply.code = 429 -> "rate limited"
           [] reply.code = 503 -> "unavailable"
           [] OTHER -> "unexpected"

\* Mutant of VerdictOk: no nonce is asked for.
VerdictOkUnbound(verdict, nonce, cfg, now) ==
  /\ verdict # CutBody
  /\ verdict.package = cfg.package
  /\ now - cfg.maxAge <= verdict.ts /\ verdict.ts <= now
  /\ verdict.level \in {"strong", "device"}

\* What a decoded verdict is held against: the nonce, the package, the age, and a
\* device that meets integrity.
VerdictOk(verdict, nonce, cfg, now) ==
  /\ verdict # CutBody
  /\ verdict.nonce = nonce /\ verdict.package = cfg.package
  /\ now - cfg.maxAge <= verdict.ts /\ verdict.ts <= now
  /\ verdict.level \in {"strong", "device"}

\* map_outcome; None when there is no report.
MapOutcome(outcome, reply, nonce, cfg, now) ==
  CASE outcome = "panic" -> None
    [] outcome = "ok" -> IF VerdictOk(reply.body, nonce, cfg, now) THEN "pass" ELSE "fail"
    [] outcome \in {"token invalid", "package not allowed"} -> "fail"
    [] OTHER -> "notchecked"

\* play_integrity_check
PlayIntegrity(da, cfg, now, reply) ==
  CASE da = None -> "notchecked"
    [] da # None /\ da.token = None -> "notchecked"
    [] OTHER ->
         IF da.token.big THEN "fail"
         ELSE IF da.nonce = None \/ ~UrlAllowed(cfg.url) THEN "notchecked"
         ELSE MapOutcome(Classify(reply), reply, da.nonce, cfg, now)

\* play_integrity_from_cfg: absent without settings, NOT-CHECKED with some of
\* them.  The age is given in seconds.
PlayIntegrityFromCfg(da, settings, defaultMaxAgeS, msPerS, now, reply) ==
  LET given == {s \in {"url", "service", "package"} : settings[s] # None}
      maxAgeS == IF settings.maxAgeS = None THEN defaultMaxAgeS ELSE settings.maxAgeS
      cfg == [url |-> settings.url, package |-> settings.package, maxAge |-> maxAgeS * msPerS]
  IN CASE given = {} -> "absent"
       [] given = {"url", "service", "package"} -> PlayIntegrity(da, cfg, now, reply)
       [] OTHER -> "notchecked"
=============================================================================
