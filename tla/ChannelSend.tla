---------------------------- MODULE ChannelSend ----------------------------
(***************************************************************************)
(* One attempt to send, up to the DeliveryError the retry policy reads     *)
(* (channels/, worker.rs ProductionSenderFactory): the credential is       *)
(* loaded, the message posted as markdown and, when the platform rejects   *)
(* exactly that, once more as text. Names of platform codes stand for the  *)
(* lists of numbers the adapters match on; what a platform answers is      *)
(* external.                                                               *)
(***************************************************************************)
EXTENDS RetryPolicy

\* signed: a DingTalk robot with a signing secret.
Sender == [kind : {"DingTalk", "WeCom"}, signed : BOOLEAN]

\* NoCredential: the keyring has none; Unfit: it is of the other platform, or not
\* an official webhook; Broken: the connection is lost after the request, or the
\* body does not end in time; Oversized: more than 64 KiB; Garbled: not JSON.
\* rejected: 310000 of DingTalk, 45033 of WeCom; none: a body without errcode.
Fates ==
  {"NoCredential", "Unfit", "Unreachable", "TimedOut", "Broken", "Oversized", "Garbled", "Answered"}
Codes == {"ok", "none", "rejected", "token", "permission", "signature", "format", "other"}
Answer == [fate : Fates, status : 100..599, code : Codes, retryAfter : Nat]

IsSuccess(status) == status \in 200..299

\* parse_retry_after, and what an absent header becomes.
Capped(seconds) == IF seconds > MaxRetryAfter THEN MaxRetryAfter ELSE seconds

\* map_platform_error of either adapter: codes neither lists are temporary.
PlatformKind(s, code) ==
  IF code = "token" THEN "Authentication"
  ELSE IF code = "permission" /\ s.kind = "WeCom" THEN "Permission"
  ELSE IF code = "signature" /\ s.kind = "WeCom" THEN "Signature"
  ELSE IF code = "format" /\ s.kind = "DingTalk" THEN "Format"
  ELSE "TemporaryPlatform"

NoFailure == [kind |-> "Network", status |-> 0, retryAfter |-> 0]
Receipt == [end |-> "receipt", err |-> NoFailure]
TextFallback == [end |-> "fallback", err |-> NoFailure]
Failure(kind, status, retryAfter) ==
  [end |-> "error", err |-> [kind |-> kind, status |-> status, retryAfter |-> retryAfter]]

Unanswered(a) ==
  Failure(IF a.fate = "NoCredential" THEN "Authentication"
          ELSE IF a.fate = "TimedOut" THEN "Timeout"
          ELSE IF a.fate \in {"Unreachable", "Broken"} THEN "Network" ELSE "Format", 0, 0)

SignatureRefused(s, a) == a.code = "rejected" /\ s.kind = "DingTalk" /\ s.signed

\* send_one: one request, as markdown or as text. The size of the body is looked
\* at before the status, the status before the JSON.
SendOne(s, a, markdown) ==
  IF a.fate \notin {"Answered", "Garbled"} THEN Unanswered(a)
  ELSE IF ~IsSuccess(a.status) THEN Failure("HttpStatus", a.status, Capped(a.retryAfter))
  ELSE IF a.fate = "Garbled" THEN Failure("Format", a.status, 0)
  ELSE IF a.code \in {"ok", "none"} THEN Receipt
  ELSE IF SignatureRefused(s, a) THEN Failure("Signature", a.status, 0)
  ELSE IF a.code = "rejected" /\ markdown THEN TextFallback
  ELSE Failure(PlatformKind(s, a.code), a.status, 0)

FallsBack(s, a) == SendOne(s, a, TRUE) = TextFallback

\* send: the answer to the text counts when the markdown was rejected.
Send(s, a, b) ==
  IF ~FallsBack(s, a) THEN SendOne(s, a, TRUE)
  ELSE IF SendOne(s, b, FALSE) = TextFallback THEN Failure("Format", 0, 0)
  ELSE SendOne(s, b, FALSE)

\* External: whether the platform took the message of a request so answered.
Takes(a) ==
  CASE a.fate \in {"NoCredential", "Unfit", "Unreachable"}       -> {0}
    [] a.fate \in {"TimedOut", "Broken", "Oversized", "Garbled"} -> {0, 1}
    [] a.fate = "Answered" ->
         IF ~IsSuccess(a.status) \/ a.code = "none" THEN {0, 1}
         ELSE IF a.code = "ok" THEN {1} ELSE {0}

\* What one attempt may come to when the platform answers as in A.
Attempt(end, copies) == [end |-> end.end, err |-> end.err, copies |-> copies]
Alone(s, a) == {Attempt(SendOne(s, a, TRUE), n) : n \in Takes(a)}
WithText(s, a, b) == {Attempt(Send(s, a, b), m + n) : m \in Takes(a), n \in Takes(b)}
AttemptsOf(s, A) ==
  UNION {IF FallsBack(s, a) THEN UNION {WithText(s, a, b) : b \in A} ELSE Alone(s, a) : a \in A}
=============================================================================
