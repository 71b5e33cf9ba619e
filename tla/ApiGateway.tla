----------------------------- MODULE ApiGateway -----------------------------
(***************************************************************************)
(* A call of the browser to the API: a query of the page (fetchQuery and   *)
(* its retries), the same-origin proxy route /api/v1/[...path] with its    *)
(* configuration, service token and timeout, and the API behind it, which  *)
(* may answer, break off or say nothing.  proxy.ts, which redirects page   *)
(* requests that have no session, is the operator Admit.                   *)
(***************************************************************************)
EXTENDS Naturals

CONSTANTS
  Configurations,  \* [env, base, timeout] of the deployments considered
  ApiStatuses      \* statuses the API answers this query with

VARIABLES
  gwConfig,    \* the environment variables of the web server
  gwCall,      \* where the query is
  gwTries,     \* requests sent for it so far
  gwForward,   \* what the proxy sends on: headers and scheme
  gwUpstream,  \* the API's side of the request: untouched, reached or handled
  gwAnswer,    \* the status the page got for the last request and who chose it
  gwGone       \* the browser has aborted the request

gwVars == <<gwConfig, gwCall, gwTries, gwForward, gwUpstream, gwAnswer, gwGone>>

----------------------------------------------------------------------------
(* Configuration and headers. *)

Hosted == {"staging", "production"}

MinTimeout == 1000
MaxTimeout == 300000
\* resolveApiProxyTimeoutMs throws otherwise.
TimeoutValid(c) ==
  \/ c.timeout.kind = "unset"
  \/ c.timeout.kind = "integer" /\ c.timeout.ms \in MinTimeout..MaxTimeout

\* buildApiProxyTarget throws otherwise.  Mutant: hosted deployments may use HTTP.
TargetValidAnyScheme(c) == c.base \in {"http", "https"}
TargetValid(c) ==
  /\ c.base \in {"http", "https"}
  /\ c.env \in Hosted => c.base = "https"

HopByHop == {"connection", "content-length", "host", "transfer-encoding"}
UntrustedRouting == {"forwarded", "x-forwarded-for", "authorization", "x-service-token"}
BrowserHeaders == {"cookie", "content-type", "host", "x-forwarded-for", "authorization"}
ForwardHeaders(headers) ==
  (headers \ (HopByHop \cup UntrustedRouting)) \cup {"x-correlation-id"}

\* proxy.ts, by the first segment of the path.
PublicSegments ==
  {"", "login", "verify", "about", "students", "companies", "pricing", "trust", "impact",
   "contact", "business-model", "evidence", "internships", "judge", "api"}
WorkspaceSegments == {"admin", "client", "lead", "ops", "student", "university"}
Admit(segment, cookie) ==
  IF segment \in WorkspaceSegments \ PublicSegments /\ ~cookie THEN "login" ELSE segment

\* getDemoEnvironmentContract.
DemoEnvironment(env, demoMode) ==
  [env |-> env,
   explicit |-> env = "demo" /\ demoMode,
   fallback |-> env = "test" \/ (env = "demo" /\ demoMode)]

----------------------------------------------------------------------------
NoReply == [status |-> 0, by |-> "nobody"]
NotForwarded == [headers |-> {}, token |-> "none", scheme |-> "none"]

GwInit ==
  /\ gwConfig \in Configurations
  /\ gwCall = "idle"
  /\ gwTries = 0
  /\ gwForward = NotForwarded
  /\ gwUpstream = "untouched"
  /\ gwAnswer = NoReply
  /\ gwGone = FALSE

\* The page (or a retry of its query) sends a request.
SendQuery ==
  /\ gwCall \in {"idle", "retry"}
  /\ gwCall' = "received"
  /\ gwTries' = gwTries + 1
  /\ gwUpstream' = "untouched"
  /\ gwForward' = NotForwarded
  /\ gwAnswer' = NoReply
  /\ UNCHANGED <<gwConfig, gwGone>>

Reply(status, by) ==
  /\ gwCall' = "answered"
  /\ gwAnswer' = [status |-> status, by |-> by]

\* The head of proxyRequest: no target, an unusable one, or the request is built.
RejectUnconfigured ==
  /\ gwCall = "received"
  /\ gwConfig.base = "unset"
  /\ Reply(503, "proxy")
  /\ UNCHANGED <<gwConfig, gwTries, gwForward, gwUpstream, gwGone>>
RejectMisconfigured ==
  /\ gwCall = "received"
  /\ gwConfig.base # "unset"
  /\ ~(TargetValid(gwConfig) /\ TimeoutValid(gwConfig))
  /\ Reply(500, "proxy")
  /\ UNCHANGED <<gwConfig, gwTries, gwForward, gwUpstream, gwGone>>
BuildRequest ==
  /\ gwCall = "received"
  /\ gwConfig.base # "unset"
  /\ TargetValid(gwConfig) /\ TimeoutValid(gwConfig)
  /\ gwCall' = "built"
  /\ gwForward' = [headers |-> ForwardHeaders(BrowserHeaders), token |-> "none",
                   scheme |-> gwConfig.base]
  /\ UNCHANGED <<gwConfig, gwTries, gwUpstream, gwAnswer, gwGone>>

\* apiRequestHeaders: an identity token in the hosted environments.
AddToken ==
  /\ gwCall = "built"
  /\ gwCall' = "forwarded"
  /\ gwForward' = [gwForward EXCEPT !.token = IF gwConfig.env \in Hosted THEN "ours" ELSE "none"]
  /\ UNCHANGED <<gwConfig, gwTries, gwUpstream, gwAnswer, gwGone>>

\* The catch block, in its order: gone, timed out, anything else.
FailedWith(timedOut) ==
  /\ Reply(IF gwGone THEN 499 ELSE IF timedOut THEN 504 ELSE 502, "proxy")
  /\ UNCHANGED <<gwConfig, gwTries, gwForward, gwUpstream, gwGone>>
TokenFails ==
  /\ gwCall = "built" /\ gwConfig.env \in Hosted
  /\ \E timedOut \in BOOLEAN : FailedWith(timedOut)
ConnectionFails == gwCall = "forwarded" /\ FailedWith(FALSE)
\* Mutant: the timer is armed when the API has taken the request.
TimesOutOnceReached ==
  gwCall = "forwarded" /\ gwUpstream # "untouched" /\ FailedWith(TRUE)
TimesOut == gwCall = "forwarded" /\ FailedWith(TRUE)
\* The abort signal of the browser reaches a fetch that is under way.
AbortForwarded == gwCall = "forwarded" /\ gwGone /\ FailedWith(FALSE)

\* The browser leaves the page or the query is cancelled.
GiveUp ==
  /\ gwCall \in {"received", "built", "forwarded"}
  /\ gwGone' = TRUE
  /\ UNCHANGED <<gwConfig, gwCall, gwTries, gwForward, gwUpstream, gwAnswer>>

\* External: the API, which the proxy can neither hurry nor call back.
ApiReached ==
  /\ gwCall = "forwarded"
  /\ gwUpstream = "untouched"
  /\ gwUpstream' = "reached"
  /\ UNCHANGED <<gwConfig, gwCall, gwTries, gwForward, gwAnswer, gwGone>>
ApiHandles ==
  /\ gwUpstream = "reached"
  /\ gwUpstream' = "handled"
  /\ UNCHANGED <<gwConfig, gwCall, gwTries, gwForward, gwAnswer, gwGone>>
ApiAnswers(status) ==
  /\ gwCall = "forwarded"
  /\ gwUpstream = "handled"
  /\ Reply(status, "api")
  /\ UNCHANGED <<gwConfig, gwTries, gwForward, gwUpstream, gwGone>>

\* retryTransientError goes by the text of the error: an answer with the API's error
\* envelope carries its message, so only a refusal without one stops the retries.
MaxTries == 3
Retried ==
  /\ gwTries < MaxTries
  /\ ~(gwAnswer.by = "proxy" /\ gwAnswer.status \in {401, 403, 409, 422})

\* fetchQuery and parseApiError, back in the page.  A cancelled query ends silently.
Settle ==
  /\ gwCall = "answered"
  /\ gwCall' = IF gwGone THEN "cancelled"
               ELSE IF gwAnswer.status \in 200..299 THEN "data"
               ELSE IF Retried THEN "retry" ELSE "error"
  /\ UNCHANGED <<gwConfig, gwTries, gwForward, gwUpstream, gwAnswer, gwGone>>

\* What the web server and the page do by themselves.  The timeout of the proxy does not
\* reach into the call for an identity token, which may take for ever.
GwSteps ==
  \/ gwCall = "retry" /\ SendQuery
  \/ RejectUnconfigured
  \/ RejectMisconfigured
  \/ BuildRequest
  \/ gwConfig.env \notin Hosted /\ AddToken
  \/ TimesOut
  \/ AbortForwarded
  \/ Settle
GwNext ==
  \/ SendQuery
  \/ GwSteps
  \/ AddToken
  \/ TokenFails
  \/ ConnectionFails
  \/ GiveUp
  \/ ApiReached
  \/ ApiHandles
  \/ \E status \in ApiStatuses : ApiAnswers(status)

GwSpec == GwInit /\ [][GwNext]_gwVars /\ WF_gwVars(GwSteps)

----------------------------------------------------------------------------
(* Properties. *)

\* What the page is told of a request is true of it: a configuration error means the
\* API never saw it, an answer of the API means it was handled, and a hosted API is
\* reached over HTTPS with the proxy's own token, never with one from the browser.
AnswersAreTrue ==
  /\ gwAnswer.by = "proxy" /\ gwAnswer.status \in {500, 503} => gwUpstream = "untouched"
  /\ gwAnswer.by = "api" => gwUpstream = "handled"
  /\ gwUpstream # "untouched" =>
       /\ gwForward.headers \cap UntrustedRouting = {}
       /\ gwConfig.env \in Hosted => gwForward.scheme = "https" /\ gwForward.token = "ours"

\* A query ends, with data, an error or a cancellation, although the API may say
\* nothing for ever: the timeout of the proxy answers in its place.  What it does not
\* bound is the call for an identity token, where a query of a hosted environment,
\* or a later try of one, may be held up.
TokenAwaited == gwCall = "built" /\ gwConfig.env \in Hosted
QueryEnds ==
  gwCall \in {"received", "forwarded", "answered", "retry"} ~>
    gwCall \in {"data", "error", "cancelled"} \/ TokenAwaited
=============================================================================
