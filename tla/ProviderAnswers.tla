-------------------------- MODULE ProviderAnswers --------------------------
(***************************************************************************)
(* What becomes of one attempt at a provider: `send` of src/enrichment.rs  *)
(* with its classification of errors, and `decode` of src/providers.rs. An *)
(* answer is how the exchange ended, the HTTP status, and what the JSON of *)
(* a body that arrived whole says. The key stands for the provider and the *)
(* indicator of the request.                                               *)
(***************************************************************************)
EXTENDS Integers

CONSTANTS
  Keys, Providers,
  ProviderOf,  \* the provider of a FlightKey
  AdapterOf,   \* Adapter::id of a provider
  KindOf,      \* the kind of the indicator of a FlightKey
  None

ASSUME KeysAssumption == ProviderOf \in [Keys -> Providers]
ASSUME AdaptersAssumption ==
  /\ AdapterOf \in [Providers -> {"abuseipdb", "virustotal"}]
  /\ KindOf \in [Keys -> {"ip", "url", "hash"}]
ASSUME SupportedAssumption ==
  \A k \in Keys : AdapterOf[ProviderOf[k]] = "virustotal" \/ KindOf[k] = "ip"
ASSUME NoneAssumption == None \notin Keys

-----------------------------------------------------------------------------
(* `about` is the indicator the report names, None if it is of another type *)
(* or its ID is malformed; `fields` is what its other fields are.           *)
Bodies ==
  [form : {"malformed", "NotFoundError", "other error"}, about : {None},
   fields : {"sound"}]
  \cup [form : {"report"}, about : Keys \cup {None},
        fields : {"sound", "invalid", "long"}]

NoBody == [form |-> "malformed", about |-> None, fields |-> "sound"]

(* One of each status that is told from the others. *)
Statuses == {200, 302, 401, 403, 404, 429, 500, 503}

(* No response, one whose body breaks off, and one that is whole. *)
Answers ==
  [end : {"tls", "timeout", "connect", "reset", "network"}, status : {0},
   body : {NoBody}]
  \cup [end : {"timeout", "reset", "broken", "oversized"}, status : Statuses,
        body : {NoBody}]
  \cup [end : {"whole"}, status : Statuses, body : Bodies]

-----------------------------------------------------------------------------
(* Fault: any well-formed ID is accepted. *)
NamesSomething(k, about) == about # None

(* decode_abuseipdb and decode_virustotal. The ID in the report of a URL is *)
(* a digest that is not compared with the URL.                              *)
NamesTheIndicator(k, about) ==
  IF KindOf[k] = "url" THEN about # None ELSE about = k

DecodeReport(k, body) ==
  IF \/ body.form # "report"
     \/ ~NamesTheIndicator(k, body.about)
     \/ body.fields = "invalid"
    THEN "invalid_response"
  ELSE IF body.fields = "long" THEN "response_too_large"
  ELSE "ok"

(* Adapter::decode. Only the documented code of a 404 means that there is   *)
(* no report.                                                               *)
Decode(k, status, body) ==
  CASE status \in 200 .. 299 -> DecodeReport(k, body)
    [] status = 401 -> "provider_authentication_failed"
    [] status = 403 -> "provider_access_denied"
    [] status = 429 -> "quota_exhausted"
    [] /\ status = 404 /\ AdapterOf[ProviderOf[k]] = "virustotal"
       /\ body.form = "NotFoundError" -> "not_found"
    [] status \in 500 .. 599 -> "provider_unavailable"
    [] OTHER -> "provider_request_rejected"

(* Enrichment::send: the result, and whether it may be tried again. A reset *)
(* is a reset whatever the status of the response was.                      *)
Attempt(k, answer) ==
  CASE answer.end = "whole" ->
         [result |-> Decode(k, answer.status, answer.body),
          retry |-> answer.status \in 502 .. 504]
    [] answer.end \in {"connect", "reset"} ->
         [result |-> "network_error", retry |-> TRUE]
    [] OTHER ->
         [retry |-> FALSE,
          result |-> CASE answer.end = "tls" -> "provider_tls_error"
                       [] answer.end = "timeout" -> "provider_timeout"
                       [] answer.end = "network" -> "network_error"
                       [] answer.end = "broken" -> "invalid_response"
                       [] answer.end = "oversized" -> "response_too_large"]

Reports == {"ok", "not_found"}

(* The answers of each kind that the shared lookups tell apart, as what     *)
(* they come to: the indicators reports may be about (None: not found), the *)
(* codes of failures, and whether a failure may be tried again.             *)
ReportsAbout ==
  [k \in Keys |-> {a.body.about : a \in
     {b \in Answers : Attempt(k, b).result \in Reports}}]

Failures ==
  [k \in Keys |-> {Attempt(k, a).result : a \in Answers} \ Reports]

Retryable == [k \in Keys |-> \E a \in Answers : Attempt(k, a).retry]
=============================================================================
